----------------------------- MODULE SetupProofs -----------------------------
(***************************************************************************)
(* Setups leave the service as its configuration needs it, one webhook of  *)
(* a kind, and the keys that the operator has taken over; for any number   *)
(* of setups, merchant accounts, projects and configurations.              *)
(***************************************************************************)
EXTENDS Setup, SequenceTheorems, WellFoundedInduction, FiniteSetTheorems, TLAPS

\* A configuration that differs from one of the operator's in its keys.
IsConfigured(conf) ==
    \E c \in Configurations :
        /\ DOMAIN conf = DOMAIN c
        /\ conf.basicAuth = c.basicAuth
        /\ conf.commercetools = c.commercetools
        /\ DOMAIN conf.adyen = Merchants
        /\ \A m \in Merchants :
              /\ DOMAIN conf.adyen[m] = DOMAIN c.adyen[m]
              /\ \A f \in DOMAIN c.adyen[m] \ {"secretHmacKey"} :
                    conf.adyen[m][f] = c.adyen[m][f]

----------------------------------------------------------------------------
(* The tasks of a configuration *)

TaskWith(kind, m, authentication) ==
    [kind |-> kind, merchant |-> m, authentication |-> authentication]

StandardTasks(conf) ==
    {TaskWith("standard", m, NoValue) : m \in {n \in Merchants : conf.adyen[n].hasBaseUrl}}
HmacTasks(conf) ==
    {TaskWith("hmac", m, NoValue) :
        m \in {n \in Merchants : /\ conf.adyen[n].hasBaseUrl
                                 /\ IsHmacEnabled(conf.adyen[n])
                                 /\ conf.adyen[n].secretHmacKey = NoValue}}
PendingTasks(conf) ==
    {TaskWith("pending", m, conf.adyen[m].authentication) :
        m \in {n \in Merchants : /\ conf.adyen[n].hasBaseUrl
                                 /\ IsPendingEnabled(conf.adyen[n])}}
Tasks(conf) == StandardTasks(conf) \cup HmacTasks(conf) \cup PendingTasks(conf)

\* Tasks, each once; a key is generated right after its webhook was found.
IsPlan(todo, conf) ==
    /\ todo \in Seq(Tasks(conf))
    /\ \A i, j \in DOMAIN todo : todo[i] = todo[j] => i = j
    /\ \A i \in DOMAIN todo \ {1} : todo[i].kind = "hmac" =>
          todo[i - 1] = TaskWith("standard", todo[i].merchant, NoValue)

\* All the tasks of some merchant accounts, from the first on.
IsPlanFor(todo, conf, accounts) ==
    /\ IsPlan(todo, conf)
    /\ todo # <<>> => todo[1].kind # "hmac"
    /\ \A task \in Tasks(conf) :
          (\E i \in DOMAIN todo : todo[i] = task) <=> task.merchant \in accounts

LEMMA TaskFields ==
    ASSUME NEW conf, NEW task \in Tasks(conf)
    PROVE  /\ task = TaskWith(task.kind, task.merchant, task.authentication)
           /\ task.kind \in {"standard", "hmac", "pending"}
           /\ task.merchant \in Merchants
           /\ conf.adyen[task.merchant].hasBaseUrl
           /\ task.kind # "pending" => task.authentication = NoValue
           /\ task.kind = "hmac" => conf.adyen[task.merchant].secretHmacKey = NoValue
           /\ task.kind = "pending" =>
                /\ task.authentication = conf.adyen[task.merchant].authentication
                /\ IsPendingEnabled(conf.adyen[task.merchant])
BY DEF Tasks, StandardTasks, HmacTasks, PendingTasks, TaskWith

LEMMA ConcatOfFew ==
    ASSUME NEW a, NEW b, NEW c
    PROVE  /\ <<a>> \o <<b>> \o <<c>> = <<a, b, c>>
           /\ <<a>> \o <<b>> \o <<>> = <<a, b>>
           /\ <<a>> \o <<>> \o <<c>> = <<a, c>>
           /\ <<a>> \o <<>> \o <<>> = <<a>>
<1> DEFINE E == {a, b, c}
<1>1. /\ <<a>> \in Seq(E) /\ <<b>> \in Seq(E) /\ <<c>> \in Seq(E)
      /\ <<a, b>> \in Seq(E) /\ <<a, c>> \in Seq(E) /\ <<a, b, c>> \in Seq(E)
  OBVIOUS
<1> HIDE DEF E
<1>2. \A x, y : <<x>> \in Seq(E) /\ <<y>> \in Seq(E) => <<x>> \o <<y>> = <<x, y>>
  <2> SUFFICES ASSUME NEW x, NEW y, <<x>> \in Seq(E), <<y>> \in Seq(E)
               PROVE  <<x>> \o <<y>> = <<x, y>>
    OBVIOUS
  <2> DEFINE s == <<x>> \o <<y>>
             t == <<x, y>>
  <2>1. s \in Seq(E) /\ Len(s) = Len(<<x>>) + Len(<<y>>)
        /\ (\A i \in 1..(Len(<<x>>) + Len(<<y>>)) :
              s[i] = IF i <= Len(<<x>>) THEN <<x>>[i] ELSE <<y>>[i - Len(<<x>>)])
    BY ConcatProperties
  <2>2. Len(<<x>>) = 1 /\ Len(<<y>>) = 1 /\ <<x>>[1] = x /\ <<y>>[1] = y
    OBVIOUS
  <2>3. Len(s) = 2 /\ s[1] = x /\ s[2] = y
    <3> HIDE DEF s
    <3> QED
      BY <2>1, <2>2
  <2>4. t \in Seq({x, y}) /\ Len(t) = 2 /\ t[1] = x /\ t[2] = y
    OBVIOUS
  <2>5. s \in Seq(E \cup {x, y}) /\ t \in Seq(E \cup {x, y})
    BY <2>1, <2>4, SeqMonotonic
  <2>6. \A i \in 1..Len(s) : s[i] = t[i]
    <3> HIDE DEF s, t
    <3> QED
      BY <2>3, <2>4
  <2> HIDE DEF s, t
  <2>7. s = t
    BY <2>3, <2>4, <2>5, <2>6, SeqEqual
  <2> QED
    BY <2>7 DEF s, t
<1>3. <<a, b>> \o <<c>> = <<a, b, c>>
  <2> DEFINE s == <<a, b>> \o <<c>>
             t == <<a, b, c>>
             x == <<a, b>>
             y == <<c>>
  <2>1. s \in Seq(E) /\ Len(s) = Len(x) + Len(y)
        /\ (\A i \in 1..(Len(x) + Len(y)) :
              s[i] = IF i <= Len(x) THEN x[i] ELSE y[i - Len(x)])
    BY <1>1, ConcatProperties
  <2>2. Len(x) = 2 /\ Len(y) = 1 /\ x[1] = a /\ x[2] = b /\ y[1] = c
    OBVIOUS
  <2>3. Len(t) = 3 /\ t[1] = a /\ t[2] = b /\ t[3] = c
    OBVIOUS
  <2>4. Len(s) = 3 /\ s[1] = a /\ s[2] = b /\ s[3] = c
    <3> HIDE DEF s, x, y
    <3> QED
      BY <2>1, <2>2
  <2>5. t \in Seq(E)
    BY <1>1
  <2> HIDE DEF s, t, x, y
  <2>6. \A i \in 1..Len(s) : s[i] = t[i]
    BY <2>3, <2>4
  <2>7. s = t
    BY <2>1, <2>3, <2>4, <2>5, <2>6, SeqEqual
  <2> QED
    BY <2>7 DEF s, t
<1>4. \A s \in Seq(E) : s \o <<>> = s
  BY ConcatEmptySeq
<1> QED
  BY <1>1, <1>2, <1>3, <1>4

\* The tasks of one merchant account.
LEMMA TasksForPlan ==
    ASSUME NEW conf, NEW m \in Merchants
    PROVE  IsPlanFor(TasksFor(m, conf.adyen[m]), conf, {m})
<1> DEFINE S == TaskWith("standard", m, NoValue)
           H == TaskWith("hmac", m, NoValue)
           P == TaskWith("pending", m, conf.adyen[m].authentication)
           h == IsHmacEnabled(conf.adyen[m]) /\ conf.adyen[m].secretHmacKey = NoValue
           p == IsPendingEnabled(conf.adyen[m])
           todo == TasksFor(m, conf.adyen[m])
<1>1. CASE ~conf.adyen[m].hasBaseUrl
  <2>1. todo = <<>>
    BY <1>1 DEF TasksFor
  <2>2. \A task \in Tasks(conf) : task.merchant # m
    BY <1>1, TaskFields
  <2> QED
    BY <2>1, <2>2 DEF IsPlanFor, IsPlan
<1>2. CASE conf.adyen[m].hasBaseUrl
  <2>1. todo = <<S>> \o (IF h THEN <<H>> ELSE <<>>) \o (IF p THEN <<P>> ELSE <<>>)
    BY <1>2 DEF TasksFor, TaskWith
  <2>2. todo = IF h THEN IF p THEN <<S, H, P>> ELSE <<S, H>>
                    ELSE IF p THEN <<S, P>> ELSE <<S>>
    <3> HIDE DEF S, H, P, h, p, todo
    <3> QED
      BY <2>1, ConcatOfFew, Zenon
  <2>3. /\ S \in Tasks(conf)
        /\ h => H \in Tasks(conf)
        /\ p => P \in Tasks(conf)
    BY <1>2 DEF Tasks, StandardTasks, HmacTasks, PendingTasks
  <2>4. \A task \in Tasks(conf) :
           task.merchant = m => task = S \/ (h /\ task = H) \/ (p /\ task = P)
    BY DEF Tasks, StandardTasks, HmacTasks, PendingTasks, TaskWith
  <2>5. /\ S.kind = "standard" /\ S.merchant = m
        /\ H.kind = "hmac" /\ H.merchant = m
        /\ P.kind = "pending" /\ P.merchant = m
        /\ S # H /\ H # P /\ S # P
    BY DEF TaskWith
  <2> DEFINE T == Tasks(conf)
  <2>6. /\ S \in T
        /\ h => H \in T
        /\ p => P \in T
        /\ \A task \in T :
              task.merchant = m => task = S \/ (h /\ task = H) \/ (p /\ task = P)
    BY <2>3, <2>4
  <2> HIDE DEF T, S, H, P, h, p, todo
  <2>7. /\ todo \in Seq(T)
        /\ todo # <<>> => todo[1].kind # "hmac"
    BY <2>2, <2>5, <2>6
  <2>8. \A i, j \in DOMAIN todo : todo[i] = todo[j] => i = j
    BY <2>2, <2>5
  <2>9. \A i \in DOMAIN todo \ {1} : todo[i].kind = "hmac" => todo[i - 1] = S /\ todo[i] = H
    BY <2>2, <2>5
  <2>10. \A task \in T : (\E i \in DOMAIN todo : todo[i] = task) <=> task.merchant = m
    <3>1. \A task : (\E i \in DOMAIN todo : todo[i] = task) <=>
                    task = S \/ (h /\ task = H) \/ (p /\ task = P)
      <4>1. CASE h /\ p
        <5>1. todo = <<S, H, P>>
          BY <2>2, <4>1
        <5> QED
          BY <5>1, <4>1
      <4>2. CASE h /\ ~p
        <5>1. todo = <<S, H>>
          BY <2>2, <4>2
        <5> QED
          BY <5>1, <4>2
      <4>3. CASE ~h /\ p
        <5>1. todo = <<S, P>>
          BY <2>2, <4>3
        <5> QED
          BY <5>1, <4>3
      <4>4. CASE ~h /\ ~p
        <5>1. todo = <<S>>
          BY <2>2, <4>4
        <5> QED
          BY <5>1, <4>4
      <4> QED
        BY <4>1, <4>2, <4>3, <4>4
    <3> QED
      BY <3>1, <2>5, <2>6
  <2>11. \A i \in DOMAIN todo \ {1} : todo[i].kind = "hmac" =>
            todo[i - 1] = TaskWith("standard", todo[i].merchant, NoValue)
    <3>1. H.merchant = m
      BY <2>5
    <3> QED
      BY <2>9, <3>1 DEF S
  <2> QED
    BY <2>7, <2>8, <2>10, <2>11 DEF IsPlanFor, IsPlan, T, todo
<1> QED
  BY <1>1, <1>2

\* The plans of different merchant accounts one after the other.
LEMMA PlanAfterPlan ==
    ASSUME NEW conf, NEW first, NEW second, NEW A, NEW B, A \cap B = {},
           IsPlanFor(first, conf, A), IsPlanFor(second, conf, B)
    PROVE  IsPlanFor(first \o second, conf, A \cup B)
<1> DEFINE T == Tasks(conf)
           both == first \o second
<1>1. /\ first \in Seq(T) /\ second \in Seq(T)
      /\ Len(first) \in Nat /\ Len(second) \in Nat
      /\ DOMAIN first = 1..Len(first) /\ DOMAIN second = 1..Len(second)
  BY DEF IsPlanFor, IsPlan
<1>2. /\ both \in Seq(T)
      /\ Len(both) = Len(first) + Len(second)
      /\ DOMAIN both = 1..(Len(first) + Len(second))
      /\ \A i \in 1..Len(first) : both[i] = first[i]
      /\ \A i \in 1..Len(second) : both[Len(first) + i] = second[i]
  BY <1>1
<1>3. /\ \A i \in DOMAIN first : first[i] \in T
      /\ \A i \in DOMAIN second : second[i] \in T
  BY <1>1
<1>4. /\ \A i \in DOMAIN first : first[i].merchant \in A
      /\ \A i \in DOMAIN second : second[i].merchant \in B
  BY <1>3 DEF IsPlanFor
<1> HIDE DEF both
<1>5. \A i \in DOMAIN both :
         \/ i \in DOMAIN first /\ both[i] = first[i]
         \/ i - Len(first) \in DOMAIN second /\ both[i] = second[i - Len(first)]
  <2> SUFFICES ASSUME NEW i \in DOMAIN both
               PROVE  \/ i \in DOMAIN first /\ both[i] = first[i]
                      \/ i - Len(first) \in DOMAIN second /\ both[i] = second[i - Len(first)]
    OBVIOUS
  <2>1. CASE i <= Len(first)
    BY <1>1, <1>2, <2>1
  <2>2. CASE i > Len(first)
    <3>1. i - Len(first) \in 1..Len(second)
      BY <1>1, <1>2, <2>2
    <3>2. both[Len(first) + (i - Len(first))] = second[i - Len(first)]
      BY <3>1, <1>2
    <3>3. Len(first) + (i - Len(first)) = i
      BY <1>1, <1>2
    <3> QED
      BY <3>1, <3>2, <3>3, <1>1
  <2> QED
    BY <2>1, <2>2, <1>1, <1>2
<1>6. \A i, j \in DOMAIN both : both[i] = both[j] => i = j
  <2> SUFFICES ASSUME NEW i \in DOMAIN both, NEW j \in DOMAIN both, both[i] = both[j]
               PROVE  i = j
    OBVIOUS
  <2>1. i \in Int /\ j \in Int
    BY <1>1, <1>2
  <2>2. CASE i \in DOMAIN first /\ both[i] = first[i] /\ j \in DOMAIN first /\ both[j] = first[j]
    BY <2>2 DEF IsPlanFor, IsPlan
  <2>3. CASE /\ i - Len(first) \in DOMAIN second /\ both[i] = second[i - Len(first)]
             /\ j - Len(first) \in DOMAIN second /\ both[j] = second[j - Len(first)]
    <3>1. i - Len(first) = j - Len(first)
      BY <2>3 DEF IsPlanFor, IsPlan
    <3> QED
      BY <3>1, <2>1, <1>1
  <2>4. (both[i].merchant \in A /\ both[j].merchant \in B) => FALSE
    OBVIOUS
  <2>5. (both[i].merchant \in B /\ both[j].merchant \in A) => FALSE
    OBVIOUS
  <2> QED
    BY <2>2, <2>3, <2>4, <2>5, <1>4, <1>5
<1>7. \A i \in DOMAIN both \ {1} : both[i].kind = "hmac" =>
         both[i - 1] = TaskWith("standard", both[i].merchant, NoValue)
  <2> SUFFICES ASSUME NEW i \in DOMAIN both \ {1}, both[i].kind = "hmac"
               PROVE  both[i - 1] = TaskWith("standard", both[i].merchant, NoValue)
    OBVIOUS
  <2>1. CASE i \in DOMAIN first /\ both[i] = first[i]
    <3>1. first[i - 1] = TaskWith("standard", first[i].merchant, NoValue)
      BY <2>1 DEF IsPlanFor, IsPlan
    <3>2. i - 1 \in 1..Len(first)
      BY <2>1, <1>1
    <3> QED
      BY <3>1, <3>2, <2>1, <1>2
  <2>2. CASE i - Len(first) \in DOMAIN second /\ both[i] = second[i - Len(first)]
    <3> DEFINE k == i - Len(first)
    <3>1. k # 1
      BY <2>2 DEF IsPlanFor
    <3>2. second[k - 1] = TaskWith("standard", second[k].merchant, NoValue)
      BY <2>2, <3>1 DEF IsPlanFor, IsPlan
    <3>3. k - 1 \in 1..Len(second) /\ Len(first) + (k - 1) = i - 1
      BY <2>2, <3>1, <1>1, <1>2
    <3>4. both[Len(first) + (k - 1)] = second[k - 1]
      BY <3>3, <1>2
    <3> QED
      BY <3>2, <3>3, <3>4, <2>2
  <2> QED
    BY <2>1, <2>2, <1>5
<1>8. both # <<>> => both[1].kind # "hmac"
  <2> SUFFICES ASSUME both # <<>>
               PROVE  both[1].kind # "hmac"
    OBVIOUS
  <2>1. CASE first = <<>>
    <3>1. both = second
      BY <2>1, <1>1 DEF both
    <3> QED
      BY <3>1 DEF IsPlanFor
  <2>2. CASE first # <<>>
    <3>1. 1 \in 1..Len(first)
      BY <2>2, <1>1
    <3> QED
      BY <3>1, <2>2, <1>2 DEF IsPlanFor
  <2> QED
    BY <2>1, <2>2
<1>9. ASSUME NEW task \in T
      PROVE  (\E i \in DOMAIN both : both[i] = task) <=> task.merchant \in A \cup B
  <2>1. ASSUME NEW i \in DOMAIN both, both[i] = task
        PROVE  task.merchant \in A \cup B
    BY <2>1, <1>4, <1>5
  <2>2. ASSUME task.merchant \in A
        PROVE  \E i \in DOMAIN both : both[i] = task
    <3>1. PICK i \in DOMAIN first : first[i] = task
      BY <2>2 DEF IsPlanFor
    <3>2. i \in DOMAIN both /\ both[i] = task
      BY <3>1, <1>1, <1>2
    <3> QED
      BY <3>2
  <2>3. ASSUME task.merchant \in B
        PROVE  \E i \in DOMAIN both : both[i] = task
    <3>1. PICK i \in DOMAIN second : second[i] = task
      BY <2>3 DEF IsPlanFor
    <3>2. Len(first) + i \in DOMAIN both /\ both[Len(first) + i] = task
      BY <3>1, <1>1, <1>2
    <3> QED
      BY <3>2
  <2> QED
    BY <2>1, <2>2, <2>3
<1> QED
  BY <1>2, <1>6, <1>7, <1>8, <1>9 DEF IsPlanFor, IsPlan, both

\* What TasksOf collects up to the n-th merchant account.
CollectsTasks(f, conf, n) ==
    f = [i \in 0..n |->
            IF i = 0 THEN <<>>
            ELSE f[i - 1] \o TasksFor(MerchantOrder[i], conf.adyen[MerchantOrder[i]])]

LEMMA LeastOf ==
    ASSUME NEW S \in SUBSET Nat, S # {}
    PROVE  \E n \in S : \A k \in S : ~(k < n)
<1>1. PICK n \in S : \A k \in S : ~(<<k, n>> \in OpToRel(<, Nat))
  BY WFMin, NatLessThanWellFounded
<1>2. \A k \in S : ~(k < n)
  BY <1>1 DEF OpToRel
<1> QED
  BY <1>2

LEMMA TasksAreCollected ==
    ASSUME NEW conf, NEW n \in Nat
    PROVE  \E f : CollectsTasks(f, conf, n)
<1> DEFINE Without == {k \in Nat : ~(\E f : CollectsTasks(f, conf, k))}
<1> SUFFICES ASSUME Without # {}
             PROVE  FALSE
  OBVIOUS
<1>1. PICK k \in Without : \A l \in Without : ~(l < k)
  BY LeastOf
<1>2. CASE k = 0
  <2>1. CollectsTasks([i \in 0..0 |-> <<>>], conf, 0)
    BY DEF CollectsTasks
  <2> QED
    BY <2>1, <1>2
<1>3. CASE k # 0
  <2>1. k - 1 \in Nat /\ k - 1 < k
    BY <1>3
  <2>2. PICK f : CollectsTasks(f, conf, k - 1)
    BY <1>1, <2>1
  <2> DEFINE Next1(i) == f[i - 1] \o TasksFor(MerchantOrder[i], conf.adyen[MerchantOrder[i]])
             g == [i \in 0..k |-> IF i = k THEN Next1(k) ELSE f[i]]
  <2>3. \A i \in 0..(k - 1) : f[i] = IF i = 0 THEN <<>> ELSE Next1(i)
    BY <2>2 DEF CollectsTasks
  <2>4. \A i \in 0..k : g[i] = IF i = 0 THEN <<>> ELSE Next1(i)
    BY <2>3, <1>3
  <2>5. \A i \in 0..k : i # 0 => g[i - 1] = f[i - 1]
    OBVIOUS
  <2>6. CollectsTasks(g, conf, k)
    <3>1. \A i \in 0..k : g[i] = IF i = 0 THEN <<>>
             ELSE g[i - 1] \o TasksFor(MerchantOrder[i], conf.adyen[MerchantOrder[i]])
      BY <2>4, <2>5
    <3>2. g = [i \in 0..k |-> g[i]]
      OBVIOUS
    <3> HIDE DEF g
    <3>3. g = [i \in 0..k |-> IF i = 0 THEN <<>>
             ELSE g[i - 1] \o TasksFor(MerchantOrder[i], conf.adyen[MerchantOrder[i]])]
      BY <3>1, <3>2
    <3> QED
      BY <3>3 DEF CollectsTasks
  <2> QED
    BY <2>6
<1> QED
  BY <1>2, <1>3

\* ensureAdyenWebhooksForAllProjects has everything to do that the
\* configuration asks for, each thing once.
LEMMA TasksOfPlan ==
    ASSUME NEW conf
    PROVE  IsPlanFor(TasksOf(conf), conf, Merchants)
<1> DEFINE n == Len(MerchantOrder)
           Collected(f) == f = [i \in 0..Len(MerchantOrder) |->
               IF i = 0 THEN <<>>
               ELSE f[i - 1] \o TasksFor(MerchantOrder[i], conf.adyen[MerchantOrder[i]])]
           Before(i) == {MerchantOrder[k] : k \in 1..i}
<1>1. n \in Nat /\ DOMAIN MerchantOrder = 1..n
  BY MerchantsAssumption
<1>2. \E f : Collected(f)
  BY <1>1, TasksAreCollected DEF CollectsTasks
<1>3. TasksOf(conf) = (CHOOSE f : Collected(f))[n]
  BY DEF TasksOf
<1>4. PICK f : Collected(f) /\ TasksOf(conf) = f[n]
  <2>1. Collected(CHOOSE f : Collected(f))
    <3> HIDE DEF Collected
    <3> QED
      BY <1>2
  <2> QED
    BY <2>1, <1>3
<1> DEFINE Bad == {i \in 0..n : ~IsPlanFor(f[i], conf, Before(i))}
<1>8. \A i \in 1..n :
         f[i] = f[i - 1] \o TasksFor(MerchantOrder[i], conf.adyen[MerchantOrder[i]])
  <2> SUFFICES ASSUME NEW i \in 1..n
               PROVE  f[i] = f[i - 1]
                             \o TasksFor(MerchantOrder[i], conf.adyen[MerchantOrder[i]])
    OBVIOUS
  <2>1. i \in 0..n /\ i # 0
    BY <1>1
  <2>2. f[i] = IF i = 0 THEN <<>>
               ELSE f[i - 1] \o TasksFor(MerchantOrder[i], conf.adyen[MerchantOrder[i]])
    BY <1>4, <2>1, Zenon
  <2> QED
    BY <2>1, <2>2
<1>9. Bad \in SUBSET Nat
  BY <1>1
<1>5. Bad = {}
  <2> SUFFICES ASSUME Bad # {}
               PROVE  FALSE
    OBVIOUS
  <2>1. PICK i \in Bad : \A k \in Bad : ~(k < i)
    <3> HIDE DEF Bad
    <3> QED
      BY <1>9, LeastOf
  <2>2. CASE i = 0
    <3>1. f[0] = <<>>
      BY <1>4, <1>1
    <3>2. Before(0) = {}
      OBVIOUS
    <3>3. IsPlanFor(<<>>, conf, {})
      BY DEF IsPlanFor, IsPlan
    <3> QED
      BY <2>2, <3>1, <3>2, <3>3
  <2>3. CASE i # 0
    <3>1. i \in 1..n /\ i - 1 \in 0..n /\ i - 1 < i
      BY <2>3, <1>1
    <3>2. IsPlanFor(f[i - 1], conf, Before(i - 1))
      BY <2>1, <3>1
    <3>3. f[i] = f[i - 1] \o TasksFor(MerchantOrder[i], conf.adyen[MerchantOrder[i]])
      BY <1>8, <3>1
    <3>4. MerchantOrder[i] \in Merchants
      BY <3>1, <1>1, MerchantsAssumption
    <3>5. IsPlanFor(TasksFor(MerchantOrder[i], conf.adyen[MerchantOrder[i]]), conf,
                    {MerchantOrder[i]})
      BY <3>4, TasksForPlan
    <3>6. Before(i - 1) \cap {MerchantOrder[i]} = {}
      BY <3>1, <1>1, MerchantsAssumption
    <3>7. Before(i - 1) \cup {MerchantOrder[i]} = Before(i)
      BY <3>1
    <3> HIDE DEF Before
    <3>8. IsPlanFor(f[i], conf, Before(i))
      BY <3>2, <3>3, <3>5, <3>6, <3>7, PlanAfterPlan
    <3> QED
      BY <3>8
  <2> QED
    BY <2>2, <2>3
<1>6. IsPlanFor(f[n], conf, Before(n))
  <2> HIDE DEF Before
  <2>1. n \in 0..n
    BY <1>1
  <2> HIDE DEF n
  <2> QED
    BY <2>1, <1>5
<1>7. Before(n) = Merchants
  BY <1>1, MerchantsAssumption
<1> QED
  BY <1>4, <1>6, <1>7

\* The rest of a plan.
LEMMA TailOfPlan ==
    ASSUME NEW conf, NEW todo, IsPlan(todo, conf), todo # <<>>
    PROVE  /\ Head(todo) \in Tasks(conf)
           /\ \E i \in DOMAIN todo : todo[i] = Head(todo)
           /\ IsPlan(Tail(todo), conf)
           /\ \A task :
                (\E i \in DOMAIN Tail(todo) : Tail(todo)[i] = task)
                <=> task # Head(todo) /\ \E i \in DOMAIN todo : todo[i] = task
           /\ Tail(todo) # <<>> /\ Head(Tail(todo)).kind = "hmac" =>
                Head(todo) = TaskWith("standard", Head(Tail(todo)).merchant, NoValue)
<1> DEFINE T == Tasks(conf)
           rest == Tail(todo)
<1>1. todo \in Seq(T) /\ Len(todo) \in Nat \ {0} /\ DOMAIN todo = 1..Len(todo)
  BY DEF IsPlan
<1>2. /\ Head(todo) = todo[1]
      /\ rest \in Seq(T)
      /\ Len(rest) = Len(todo) - 1
      /\ DOMAIN rest = 1..(Len(todo) - 1)
      /\ \A i \in 1..(Len(todo) - 1) : rest[i] = todo[i + 1]
  BY <1>1
<1>3. 1 \in DOMAIN todo /\ todo[1] \in T
  BY <1>1
<1> HIDE DEF rest
<1>4. \A i, j \in DOMAIN rest : rest[i] = rest[j] => i = j
  <2> SUFFICES ASSUME NEW i \in DOMAIN rest, NEW j \in DOMAIN rest, rest[i] = rest[j]
               PROVE  i = j
    OBVIOUS
  <2>1. i + 1 \in DOMAIN todo /\ j + 1 \in DOMAIN todo /\ todo[i + 1] = todo[j + 1]
    BY <1>1, <1>2
  <2>2. i + 1 = j + 1
    BY <2>1 DEF IsPlan
  <2> QED
    BY <2>2, <1>1, <1>2
<1>5. \A i \in DOMAIN rest : rest[i].kind = "hmac" =>
         todo[i] = TaskWith("standard", rest[i].merchant, NoValue)
  <2> SUFFICES ASSUME NEW i \in DOMAIN rest, rest[i].kind = "hmac"
               PROVE  todo[i] = TaskWith("standard", rest[i].merchant, NoValue)
    OBVIOUS
  <2>1. i + 1 \in DOMAIN todo \ {1} /\ rest[i] = todo[i + 1] /\ (i + 1) - 1 = i
    BY <1>1, <1>2
  <2>2. todo[(i + 1) - 1] = TaskWith("standard", todo[i + 1].merchant, NoValue)
    BY <2>1 DEF IsPlan
  <2> QED
    BY <2>1, <2>2
<1>6. IsPlan(rest, conf)
  <2>1. \A i \in DOMAIN rest \ {1} : rest[i].kind = "hmac" =>
           rest[i - 1] = TaskWith("standard", rest[i].merchant, NoValue)
    <3> SUFFICES ASSUME NEW i \in DOMAIN rest \ {1}, rest[i].kind = "hmac"
                 PROVE  rest[i - 1] = TaskWith("standard", rest[i].merchant, NoValue)
      OBVIOUS
    <3>1. i - 1 \in 1..(Len(todo) - 1) /\ (i - 1) + 1 = i
      BY <1>1, <1>2
    <3>2. rest[i - 1] = todo[i]
      BY <3>1, <1>2
    <3> QED
      BY <3>2, <1>5
  <2> QED
    BY <1>2, <1>4, <2>1 DEF IsPlan
<1>7. ASSUME NEW task
      PROVE  (\E i \in DOMAIN rest : rest[i] = task)
             <=> task # Head(todo) /\ \E i \in DOMAIN todo : todo[i] = task
  <2>1. ASSUME NEW i \in DOMAIN rest, rest[i] = task
        PROVE  task # Head(todo) /\ \E k \in DOMAIN todo : todo[k] = task
    <3>1. i + 1 \in DOMAIN todo /\ todo[i + 1] = task /\ i + 1 # 1
      BY <2>1, <1>1, <1>2
    <3>2. todo[i + 1] # todo[1]
      BY <3>1, <1>3 DEF IsPlan
    <3> QED
      BY <3>1, <3>2, <1>2
  <2>2. ASSUME task # Head(todo), NEW k \in DOMAIN todo, todo[k] = task
        PROVE  \E i \in DOMAIN rest : rest[i] = task
    <3>1. k - 1 \in DOMAIN rest /\ (k - 1) + 1 = k
      BY <2>2, <1>1, <1>2
    <3>2. rest[k - 1] = todo[k]
      BY <3>1, <1>2
    <3> QED
      BY <3>1, <3>2, <2>2
  <2> QED
    BY <2>1, <2>2
<1>8. rest # <<>> /\ Head(rest).kind = "hmac" =>
         Head(todo) = TaskWith("standard", Head(rest).merchant, NoValue)
  <2> SUFFICES ASSUME rest # <<>>, Head(rest).kind = "hmac"
               PROVE  Head(todo) = TaskWith("standard", Head(rest).merchant, NoValue)
    OBVIOUS
  <2>1. 1 \in DOMAIN rest /\ Head(rest) = rest[1]
    BY <1>2
  <2> QED
    BY <2>1, <1>2, <1>5
<1> QED
  BY <1>2, <1>3, <1>6, <1>7, <1>8 DEF rest

----------------------------------------------------------------------------
(* Webhooks and the setups that register them *)

Shapes ==
    /\ module \in {"notification", "extension"}
    /\ IsConfigured(config)
    /\ DOMAIN loaded = Setups
    /\ DOMAIN registrations = Setups
    /\ \A s \in Setups :
          /\ DOMAIN registrations[s] = {"pc", "todo", "found"}
          /\ registrations[s].pc # "idle" => IsConfigured(loaded[s]) /\ IsLoaded(loaded[s])

IsFunction(f) == f = [x \in DOMAIN f |-> f[x]]

IsWebhook(hook) ==
    /\ IsFunction(hook)
    /\ DOMAIN hook = {"kind", "active", "hmacKey", "authentication"}
    /\ hook.kind \in {"standard", "pending"}
    /\ hook.active \in BOOLEAN
    /\ hook.authentication = NoValue \/
         \E c \in Configurations, m \in Merchants :
            hook.authentication = c.adyen[m].authentication
    /\ hook.kind = "pending" => HasCredentials(hook.authentication)

\* A sequence, of whatever.
IsList(list) ==
    /\ Len(list) \in Nat
    /\ list = [i \in 1..Len(list) |-> list[i]]

WebhookShapes ==
    /\ DOMAIN webhooks = Merchants
    /\ DOMAIN printed = Merchants
    /\ \A m \in Merchants :
          /\ IsList(webhooks[m])
          /\ \A i \in DOMAIN webhooks[m] : IsWebhook(webhooks[m][i])

\* A setup with webhooks to register works on a rest of its tasks.
IsBusy(s) ==
    /\ module = "notification"
    /\ IsPlan(registrations[s].todo, loaded[s])
    /\ registrations[s].todo # <<>>

\* Where a setup is with its tasks.
Place(s) ==
    \/ /\ registrations[s].pc \in {"idle", "done", "failed"}
       /\ registrations[s].todo = <<>>
       /\ registrations[s].found = 0
    \/ /\ registrations[s].pc = "list"
       /\ IsBusy(s)
       /\ Task(s).kind # "hmac"
       /\ registrations[s].found = 0
    \/ /\ registrations[s].pc = "write"
       /\ IsBusy(s)
       /\ Task(s).kind # "hmac"
       /\ registrations[s].found \in {0} \cup Positions(Task(s).merchant, Task(s).kind)
    \/ /\ registrations[s].pc = "hmac"
       /\ IsBusy(s)
       /\ Task(s).kind = "hmac"
       /\ registrations[s].found \in Positions(Task(s).merchant, "standard")

TypeInv == Shapes /\ WebhookShapes /\ \A s \in Setups : Place(s)

\* The requests to Adyen, answered or not.
Registers(s) ==
    \/ Register(s)
    \/ RefuseActivation(s)
    \/ RefuseList(s)
    \/ RefuseHmac(s)
    \/ Interrupt(s)

\* What they can do to the webhooks.
HooksChange(s) ==
    \/ webhooks' = webhooks
    \/ At(s, "write") /\ registrations[s].found = 0 /\ AddWebhook(s)
    \/ At(s, "write") /\ registrations[s].found # 0 /\ WriteWebhook(s)
    \/ At(s, "hmac") /\ SetHmacKey(s, ConfiguredKeys)

LEMMA ListIsSeq ==
    ASSUME NEW list, IsList(list), NEW e
    PROVE  /\ DOMAIN list = 1..Len(list)
           /\ list \in Seq({list[i] : i \in 1..Len(list)} \cup {e})
<1> DEFINE E == {list[i] : i \in 1..Len(list)} \cup {e}
<1>1. Len(list) \in Nat /\ list = [i \in 1..Len(list) |-> list[i]]
  BY DEF IsList
<1>2. DOMAIN list = 1..Len(list)
  BY <1>1
<1>3. \A i \in 1..Len(list) : list[i] \in E
  OBVIOUS
<1>4. list \in [1..Len(list) -> E]
  <2> HIDE DEF E
  <2> QED
    BY <1>1, <1>3
<1>5. list \in Seq(E)
  <2> HIDE DEF E
  <2> QED
    BY <1>1, <1>4
<1> QED
  BY <1>2, <1>5

LEMMA AppendToList ==
    ASSUME NEW list, IsList(list), NEW e
    PROVE  /\ IsList(Append(list, e))
           /\ Len(Append(list, e)) = Len(list) + 1
           /\ DOMAIN Append(list, e) = 1..(Len(list) + 1)
           /\ \A i \in 1..Len(list) : Append(list, e)[i] = list[i]
           /\ Append(list, e)[Len(list) + 1] = e
<1> DEFINE E == {list[i] : i \in 1..Len(list)} \cup {e}
           longer == Append(list, e)
<1>1. list \in Seq(E) /\ e \in E /\ Len(list) \in Nat
  BY ListIsSeq DEF IsList
<1> HIDE DEF E
<1>2. /\ longer \in Seq(E)
      /\ Len(longer) = Len(list) + 1
      /\ \A i \in 1..Len(list) : longer[i] = list[i]
      /\ longer[Len(list) + 1] = e
  BY <1>1, AppendProperties
<1> HIDE DEF longer
<1>3. DOMAIN longer = 1..Len(longer) /\ longer = [i \in 1..Len(longer) |-> longer[i]]
  BY <1>2
<1>4. IsList(longer)
  BY <1>1, <1>2, <1>3 DEF IsList
<1> QED
  BY <1>1, <1>2, <1>3, <1>4 DEF longer

LEMMA ChangeInList ==
    ASSUME NEW list, IsList(list), NEW k, NEW e
    PROVE  /\ IsList([list EXCEPT ![k] = e])
           /\ DOMAIN [list EXCEPT ![k] = e] = DOMAIN list
<1> DEFINE E == {list[i] : i \in 1..Len(list)} \cup {e}
           changed == [list EXCEPT ![k] = e]
<1>1. list \in Seq(E) /\ e \in E /\ Len(list) \in Nat /\ DOMAIN list = 1..Len(list)
  BY ListIsSeq DEF IsList
<1>2. DOMAIN changed = DOMAIN list
  OBVIOUS
<1>3. \A i \in 1..Len(list) : changed[i] = IF i = k THEN e ELSE list[i]
  BY <1>1
<1>4. \A i \in 1..Len(list) : list[i] \in E
  OBVIOUS
<1> HIDE DEF E
<1>5. changed = [i \in 1..Len(list) |-> changed[i]]
  BY <1>1, <1>2
<1> HIDE DEF changed
<1>6. \A i \in 1..Len(list) : changed[i] \in E
  BY <1>1, <1>3, <1>4
<1>7. changed \in [1..Len(list) -> E]
  BY <1>5, <1>6
<1>8. changed \in Seq(E) /\ Len(changed) = Len(list)
  BY <1>1, <1>2, <1>7
<1>9. IsList(changed)
  BY <1>1, <1>5, <1>8 DEF IsList
<1> QED
  BY <1>2, <1>9 DEF changed

LEMMA HasTask ==
    ASSUME TypeInv, NEW s \in Setups, IsBusy(s)
    PROVE  /\ Task(s) \in Tasks(loaded[s])
           /\ IsConfigured(loaded[s])
           /\ IsNotificationLoaded(loaded[s], TRUE)
           /\ Task(s).merchant \in Merchants
           /\ Task(s).kind \in {"standard", "hmac", "pending"}
           /\ Task(s).kind # "pending" => Task(s).authentication = NoValue
           /\ Task(s).kind = "pending" => HasCredentials(Task(s).authentication)
           /\ \/ Task(s).authentication = NoValue
              \/ \E c \in Configurations, m \in Merchants :
                    Task(s).authentication = c.adyen[m].authentication
<1>1. registrations[s].pc # "idle"
  BY DEF TypeInv, Place, IsBusy
<1>2. IsConfigured(loaded[s]) /\ IsLoaded(loaded[s]) /\ module = "notification"
  BY <1>1 DEF TypeInv, Shapes, IsBusy
<1>3. Task(s) \in Tasks(loaded[s])
  BY TailOfPlan DEF IsBusy, Task
<1>4. IsNotificationLoaded(loaded[s], TRUE)
  BY <1>2 DEF IsLoaded
<1> DEFINE task == Task(s)
           m == task.merchant
<1>5. /\ m \in Merchants
      /\ task.kind \in {"standard", "hmac", "pending"}
      /\ task.kind # "pending" => task.authentication = NoValue
      /\ task.kind = "pending" =>
           /\ task.authentication = loaded[s].adyen[m].authentication
           /\ IsPendingEnabled(loaded[s].adyen[m])
  BY <1>3, TaskFields
<1>6. task.kind = "pending" => HasCredentials(task.authentication)
  BY <1>4, <1>5 DEF IsNotificationLoaded, IsAuthenticationValid
<1>7. PICK c \in Configurations :
        \A n \in Merchants : \A f \in DOMAIN c.adyen[n] \ {"secretHmacKey"} :
            loaded[s].adyen[n][f] = c.adyen[n][f]
  BY <1>2 DEF IsConfigured
<1>8. loaded[s].adyen[m].authentication = c.adyen[m].authentication
  BY <1>5, <1>7, ConfigurationsAssumption
<1> QED
  BY <1>2, <1>3, <1>4, <1>5, <1>6, <1>8

\* Each webhook after a request.
LEMMA HooksAfter ==
    ASSUME TypeInv, NEW s \in Setups, HooksChange(s)
    PROVE  /\ DOMAIN webhooks' = Merchants
           /\ \A m \in Merchants :
                /\ IsList(webhooks'[m])
                /\ DOMAIN webhooks[m] \subseteq DOMAIN webhooks'[m]
           /\ \A m \in Merchants : \A i \in DOMAIN webhooks'[m] :
                \/ /\ i \in DOMAIN webhooks[m]
                   /\ webhooks'[m][i] = webhooks[m][i]
                \/ /\ i \in DOMAIN webhooks[m]
                   /\ At(s, "write") /\ m = Task(s).merchant /\ i = registrations[s].found
                   /\ webhooks'[m][i] = Activated(webhooks[m][i], Task(s).authentication)
                \/ /\ i \in DOMAIN webhooks[m]
                   /\ At(s, "hmac") /\ m = Task(s).merchant /\ i = registrations[s].found
                   /\ webhooks'[m][i] =
                        [webhooks[m][i] EXCEPT !.hmacKey = FreshKey(ConfiguredKeys)]
                \/ /\ i = Len(webhooks[m]) + 1 /\ i \notin DOMAIN webhooks[m]
                   /\ At(s, "write") /\ m = Task(s).merchant /\ registrations[s].found = 0
                   /\ webhooks'[m][i] =
                        [kind |-> Task(s).kind, active |-> TRUE, hmacKey |-> NoValue,
                         authentication |-> Task(s).authentication]
<1> DEFINE acc == Task(s).merchant
           k == registrations[s].found
           new == [kind |-> Task(s).kind, active |-> TRUE, hmacKey |-> NoValue,
                   authentication |-> Task(s).authentication]
           key == FreshKey(ConfiguredKeys)
<1>1. /\ DOMAIN webhooks = Merchants
      /\ \A m \in Merchants : IsList(webhooks[m])
      /\ \A m \in Merchants : DOMAIN webhooks[m] = 1..Len(webhooks[m])
      /\ \A m \in Merchants : Len(webhooks[m]) \in Nat
  BY ListIsSeq DEF TypeInv, WebhookShapes, IsList
<1>2. CASE webhooks' = webhooks
  BY <1>1, <1>2
<1>3. CASE At(s, "write") /\ k = 0 /\ AddWebhook(s)
  <2>1. webhooks' = [webhooks EXCEPT ![acc] = Append(webhooks[acc], new)]
    BY <1>3 DEF AddWebhook
  <2>2. \A m \in Merchants :
           webhooks'[m] = IF m = acc THEN Append(webhooks[m], new) ELSE webhooks[m]
    BY <2>1, <1>1
  <2> HIDE DEF acc, new
  <2>3. \A m \in Merchants :
           /\ IsList(Append(webhooks[m], new))
           /\ DOMAIN Append(webhooks[m], new) = 1..(Len(webhooks[m]) + 1)
           /\ \A i \in 1..Len(webhooks[m]) : Append(webhooks[m], new)[i] = webhooks[m][i]
           /\ Append(webhooks[m], new)[Len(webhooks[m]) + 1] = new
    BY <1>1, AppendToList
  <2>4. DOMAIN webhooks' = Merchants
    BY <1>1, <2>1
  <2>5. \A m \in Merchants : IsList(webhooks'[m]) /\ DOMAIN webhooks[m] \subseteq DOMAIN webhooks'[m]
    <3> SUFFICES ASSUME NEW m \in Merchants
                 PROVE  /\ IsList(webhooks'[m])
                        /\ DOMAIN webhooks[m] \subseteq DOMAIN webhooks'[m]
      OBVIOUS
    <3>1. CASE m = acc
      <4>1. webhooks'[m] = Append(webhooks[m], new)
        BY <3>1, <2>2
      <4>2. DOMAIN webhooks[m] \subseteq 1..(Len(webhooks[m]) + 1)
        BY <1>1
      <4> QED
        BY <4>1, <4>2, <2>3
    <3>2. CASE m # acc
      <4>1. webhooks'[m] = webhooks[m]
        BY <3>2, <2>2
      <4> QED
        BY <4>1, <1>1
    <3> QED
      BY <3>1, <3>2
  <2>6. ASSUME NEW m \in Merchants, NEW i \in DOMAIN webhooks'[m]
        PROVE  \/ i \in DOMAIN webhooks[m] /\ webhooks'[m][i] = webhooks[m][i]
               \/ /\ i = Len(webhooks[m]) + 1 /\ i \notin DOMAIN webhooks[m]
                  /\ m = acc
                  /\ webhooks'[m][i] = new
    <3>1. CASE m # acc
      BY <3>1, <2>2
    <3>2. CASE m = acc
      <4>1. i \in 1..(Len(webhooks[m]) + 1)
        BY <3>2, <2>2, <2>3
      <4>2. CASE i \in 1..Len(webhooks[m])
        BY <4>2, <3>2, <2>2, <2>3, <1>1
      <4>3. CASE i = Len(webhooks[m]) + 1
        <5>1. i \notin 1..Len(webhooks[m])
          BY <4>3, <1>1
        <5> QED
          BY <5>1, <4>3, <3>2, <2>2, <2>3, <1>1
      <4> QED
        BY <4>1, <4>2, <4>3, <1>1
    <3> QED
      BY <3>1, <3>2
  <2> QED
    BY <2>4, <2>5, <2>6, <1>3 DEF acc, new
<1>4. CASE At(s, "write") /\ k # 0 /\ WriteWebhook(s)
  <2> DEFINE e == Activated(webhooks[acc][k], Task(s).authentication)
  <2>1. webhooks' = [webhooks EXCEPT ![acc] = [webhooks[acc] EXCEPT ![k] = e]]
    BY <1>4 DEF WriteWebhook
  <2>2. \A m \in Merchants :
           webhooks'[m] = IF m = acc THEN [webhooks[m] EXCEPT ![k] = e] ELSE webhooks[m]
    BY <2>1, <1>1
  <2> HIDE DEF e, acc
  <2>3. \A m \in Merchants :
           /\ IsList([webhooks[m] EXCEPT ![k] = e])
           /\ DOMAIN [webhooks[m] EXCEPT ![k] = e] = DOMAIN webhooks[m]
           /\ \A i \in DOMAIN webhooks[m] :
                [webhooks[m] EXCEPT ![k] = e][i] = IF i = k THEN e ELSE webhooks[m][i]
    BY <1>1, ChangeInList
  <2>4. /\ DOMAIN webhooks' = Merchants
        /\ \A m \in Merchants : IsList(webhooks'[m]) /\ DOMAIN webhooks'[m] = DOMAIN webhooks[m]
        /\ \A m \in Merchants : \A i \in DOMAIN webhooks[m] :
             \/ webhooks'[m][i] = webhooks[m][i]
             \/ m = acc /\ i = k /\ webhooks'[m][i] = e
    BY <1>1, <2>1, <2>2, <2>3
  <2> QED
    BY <2>4, <1>4 DEF e, acc
<1>5. CASE At(s, "hmac") /\ SetHmacKey(s, ConfiguredKeys)
  <2> DEFINE e == [webhooks[acc][k] EXCEPT !.hmacKey = key]
  <2>1. webhooks' = [webhooks EXCEPT ![acc] = [webhooks[acc] EXCEPT ![k] = e]]
    BY <1>5 DEF SetHmacKey
  <2>2. \A m \in Merchants :
           webhooks'[m] = IF m = acc THEN [webhooks[m] EXCEPT ![k] = e] ELSE webhooks[m]
    BY <2>1, <1>1
  <2> HIDE DEF e, acc
  <2>3. \A m \in Merchants :
           /\ IsList([webhooks[m] EXCEPT ![k] = e])
           /\ DOMAIN [webhooks[m] EXCEPT ![k] = e] = DOMAIN webhooks[m]
           /\ \A i \in DOMAIN webhooks[m] :
                [webhooks[m] EXCEPT ![k] = e][i] = IF i = k THEN e ELSE webhooks[m][i]
    BY <1>1, ChangeInList
  <2>4. /\ DOMAIN webhooks' = Merchants
        /\ \A m \in Merchants : IsList(webhooks'[m]) /\ DOMAIN webhooks'[m] = DOMAIN webhooks[m]
        /\ \A m \in Merchants : \A i \in DOMAIN webhooks[m] :
             \/ webhooks'[m][i] = webhooks[m][i]
             \/ m = acc /\ i = k /\ webhooks'[m][i] = e
    BY <1>1, <2>1, <2>2, <2>3
  <2> QED
    BY <2>4, <1>5 DEF e, acc
<1> QED
  BY <1>2, <1>3, <1>4, <1>5 DEF HooksChange

LEMMA FirstFound ==
    ASSUME TypeInv, NEW m \in Merchants, NEW kind
    PROVE  /\ Positions(m, kind) \subseteq Nat \ {0}
           /\ FindWebhook(m, kind) = 0 <=> Positions(m, kind) = {}
           /\ Positions(m, kind) # {} =>
                /\ FindWebhook(m, kind) \in Positions(m, kind)
                /\ \A j \in Positions(m, kind) : FindWebhook(m, kind) <= j
<1>1. DOMAIN webhooks[m] = 1..Len(webhooks[m])
  BY ListIsSeq DEF TypeInv, WebhookShapes
<1>2. Positions(m, kind) \subseteq Nat \ {0}
  BY <1>1 DEF Positions
<1>3. CASE Positions(m, kind) # {}
  <2>1. PICK i \in Positions(m, kind) : \A j \in Positions(m, kind) : ~(j < i)
    BY <1>2, <1>3, LeastOf
  <2>2. \A j \in Positions(m, kind) : i <= j
    BY <2>1, <1>2
  <2>3. FindWebhook(m, kind) =
          CHOOSE f \in Positions(m, kind) : \A j \in Positions(m, kind) : f <= j
    BY <1>3 DEF FindWebhook
  <2> DEFINE found == FindWebhook(m, kind)
  <2>4. found \in Positions(m, kind) /\ \A j \in Positions(m, kind) : found <= j
    BY <2>1, <2>2, <2>3
  <2> QED
    BY <2>4, <1>2, <1>3
<1>4. CASE Positions(m, kind) = {}
  BY <1>2, <1>4 DEF FindWebhook
<1> QED
  BY <1>2, <1>3, <1>4

\* A webhook stays what it is, and a new one is of the kind of the task.
LEMMA PositionsStay ==
    ASSUME TypeInv, NEW s \in Setups, HooksChange(s),
           NEW m \in Merchants, NEW kind
    PROVE  /\ Positions(m, kind) \subseteq Positions(m, kind)'
           /\ \A i \in Positions(m, kind)' \ Positions(m, kind) :
                /\ i = Len(webhooks[m]) + 1
                /\ At(s, "write") /\ registrations[s].found = 0
                /\ m = Task(s).merchant /\ kind = Task(s).kind
<1>1. ASSUME NEW hook, IsWebhook(hook), NEW a
      PROVE  Activated(hook, a).kind = hook.kind
  BY <1>1 DEF Activated, IsWebhook
<1>2. ASSUME NEW hook, IsWebhook(hook), NEW key
      PROVE  [hook EXCEPT !.hmacKey = key].kind = hook.kind
  BY <1>2 DEF IsWebhook
<1>3. \A i \in DOMAIN webhooks[m] : IsWebhook(webhooks[m][i])
  BY DEF TypeInv, WebhookShapes
<1>4. /\ DOMAIN webhooks[m] \subseteq DOMAIN webhooks'[m]
      /\ \A i \in DOMAIN webhooks'[m] :
           \/ i \in DOMAIN webhooks[m] /\ webhooks'[m][i].kind = webhooks[m][i].kind
           \/ /\ i = Len(webhooks[m]) + 1 /\ i \notin DOMAIN webhooks[m]
              /\ At(s, "write") /\ m = Task(s).merchant /\ registrations[s].found = 0
              /\ webhooks'[m][i].kind = Task(s).kind
  <2>1. DOMAIN webhooks[m] \subseteq DOMAIN webhooks'[m]
    BY HooksAfter
  <2>2. ASSUME NEW i \in DOMAIN webhooks'[m]
        PROVE  \/ i \in DOMAIN webhooks[m] /\ webhooks'[m][i].kind = webhooks[m][i].kind
               \/ /\ i = Len(webhooks[m]) + 1 /\ i \notin DOMAIN webhooks[m]
                  /\ At(s, "write") /\ m = Task(s).merchant /\ registrations[s].found = 0
                  /\ webhooks'[m][i].kind = Task(s).kind
    <3>1. i \in DOMAIN webhooks[m] =>
            /\ Activated(webhooks[m][i], Task(s).authentication).kind = webhooks[m][i].kind
            /\ [webhooks[m][i] EXCEPT !.hmacKey = FreshKey(ConfiguredKeys)].kind
                  = webhooks[m][i].kind
      BY <1>1, <1>2, <1>3
    <3> DEFINE new == [kind |-> Task(s).kind, active |-> TRUE, hmacKey |-> NoValue,
                       authentication |-> Task(s).authentication]
               activated == Activated(webhooks[m][i], Task(s).authentication)
               signed == [webhooks[m][i] EXCEPT !.hmacKey = FreshKey(ConfiguredKeys)]
               isNew == /\ i = Len(webhooks[m]) + 1 /\ i \notin DOMAIN webhooks[m]
                        /\ At(s, "write") /\ m = Task(s).merchant
                        /\ registrations[s].found = 0
    <3>2. new.kind = Task(s).kind
      OBVIOUS
    <3>3. \/ /\ i \in DOMAIN webhooks[m]
             /\ webhooks'[m][i] \in {webhooks[m][i], activated, signed}
          \/ isNew /\ webhooks'[m][i] = new
      BY HooksAfter
    <3> HIDE DEF new, activated, signed, isNew
    <3>4. i \in DOMAIN webhooks[m] =>
            activated.kind = webhooks[m][i].kind /\ signed.kind = webhooks[m][i].kind
      BY <3>1 DEF activated, signed
    <3>5. \/ i \in DOMAIN webhooks[m] /\ webhooks'[m][i].kind = webhooks[m][i].kind
          \/ isNew /\ webhooks'[m][i].kind = Task(s).kind
      BY <3>2, <3>3, <3>4
    <3> QED
      BY <3>5 DEF isNew
  <2> QED
    BY <2>1, <2>2
<1>5. Positions(m, kind)' = {i \in DOMAIN webhooks'[m] : webhooks'[m][i].kind = kind}
  BY DEF Positions
<1> QED
  BY <1>4, <1>5 DEF Positions

\* The position after a task: the next one, with a webhook for the key.
MovesOn(s) ==
    \E found :
        /\ GoOnWith(s, found)
        /\ \A m \in Merchants :
              Task(s) = TaskWith("standard", m, NoValue) => found \in Positions(m, "standard")'

LEMMA RegistrationSteps ==
    ASSUME TypeInv, NEW s \in Setups, Registers(s)
    PROVE  /\ registrations[s].pc \in {"list", "write", "hmac"}
           /\ IsBusy(s)
           /\ At(s, registrations[s].pc)
           /\ HooksChange(s)
           /\ UNCHANGED <<resources, syncs, module, config, loaded>>
           /\ DOMAIN printed' = DOMAIN printed
           /\ \/ FailRegistration(s)
              \/ MovesOn(s)
              \/ /\ registrations[s].pc = "list" /\ webhooks' = webhooks
                 /\ \E found \in {0, FindWebhook(Task(s).merchant, Task(s).kind)} :
                        SetFound(s, found)
<1>0. PICK m, kind, k :
        m = Task(s).merchant /\ kind = Task(s).kind /\ k = registrations[s].found
  OBVIOUS
<1>1. /\ \/ RegistrationStep(s, ConfiguredKeys)
         \/ ActivationIsRefused(s)
         \/ ListIsRefused(s)
         \/ HmacIsRefused(s)
         \/ RegistrationFails(s, ConfiguredKeys)
      /\ UNCHANGED <<resources, syncs, module, config, loaded>>
  BY DEF Registers, Register, RefuseActivation, RefuseList, RefuseHmac, Interrupt, configVars
<1>2. registrations[s].pc \in {"list", "write", "hmac"}
  BY <1>1 DEF RegistrationStep, ListWebhooks, CreateWebhook, UpdateWebhook, ActivateWebhook,
              GenerateHmac, ListIsRefused, ActivationIsRefused, HmacIsRefused,
              RegistrationFails, At
<1>3. IsBusy(s) /\ Place(s)
  BY <1>2 DEF TypeInv, Place
<1>4. At(s, registrations[s].pc)
  BY <1>3 DEF At, IsBusy
<1>5. m \in Merchants
  BY <1>0, <1>3, HasTask
<1> DEFINE Goal ==
      /\ HooksChange(s)
      /\ DOMAIN printed' = DOMAIN printed
      /\ \/ FailRegistration(s)
         \/ MovesOn(s)
         \/ /\ registrations[s].pc = "list" /\ webhooks' = webhooks
            /\ \E found \in {0, FindWebhook(m, kind)} : SetFound(s, found)
<1> SUFFICES Goal
  BY <1>0, <1>1, <1>2, <1>3, <1>4
<1>13. \A n \in Merchants : Task(s) = TaskWith("standard", n, NoValue) =>
          m = n /\ kind = "standard"
  BY <1>0 DEF TaskWith
<1>6. CASE ListWebhooks(s)
  <2>1. registrations[s].pc = "list" /\ webhooks' = webhooks /\ printed' = printed
    BY <1>6 DEF ListWebhooks, At
  <2>2. HooksChange(s)
    BY <1>0, <2>1 DEF HooksChange
  <2> DEFINE found == FindWebhook(m, kind)
  <2>3. \/ found # 0 /\ GoOnWith(s, found)
        \/ SetFound(s, found)
    BY <1>0, <1>6 DEF ListWebhooks
  <2>4. found # 0 => found \in Positions(m, kind)
    BY <1>5, FirstFound
  <2>5. Positions(m, kind) \subseteq Positions(m, kind)'
    BY <2>2, <1>5, PositionsStay
  <2>6. ASSUME found # 0, GoOnWith(s, found)
        PROVE  MovesOn(s)
    BY <1>13, <2>4, <2>5, <2>6 DEF MovesOn
  <2> QED
    BY <2>1, <2>2, <2>3, <2>6
<1>7. CASE ListIsRefused(s)
  <2>1. registrations[s].pc = "list" /\ webhooks' = webhooks /\ printed' = printed
        /\ SetFound(s, 0)
    BY <1>7 DEF ListIsRefused, At
  <2> QED
    BY <1>0, <2>1 DEF HooksChange
<1>8. CASE CreateWebhook(s)
  <2>1. At(s, "write") /\ k = 0 /\ AddWebhook(s) /\ printed' = printed
    BY <1>0, <1>8 DEF CreateWebhook
  <2>2. HooksChange(s)
    BY <1>0, <2>1 DEF HooksChange
  <2>3. GoOnWith(s, Len(webhooks[m]) + 1)
    BY <1>0, <1>8 DEF CreateWebhook
  <2> DEFINE new == [kind |-> kind, active |-> TRUE, hmacKey |-> NoValue,
                     authentication |-> Task(s).authentication]
             n == Len(webhooks[m]) + 1
  <2>4. webhooks'[m] = Append(webhooks[m], new)
    BY <1>0, <2>1, <1>5 DEF AddWebhook, TypeInv, WebhookShapes
  <2>5. n \in DOMAIN webhooks'[m] /\ webhooks'[m][n] = new
    <3>1. IsList(webhooks[m])
      BY <1>5 DEF TypeInv, WebhookShapes
    <3> HIDE DEF new
    <3>2. /\ DOMAIN Append(webhooks[m], new) = 1..(Len(webhooks[m]) + 1)
          /\ Append(webhooks[m], new)[Len(webhooks[m]) + 1] = new
          /\ Len(webhooks[m]) \in Nat
      BY <3>1, AppendToList DEF IsList
    <3> QED
      BY <2>4, <3>2
  <2>6. n \in Positions(m, kind)'
    BY <2>5 DEF Positions
  <2>7. MovesOn(s)
    BY <1>13, <2>3, <2>6 DEF MovesOn
  <2> QED
    BY <2>1, <2>2, <2>7
<1>9. CASE UpdateWebhook(s) \/ ActivateWebhook(s) \/ ActivationIsRefused(s)
  <2>1. At(s, "write") /\ k # 0 /\ (WriteWebhook(s) \/ webhooks' = webhooks)
        /\ printed' = printed /\ GoOnWith(s, k)
    BY <1>0, <1>9 DEF UpdateWebhook, ActivateWebhook, ActivationIsRefused
  <2>2. HooksChange(s)
    BY <1>0, <2>1 DEF HooksChange
  <2>3. k \in Positions(m, kind)
    BY <1>0, <2>1, <1>3 DEF Place, At
  <2>4. Positions(m, kind) \subseteq Positions(m, kind)'
    BY <2>2, <1>5, PositionsStay
  <2>5. MovesOn(s)
    BY <1>13, <2>1, <2>3, <2>4 DEF MovesOn
  <2> QED
    BY <2>1, <2>2, <2>5
<1>10. CASE GenerateHmac(s, ConfiguredKeys) \/ HmacIsRefused(s)
  <2>1. /\ At(s, "hmac") /\ (SetHmacKey(s, ConfiguredKeys) \/ webhooks' = webhooks)
        /\ GoOnWith(s, k)
        /\ DOMAIN printed' = DOMAIN printed
    BY <1>0, <1>10 DEF GenerateHmac, HmacIsRefused
  <2>2. HooksChange(s)
    BY <1>0, <2>1 DEF HooksChange
  <2>3. kind = "hmac"
    BY <1>0, <2>1, <1>3 DEF Place, At
  <2>4. MovesOn(s)
    BY <1>13, <2>1, <2>3 DEF MovesOn
  <2> QED
    BY <2>1, <2>2, <2>4
<1>11. CASE RegistrationFails(s, ConfiguredKeys)
  BY <1>11 DEF RegistrationFails, HooksChange
<1> HIDE DEF Goal
<1> QED
  BY <1>1, <1>6, <1>7, <1>8, <1>9, <1>10, <1>11
      DEF RegistrationStep

LEMMA ActivatedIsWebhook ==
    ASSUME NEW hook, IsWebhook(hook), NEW a,
           a = NoValue \/ \E c \in Configurations, m \in Merchants :
                             a = c.adyen[m].authentication,
           hook.kind = "pending" => HasCredentials(a)
    PROVE  IsWebhook(Activated(hook, a))
<1> DEFINE new == Activated(hook, a)
<1>1. /\ IsFunction(new) /\ DOMAIN new = DOMAIN hook
      /\ new.kind = hook.kind /\ new.active = TRUE
      /\ new.authentication = IF a = NoValue THEN hook.authentication ELSE a
  <2>1. DOMAIN hook = {"kind", "active", "hmacKey", "authentication"}
    BY DEF IsWebhook
  <2>2. CASE a = NoValue
    <3>1. new = [hook EXCEPT !.active = TRUE]
      BY <2>2 DEF Activated
    <3> HIDE DEF new
    <3> QED
      BY <3>1, <2>1, <2>2 DEF IsFunction
  <2>3. CASE a # NoValue
    <3>1. new = [hook EXCEPT !.active = TRUE, !.authentication = a]
      BY <2>3 DEF Activated
    <3> HIDE DEF new
    <3> QED
      BY <3>1, <2>1, <2>3 DEF IsFunction
  <2> QED
    BY <2>2, <2>3
<1> HIDE DEF new
<1>2. IsWebhook(new)
  BY <1>1 DEF IsWebhook
<1> QED
  BY <1>2 DEF new

LEMMA HooksStayWebhooks ==
    ASSUME TypeInv, NEW s \in Setups, HooksChange(s), IsBusy(s),
           DOMAIN printed' = DOMAIN printed
    PROVE  WebhookShapes'
<1>1. ASSUME NEW m \in Merchants, NEW i \in DOMAIN webhooks'[m]
      PROVE  IsWebhook(webhooks'[m][i])
  <2> DEFINE a == Task(s).authentication
             new == [kind |-> Task(s).kind, active |-> TRUE, hmacKey |-> NoValue,
                     authentication |-> a]
             signed == [webhooks[m][i] EXCEPT !.hmacKey = FreshKey(ConfiguredKeys)]
             isMine == /\ At(s, "write") /\ m = Task(s).merchant
                       /\ i = registrations[s].found
  <2>1. /\ a = NoValue \/ \E c \in Configurations, n \in Merchants :
                             a = c.adyen[n].authentication
        /\ Task(s).kind = "pending" => HasCredentials(a)
        /\ Task(s).kind \in {"standard", "hmac", "pending"}
    BY HasTask
  <2>2. i \in DOMAIN webhooks[m] => IsWebhook(webhooks[m][i])
    BY DEF TypeInv, WebhookShapes
  <2>3. \/ /\ i \in DOMAIN webhooks[m]
           /\ webhooks'[m][i] = webhooks[m][i] \/ webhooks'[m][i] = signed
        \/ /\ i \in DOMAIN webhooks[m] /\ isMine
           /\ webhooks'[m][i] = Activated(webhooks[m][i], a)
        \/ At(s, "write") /\ webhooks'[m][i] = new
    <3> DEFINE old == webhooks[m][i]
               hook == webhooks'[m][i]
    <3>1. \/ i \in DOMAIN webhooks[m] /\ hook = old
          \/ /\ i \in DOMAIN webhooks[m]
             /\ At(s, "write") /\ m = Task(s).merchant /\ i = registrations[s].found
             /\ hook = Activated(old, a)
          \/ i \in DOMAIN webhooks[m] /\ hook = signed
          \/ At(s, "write") /\ hook = new
      BY HooksAfter
    <3> HIDE DEF old, hook, signed, new, a
    <3> QED
      BY <3>1 DEF old, hook
  <2>4. At(s, "write") => Task(s).kind \in {"standard", "pending"}
    BY <2>1 DEF TypeInv, Place, At
  <2>5. At(s, "write") => IsWebhook(new)
    <3> SUFFICES ASSUME At(s, "write")
                 PROVE  IsWebhook(new)
      OBVIOUS
    <3>1. /\ DOMAIN new = {"kind", "active", "hmacKey", "authentication"}
          /\ IsFunction(new)
          /\ new.kind = Task(s).kind /\ new.active = TRUE /\ new.authentication = a
      BY DEF IsFunction
    <3> HIDE DEF new, a
    <3> QED
      BY <3>1, <2>1, <2>4 DEF IsWebhook
  <2>6. i \in DOMAIN webhooks[m] => IsWebhook(signed)
    BY <2>2 DEF IsWebhook, IsFunction
  <2>7. ASSUME i \in DOMAIN webhooks[m], isMine
        PROVE  IsWebhook(Activated(webhooks[m][i], a))
    <3>0. m \in Merchants /\ 0 \notin DOMAIN webhooks[m]
      BY ListIsSeq DEF TypeInv, WebhookShapes
    <3>1. webhooks[m][i].kind = Task(s).kind
      BY <2>7, <3>0 DEF TypeInv, Place, At, Positions
    <3> QED
      BY <3>1, <2>1, <2>2, <2>7, ActivatedIsWebhook
  <2> HIDE DEF new, signed, isMine, a
  <2> QED
    BY <2>2, <2>3, <2>5, <2>6, <2>7
<1>2. DOMAIN webhooks' = Merchants /\ \A m \in Merchants : IsList(webhooks'[m])
  BY HooksAfter
<1>3. DOMAIN printed' = Merchants
  BY DEF TypeInv, WebhookShapes
<1> QED
  BY <1>1, <1>2, <1>3 DEF WebhookShapes

\* A setup keeps its place while the webhooks get more.
LEMMA PlaceStays ==
    ASSUME TypeInv, NEW t \in Setups, module' = module,
           registrations'[t] = registrations[t], loaded'[t] = loaded[t],
           \A m \in Merchants : \A kind : Positions(m, kind) \subseteq Positions(m, kind)'
    PROVE  Place(t)'
<1>1. PICK task : task = Task(t)
  OBVIOUS
<1>2. Task(t)' = task
  BY <1>1 DEF Task
<1>3. IsBusy(t)' <=> IsBusy(t)
  BY DEF IsBusy
<1>4. IsBusy(t) => task.merchant \in Merchants
  BY <1>1, HasTask
<1>5. Place(t)
  BY DEF TypeInv
<1>6. CASE registrations[t].pc \in {"idle", "done", "failed"}
  BY <1>5, <1>6 DEF Place
<1>7. CASE registrations[t].pc = "list"
  BY <1>1, <1>2, <1>3, <1>5, <1>7 DEF Place
<1>8. CASE registrations[t].pc = "write"
  <2>1. /\ IsBusy(t) /\ task.kind # "hmac"
        /\ registrations[t].found \in {0} \cup Positions(task.merchant, task.kind)
    BY <1>1, <1>5, <1>8 DEF Place
  <2>2. PICK m, kind : m = task.merchant /\ kind = task.kind
    OBVIOUS
  <2>3. registrations'[t].found \in {0} \cup Positions(m, kind)'
    BY <2>1, <2>2, <1>4
  <2> QED
    BY <1>2, <1>3, <1>8, <2>1, <2>2, <2>3 DEF Place
<1>9. CASE registrations[t].pc = "hmac"
  <2>1. /\ IsBusy(t) /\ task.kind = "hmac"
        /\ registrations[t].found \in Positions(task.merchant, "standard")
    BY <1>1, <1>5, <1>9 DEF Place
  <2>2. PICK m : m = task.merchant
    OBVIOUS
  <2>3. registrations'[t].found \in Positions(m, "standard")'
    BY <2>1, <2>2, <1>4
  <2> QED
    BY <1>2, <1>3, <1>9, <2>1, <2>2, <2>3 DEF Place
<1> QED
  BY <1>5, <1>6, <1>7, <1>8, <1>9 DEF Place

\* On to the next task.
LEMMA NextPlace ==
    ASSUME TypeInv, NEW s \in Setups, IsBusy(s), MovesOn(s),
           module' = module, loaded' = loaded
    PROVE  /\ Place(s)'
           /\ registrations'[s].todo = Tail(registrations[s].todo)
           /\ registrations'[s].pc \in {"list", "hmac", "done"}
           /\ registrations'[s].pc # "hmac" => registrations'[s].found = 0
           /\ \A t \in Setups \ {s} : registrations'[t] = registrations[t]
           /\ DOMAIN registrations' = Setups
           /\ DOMAIN registrations'[s] = {"pc", "todo", "found"}
<1> DEFINE rest == Tail(registrations[s].todo)
           pc == FirstStepOf(rest)
<1>1. PICK found :
        /\ GoOnWith(s, found)
        /\ \A m \in Merchants :
              Task(s) = TaskWith("standard", m, NoValue) => found \in Positions(m, "standard")'
  BY DEF MovesOn
<1>2. registrations' = [registrations EXCEPT ![s] =
        [pc |-> pc, todo |-> rest, found |-> IF pc = "hmac" THEN found ELSE 0]]
  BY <1>1 DEF GoOnWith
<1>3. DOMAIN registrations = Setups
  BY DEF TypeInv, Shapes
<1>4. /\ registrations'[s] =
           [pc |-> pc, todo |-> rest, found |-> IF pc = "hmac" THEN found ELSE 0]
      /\ \A t \in Setups \ {s} : registrations'[t] = registrations[t]
      /\ DOMAIN registrations' = Setups
  BY <1>2, <1>3
<1>5. /\ registrations'[s].pc = pc
      /\ registrations'[s].todo = rest
      /\ registrations'[s].found = IF pc = "hmac" THEN found ELSE 0
      /\ DOMAIN registrations'[s] = {"pc", "todo", "found"}
  BY <1>4
<1>6. /\ IsPlan(rest, loaded[s])
      /\ rest # <<>> /\ Head(rest).kind = "hmac" =>
            Task(s) = TaskWith("standard", Head(rest).merchant, NoValue)
  <2> DEFINE todo == registrations[s].todo
  <2>1. IsPlan(todo, loaded[s]) /\ todo # <<>> /\ Task(s) = Head(todo)
    BY DEF IsBusy, Task
  <2> HIDE DEF todo
  <2>2. /\ IsPlan(Tail(todo), loaded[s])
        /\ Tail(todo) # <<>> /\ Head(Tail(todo)).kind = "hmac" =>
             Head(todo) = TaskWith("standard", Head(Tail(todo)).merchant, NoValue)
    BY <2>1, TailOfPlan
  <2> QED
    BY <2>1, <2>2 DEF todo
<1>7. pc = IF rest = <<>> THEN "done" ELSE IF Head(rest).kind = "hmac" THEN "hmac" ELSE "list"
  BY DEF FirstStepOf
<1>8. Task(s)' = Head(rest)
  BY <1>5 DEF Task
<1>9. rest # <<>> => IsBusy(s)'
  BY <1>5, <1>6 DEF IsBusy
<1> HIDE DEF rest, pc
<1>10. Place(s)'
  <2>1. CASE rest = <<>>
    BY <2>1, <1>5, <1>7 DEF Place
  <2>2. CASE rest # <<>> /\ Head(rest).kind # "hmac"
    BY <2>2, <1>5, <1>7, <1>8, <1>9 DEF Place
  <2>3. CASE rest # <<>> /\ Head(rest).kind = "hmac"
    <3>1. PICK m : m = Head(rest).merchant
      OBVIOUS
    <3>2. Task(s) = TaskWith("standard", m, NoValue)
      BY <2>3, <3>1, <1>6
    <3>3. m \in Merchants
      <4>1. Task(s).merchant = m
        BY <3>2 DEF TaskWith
      <4> QED
        BY <4>1, HasTask
    <3>4. found \in Positions(m, "standard")'
      BY <1>1, <3>2, <3>3
    <3> QED
      BY <2>3, <3>1, <3>4, <1>5, <1>7, <1>8, <1>9 DEF Place
  <2> QED
    BY <2>1, <2>2, <2>3
<1> QED
  BY <1>4, <1>5, <1>7, <1>10 DEF rest

\* The list has been answered.
LEMMA FoundPlace ==
    ASSUME TypeInv, NEW s \in Setups, registrations[s].pc = "list",
           UNCHANGED <<webhooks, module, loaded>>,
           NEW found \in {0, FindWebhook(Task(s).merchant, Task(s).kind)},
           SetFound(s, found)
    PROVE  /\ Place(s)'
           /\ registrations'[s].pc = "write"
           /\ registrations'[s].todo = registrations[s].todo
           /\ registrations'[s].found = found
           /\ \A t \in Setups \ {s} : registrations'[t] = registrations[t]
           /\ DOMAIN registrations' = Setups
           /\ DOMAIN registrations'[s] = {"pc", "todo", "found"}
<1>1. /\ DOMAIN registrations = Setups
      /\ DOMAIN registrations[s] = {"pc", "todo", "found"}
  BY DEF TypeInv, Shapes
<1>2. registrations' = [registrations EXCEPT ![s].pc = "write", ![s].found = found]
  BY DEF SetFound
<1>3. /\ registrations'[s].pc = "write"
      /\ registrations'[s].todo = registrations[s].todo
      /\ registrations'[s].found = found
      /\ \A t \in Setups \ {s} : registrations'[t] = registrations[t]
      /\ DOMAIN registrations' = Setups
      /\ DOMAIN registrations'[s] = {"pc", "todo", "found"}
  BY <1>1, <1>2
<1>4. PICK task : task = Task(s)
  OBVIOUS
<1>5. Task(s)' = task
  BY <1>3, <1>4 DEF Task
<1>6. IsBusy(s) /\ task.kind # "hmac" /\ task.merchant \in Merchants
  BY <1>4, HasTask DEF TypeInv, Place
<1>7. IsBusy(s)'
  BY <1>3, <1>6 DEF IsBusy
<1>8. found \in {0} \cup Positions(task.merchant, task.kind)
  BY <1>4, <1>6, FirstFound
<1>9. PICK m, kind : m = task.merchant /\ kind = task.kind
  OBVIOUS
<1>10. Positions(m, kind)' = Positions(m, kind)
  BY DEF Positions
<1>11. Place(s)'
  BY <1>3, <1>5, <1>6, <1>7, <1>8, <1>9, <1>10 DEF Place
<1> QED
  BY <1>3, <1>11

LEMMA FailedPlace ==
    ASSUME TypeInv, NEW s \in Setups, FailRegistration(s)
    PROVE  /\ Place(s)'
           /\ registrations'[s].pc = "failed"
           /\ registrations'[s].todo = <<>>
           /\ \A t \in Setups \ {s} : registrations'[t] = registrations[t]
           /\ DOMAIN registrations' = Setups
           /\ DOMAIN registrations'[s] = {"pc", "todo", "found"}
<1>1. DOMAIN registrations = Setups
  BY DEF TypeInv, Shapes
<1>2. registrations' =
        [registrations EXCEPT ![s] = [pc |-> "failed", todo |-> <<>>, found |-> 0]]
  BY DEF FailRegistration
<1>3. /\ registrations'[s] = [pc |-> "failed", todo |-> <<>>, found |-> 0]
      /\ \A t \in Setups \ {s} : registrations'[t] = registrations[t]
      /\ DOMAIN registrations' = Setups
  BY <1>1, <1>2
<1>4. /\ registrations'[s].pc = "failed"
      /\ registrations'[s].todo = <<>>
      /\ registrations'[s].found = 0
      /\ DOMAIN registrations'[s] = {"pc", "todo", "found"}
  BY <1>3
<1>5. Place(s)'
  BY <1>4 DEF Place
<1> QED
  BY <1>3, <1>4, <1>5

LEMMA LoadedAs ==
    ASSUME module' = module, NEW t, NEW conf, loaded'[t] = conf
    PROVE  /\ IsConfigured(loaded[t])' <=> IsConfigured(conf)
           /\ IsLoaded(loaded[t])' <=> IsLoaded(conf)
BY DEF IsConfigured, IsLoaded

LEMMA RegistersKeepsTypes ==
    ASSUME TypeInv, NEW s \in Setups, Registers(s)
    PROVE  TypeInv'
<1>1. /\ registrations[s].pc \in {"list", "write", "hmac"}
      /\ IsBusy(s)
      /\ HooksChange(s)
      /\ UNCHANGED <<module, config, loaded>>
      /\ DOMAIN printed' = DOMAIN printed
      /\ \/ FailRegistration(s)
         \/ MovesOn(s)
         \/ /\ registrations[s].pc = "list" /\ webhooks' = webhooks
            /\ \E found \in {0, FindWebhook(Task(s).merchant, Task(s).kind)} :
                   SetFound(s, found)
  BY RegistrationSteps
<1>2. /\ Place(s)'
      /\ \A t \in Setups \ {s} : registrations'[t] = registrations[t]
      /\ DOMAIN registrations' = Setups
      /\ DOMAIN registrations'[s] = {"pc", "todo", "found"}
  <2>1. CASE FailRegistration(s)
    BY <2>1, FailedPlace
  <2>2. CASE MovesOn(s)
    BY <2>2, <1>1, NextPlace
  <2>3. CASE /\ registrations[s].pc = "list" /\ webhooks' = webhooks
             /\ \E found \in {0, FindWebhook(Task(s).merchant, Task(s).kind)} :
                    SetFound(s, found)
    <3>1. UNCHANGED <<webhooks, module, loaded>>
      BY <2>3, <1>1
    <3>2. PICK found \in {0, FindWebhook(Task(s).merchant, Task(s).kind)} : SetFound(s, found)
      BY <2>3
    <3> QED
      BY <3>1, <3>2, <2>3, FoundPlace
  <2> QED
    BY <1>1, <2>1, <2>2, <2>3
<1>3. WebhookShapes'
  BY <1>1, HooksStayWebhooks
<1>4. \A t \in Setups : Place(t)'
  <2>1. \A m \in Merchants : \A kind : Positions(m, kind) \subseteq Positions(m, kind)'
    BY <1>1, PositionsStay
  <2>2. \A t \in Setups \ {s} : Place(t)'
    BY <1>1, <1>2, <2>1, PlaceStays
  <2> QED
    BY <1>2, <2>2
<1>5. Shapes'
  <2>1. IsConfigured(config)'
    BY <1>1 DEF TypeInv, Shapes, IsConfigured
  <2>2. \A t \in Setups :
           /\ DOMAIN registrations'[t] = {"pc", "todo", "found"}
           /\ registrations'[t].pc # "idle" => registrations[t].pc # "idle"
    BY <1>1, <1>2 DEF TypeInv, Shapes
  <2>3. \A t \in Setups :
           registrations'[t].pc # "idle" => (IsConfigured(loaded[t]) /\ IsLoaded(loaded[t]))'
    BY <1>1, <2>2, LoadedAs DEF TypeInv, Shapes
  <2> QED
    BY <1>1, <1>2, <2>1, <2>2, <2>3 DEF TypeInv, Shapes
<1> QED
  BY <1>3, <1>4, <1>5 DEF TypeInv

\* What a setup starts with.
LEMMA Started ==
    ASSUME TypeInv, NEW s \in Setups, Start(s)
    PROVE  /\ Place(s)'
           /\ registrations'[s].pc \in {"list", "done"}
           /\ registrations'[s].todo = IF module = "notification" THEN TasksOf(config) ELSE <<>>
           /\ loaded'[s] = config
           /\ \A t \in Setups \ {s} : loaded'[t] = loaded[t] /\ registrations'[t] = registrations[t]
           /\ DOMAIN loaded' = Setups
           /\ DOMAIN registrations' = Setups
           /\ DOMAIN registrations'[s] = {"pc", "todo", "found"}
<1> DEFINE todo == IF module = "notification" THEN TasksOf(config) ELSE <<>>
           pc == FirstStepOf(todo)
<1>1. /\ loaded' = [loaded EXCEPT ![s] = config]
      /\ registrations' = [registrations EXCEPT ![s] = [pc |-> pc, todo |-> todo, found |-> 0]]
      /\ module' = module
  BY DEF Start
<1>2. DOMAIN loaded = Setups /\ DOMAIN registrations = Setups
  BY DEF TypeInv, Shapes
<1>3. /\ loaded'[s] = config
      /\ registrations'[s] = [pc |-> pc, todo |-> todo, found |-> 0]
      /\ \A t \in Setups \ {s} : loaded'[t] = loaded[t] /\ registrations'[t] = registrations[t]
      /\ DOMAIN loaded' = Setups
      /\ DOMAIN registrations' = Setups
  BY <1>1, <1>2
<1>4. /\ registrations'[s].pc = pc
      /\ registrations'[s].todo = todo
      /\ registrations'[s].found = 0
      /\ DOMAIN registrations'[s] = {"pc", "todo", "found"}
  BY <1>3
<1>5. todo # <<>> => /\ module = "notification"
                    /\ IsPlan(todo, config)
                    /\ Head(todo).kind # "hmac"
  <2> SUFFICES ASSUME todo # <<>>
               PROVE  /\ module = "notification"
                      /\ IsPlan(todo, config)
                      /\ Head(todo).kind # "hmac"
    OBVIOUS
  <2>1. module = "notification" /\ todo = TasksOf(config)
    OBVIOUS
  <2>2. IsPlan(todo, config) /\ todo[1].kind # "hmac"
    BY <2>1, TasksOfPlan DEF IsPlanFor
  <2>3. Head(todo) = todo[1]
    BY <2>2 DEF IsPlan
  <2> QED
    BY <2>1, <2>2, <2>3
<1>6. pc = IF todo = <<>> THEN "done" ELSE IF Head(todo).kind = "hmac" THEN "hmac" ELSE "list"
  BY DEF FirstStepOf
<1>7. Task(s)' = Head(todo)
  BY <1>4 DEF Task
<1> HIDE DEF todo, pc
<1>8. Place(s)'
  <2>1. CASE todo = <<>>
    BY <2>1, <1>4, <1>6 DEF Place
  <2>2. CASE todo # <<>>
    <3>1. IsBusy(s)'
      BY <2>2, <1>1, <1>3, <1>4, <1>5 DEF IsBusy
    <3> QED
      BY <3>1, <2>2, <1>4, <1>5, <1>6, <1>7 DEF Place
  <2> QED
    BY <2>1, <2>2
<1> QED
  BY <1>3, <1>4, <1>5, <1>6, <1>8 DEF todo

LEMMA StartKeepsTypes ==
    ASSUME TypeInv, NEW s \in Setups, Start(s)
    PROVE  TypeInv'
<1>1. /\ UNCHANGED <<webhooks, module, config>>
      /\ printed' = [m \in Merchants |-> NoValue]
      /\ IsLoaded(config)
  BY DEF Start
<1>2. WebhookShapes'
  BY <1>1 DEF TypeInv, WebhookShapes
<1>3. \A m \in Merchants : \A kind : Positions(m, kind) \subseteq Positions(m, kind)'
  BY <1>1 DEF Positions
<1>4. \A t \in Setups : Place(t)'
  BY <1>1, <1>3, PlaceStays, Started
<1>5. Shapes'
  <2>1. /\ DOMAIN loaded' = Setups /\ DOMAIN registrations' = Setups
        /\ \A t \in Setups : DOMAIN registrations'[t] = {"pc", "todo", "found"}
    BY Started DEF TypeInv, Shapes
  <2>2. IsConfigured(config)'
    BY <1>1 DEF TypeInv, Shapes, IsConfigured
  <2>3. ASSUME NEW t \in Setups, registrations'[t].pc # "idle"
        PROVE  IsConfigured(loaded[t])' /\ IsLoaded(loaded[t])'
    <3>1. CASE t = s
      <4>1. loaded'[t] = config
        BY <3>1, Started
      <4> QED
        BY <1>1, <4>1, LoadedAs DEF TypeInv, Shapes
    <3>2. CASE t # s
      <4>1. loaded'[t] = loaded[t] /\ registrations'[t] = registrations[t]
        BY <3>2, Started
      <4> QED
        BY <1>1, <2>3, <4>1, LoadedAs DEF TypeInv, Shapes
    <3> QED
      BY <3>1, <3>2
  <2> QED
    BY <1>1, <2>1, <2>2, <2>3 DEF TypeInv, Shapes
<1> QED
  BY <1>2, <1>4, <1>5 DEF TypeInv

LEMMA ConfigurationsAreConfigured ==
    ASSUME NEW conf, IsConfigured(conf)
    PROVE  /\ DOMAIN conf = {"adyen", "basicAuth", "commercetools"}
           /\ \A m \in Merchants :
                /\ DOMAIN conf.adyen[m] =
                     {"hasBaseUrl", "enableHmacSignature", "secretHmacKey",
                      "enableBasicAuth", "authentication", "ctpProjectKey"}
                /\ IsAuthentication(conf.adyen[m].authentication)
           /\ \A p \in Projects : IsAuthentication(conf.commercetools[p])
<1>1. PICK c \in Configurations :
        /\ DOMAIN conf = DOMAIN c
        /\ conf.commercetools = c.commercetools
        /\ DOMAIN conf.adyen = Merchants
        /\ \A m \in Merchants :
              /\ DOMAIN conf.adyen[m] = DOMAIN c.adyen[m]
              /\ \A f \in DOMAIN c.adyen[m] \ {"secretHmacKey"} :
                    conf.adyen[m][f] = c.adyen[m][f]
  BY DEF IsConfigured
<1>2. \A m \in Merchants : conf.adyen[m].authentication = c.adyen[m].authentication
  BY <1>1, ConfigurationsAssumption
<1> QED
  BY <1>1, <1>2, ConfigurationsAssumption

\* The configuration changes.
LEMMA NewConfiguration ==
    ASSUME TypeInv, \/ \E m \in Merchants : TakeOverKey(m)
                    \/ Reconfigure
    PROVE  /\ IsConfigured(config')
           /\ \A m \in Merchants : ConfiguredKeys'[m] # ConfiguredKeys[m] =>
                TakeOverKey(m) /\ ConfiguredKeys'[m] = printed[m]
           /\ UNCHANGED <<webhookVars, resources, syncs, module, loaded, disturbed, refused,
                         confused>>
<1>1. IsConfigured(config)
  BY DEF TypeInv, Shapes
<1>2. CASE \E m \in Merchants : TakeOverKey(m)
  <2>1. PICK m \in Merchants : TakeOverKey(m)
    BY <1>2
  <2>2. config' = [config EXCEPT !.adyen[m].secretHmacKey = printed[m]]
    BY <2>1 DEF TakeOverKey
  <2>3. PICK c \in Configurations :
        /\ DOMAIN config = DOMAIN c
        /\ config.basicAuth = c.basicAuth
        /\ config.commercetools = c.commercetools
        /\ DOMAIN config.adyen = Merchants
        /\ \A n \in Merchants :
              /\ DOMAIN config.adyen[n] = DOMAIN c.adyen[n]
              /\ \A f \in DOMAIN c.adyen[n] \ {"secretHmacKey"} :
                    config.adyen[n][f] = c.adyen[n][f]
    BY <1>1 DEF IsConfigured
  <2>4. DOMAIN config = {"adyen", "basicAuth", "commercetools"}
    BY <1>1, ConfigurationsAreConfigured
  <2>5. /\ DOMAIN config' = DOMAIN config
        /\ config'.basicAuth = config.basicAuth
        /\ config'.commercetools = config.commercetools
        /\ config'.adyen =
             [config.adyen EXCEPT ![m] = [config.adyen[m] EXCEPT !.secretHmacKey = printed[m]]]
    BY <2>2, <2>4
  <2>6. /\ DOMAIN config'.adyen = Merchants
        /\ \A n \in Merchants : config'.adyen[n] =
             IF n = m THEN [config.adyen[m] EXCEPT !.secretHmacKey = printed[m]]
                      ELSE config.adyen[n]
    BY <2>3, <2>5
  <2>7. \A n \in Merchants :
          /\ DOMAIN config'.adyen[n] = DOMAIN c.adyen[n]
          /\ \A f \in DOMAIN c.adyen[n] \ {"secretHmacKey"} :
                config'.adyen[n][f] = c.adyen[n][f]
    BY <2>3, <2>6
  <2>8. IsConfigured(config')
    BY <2>3, <2>5, <2>6, <2>7 DEF IsConfigured
  <2>9. \A n \in Merchants : "secretHmacKey" \in DOMAIN config.adyen[n]
    BY <1>1, ConfigurationsAreConfigured
  <2>10. \A n \in Merchants :
           config'.adyen[n].secretHmacKey =
              IF n = m THEN printed[m] ELSE config.adyen[n].secretHmacKey
    BY <2>6, <2>9
  <2>11. \A n \in Merchants : TakeOverKey(n) => ConfiguredKeys'[n] = printed[n]
    <3> SUFFICES ASSUME NEW n \in Merchants, TakeOverKey(n)
                 PROVE  ConfiguredKeys'[n] = printed[n]
      OBVIOUS
    <3>1. config' = [config EXCEPT !.adyen[n].secretHmacKey = printed[n]]
      BY DEF TakeOverKey
    <3>2. config'.adyen =
            [config.adyen EXCEPT ![n] = [config.adyen[n] EXCEPT !.secretHmacKey = printed[n]]]
      BY <3>1, <2>4
    <3>3. config'.adyen[n] = [config.adyen[n] EXCEPT !.secretHmacKey = printed[n]]
      BY <3>2, <2>3
    <3>4. config'.adyen[n].secretHmacKey = printed[n]
      BY <3>3, <2>9
    <3> QED
      BY <3>4 DEF ConfiguredKeys
  <2>12. \A n \in Merchants : ConfiguredKeys'[n] # ConfiguredKeys[n] => n = m
    BY <2>10 DEF ConfiguredKeys
  <2> QED
    BY <2>1, <2>8, <2>11, <2>12 DEF TakeOverKey
<1>3. CASE Reconfigure
  <2>1. PICK c \in Configurations :
          config' = [c EXCEPT !.adyen = [m \in Merchants |->
              [c.adyen[m] EXCEPT !.secretHmacKey = ConfiguredKeys[m]]]]
    BY <1>3 DEF Reconfigure
  <2>2. /\ DOMAIN c = {"adyen", "basicAuth", "commercetools"}
        /\ \A m \in Merchants : "secretHmacKey" \in DOMAIN c.adyen[m]
    BY ConfigurationsAssumption
  <2>3. /\ DOMAIN config' = DOMAIN c
        /\ config'.basicAuth = c.basicAuth
        /\ config'.commercetools = c.commercetools
        /\ config'.adyen =
             [m \in Merchants |-> [c.adyen[m] EXCEPT !.secretHmacKey = ConfiguredKeys[m]]]
    BY <2>1, <2>2
  <2>4. /\ DOMAIN config'.adyen = Merchants
        /\ \A m \in Merchants :
             config'.adyen[m] = [c.adyen[m] EXCEPT !.secretHmacKey = ConfiguredKeys[m]]
    BY <2>3
  <2>5. \A m \in Merchants :
          /\ DOMAIN config'.adyen[m] = DOMAIN c.adyen[m]
          /\ \A f \in DOMAIN c.adyen[m] \ {"secretHmacKey"} :
                config'.adyen[m][f] = c.adyen[m][f]
    BY <2>4
  <2>6. IsConfigured(config')
    BY <2>3, <2>4, <2>5 DEF IsConfigured
  <2>7. \A m \in Merchants : config'.adyen[m].secretHmacKey = ConfiguredKeys[m]
    BY <2>2, <2>4
  <2>8. \A m \in Merchants : ConfiguredKeys'[m] = ConfiguredKeys[m]
    BY <2>7 DEF ConfiguredKeys
  <2> QED
    BY <1>3, <2>6, <2>8 DEF Reconfigure
<1> QED
  BY <1>2, <1>3

\* The requests to commercetools, answered or not.
SyncsAt(s, r) == SyncResource(s, r) \/ SyncResourceFails(s, r)

LEMMA NextSteps ==
    ASSUME [Next]_vars
    PROVE  \/ \E s \in Setups : Start(s)
           \/ \E s \in Setups : Registers(s)
           \/ \E s \in Setups, r \in Resources : SyncsAt(s, r)
           \/ (\E m \in Merchants : TakeOverKey(m)) \/ Reconfigure
           \/ UNCHANGED vars
BY DEF Next, Step, Fault, Registers, SyncsAt

LEMMA InitTypes == Init => TypeInv
<1> SUFFICES ASSUME Init
             PROVE  TypeInv
  OBVIOUS
<1>1. /\ module \in {"notification", "extension"}
      /\ config \in Configurations
      /\ loaded = [s \in Setups |-> NoValue]
      /\ webhooks \in [Merchants -> IF module = "notification" THEN InitialWebhooks
                                    ELSE {<<>>}]
      /\ registrations = [s \in Setups |-> [pc |-> "idle", todo |-> <<>>, found |-> 0]]
      /\ printed = [m \in Merchants |-> NoValue]
  BY DEF Init
<1>2. IsConfigured(config)
  <2>1. DOMAIN config.adyen = Merchants
    BY <1>1, ConfigurationsAssumption
  <2> QED
    BY <1>1, <2>1 DEF IsConfigured
<1>3. Shapes
  BY <1>1, <1>2 DEF Shapes
<1>4. \A m \in Merchants : /\ webhooks[m] \in Seq(Webhook)
                           /\ \A i \in DOMAIN webhooks[m] :
                                webhooks[m][i].kind = "pending" =>
                                    HasCredentials(webhooks[m][i].authentication)
  <2>1. \A m \in Merchants : webhooks[m] \in InitialWebhooks \cup {<<>>}
    BY <1>1
  <2>2. <<>> \in Seq(Webhook) /\ DOMAIN <<>> = {}
    OBVIOUS
  <2> QED
    BY <2>1, <2>2, WebhooksAssumption
<1>5. ASSUME NEW m \in Merchants
      PROVE  /\ IsList(webhooks[m])
             /\ \A i \in DOMAIN webhooks[m] : IsWebhook(webhooks[m][i])
  <2>1. /\ Len(webhooks[m]) \in Nat
        /\ DOMAIN webhooks[m] = 1..Len(webhooks[m])
        /\ webhooks[m] = [i \in 1..Len(webhooks[m]) |-> webhooks[m][i]]
        /\ \A i \in DOMAIN webhooks[m] : webhooks[m][i] \in Webhook
    BY <1>4
  <2>2. ASSUME NEW i \in DOMAIN webhooks[m]
        PROVE  IsWebhook(webhooks[m][i])
    <3>1. PICK hook : hook = webhooks[m][i]
      OBVIOUS
    <3>2. hook \in Webhook /\ (hook.kind = "pending" => HasCredentials(hook.authentication))
      BY <2>1, <3>1, <1>4
    <3>3. /\ DOMAIN hook = {"kind", "active", "hmacKey", "authentication"}
          /\ IsFunction(hook)
          /\ hook.kind \in {"standard", "pending"}
          /\ hook.active \in BOOLEAN
          /\ hook.authentication \in {NoValue} \cup
               {c.adyen[n].authentication : c \in Configurations, n \in Merchants}
      BY <3>2 DEF Webhook, IsFunction
    <3> QED
      BY <3>1, <3>2, <3>3 DEF IsWebhook
  <2> QED
    BY <2>1, <2>2 DEF IsList
<1>6. WebhookShapes
  BY <1>1, <1>5 DEF WebhookShapes
<1>7. \A s \in Setups : Place(s)
  BY <1>1 DEF Place
<1> QED
  BY <1>3, <1>6, <1>7 DEF TypeInv

\* What is done with commercetools or the configuration, or not at all.
LEMMA OthersKeepTypes ==
    ASSUME TypeInv, UNCHANGED <<webhookVars, module, loaded>>, IsConfigured(config')
    PROVE  TypeInv'
<1>1. UNCHANGED <<webhooks, registrations, printed>>
  BY DEF webhookVars
<1>2. \A m \in Merchants : \A kind : Positions(m, kind) \subseteq Positions(m, kind)'
  BY <1>1 DEF Positions
<1>3. \A t \in Setups : Place(t)'
  BY <1>1, <1>2, PlaceStays
<1>4. WebhookShapes'
  BY <1>1 DEF TypeInv, WebhookShapes
<1>5. Shapes'
  <2>1. IsConfigured(config)'
    BY DEF IsConfigured
  <2>2. \A t \in Setups : registrations'[t].pc # "idle" =>
           IsConfigured(loaded[t])' /\ IsLoaded(loaded[t])'
    BY <1>1, LoadedAs DEF TypeInv, Shapes
  <2> QED
    BY <1>1, <2>1, <2>2 DEF TypeInv, Shapes
<1> QED
  BY <1>3, <1>4, <1>5 DEF TypeInv

LEMMA NextKeepsTypes == TypeInv /\ [Next]_vars => TypeInv'
<1> SUFFICES ASSUME TypeInv, [Next]_vars
             PROVE  TypeInv'
  OBVIOUS
<1>1. CASE \E s \in Setups : Start(s)
  BY <1>1, StartKeepsTypes
<1>2. CASE \E s \in Setups : Registers(s)
  BY <1>2, RegistersKeepsTypes
<1>3. CASE \E s \in Setups, r \in Resources : SyncsAt(s, r)
  <2>1. UNCHANGED <<webhookVars, module, config, loaded>>
    BY <1>3 DEF SyncsAt, SyncResource, SyncResourceFails, configVars
  <2> QED
    BY <2>1, OthersKeepTypes DEF TypeInv, Shapes
<1>4. CASE (\E m \in Merchants : TakeOverKey(m)) \/ Reconfigure
  BY <1>4, NewConfiguration, OthersKeepTypes
<1>5. CASE UNCHANGED vars
  <2>1. UNCHANGED <<webhookVars, module, config, loaded>>
    BY <1>5 DEF vars, configVars
  <2> QED
    BY <2>1, OthersKeepTypes DEF TypeInv, Shapes
<1> QED
  BY <1>1, <1>2, <1>3, <1>4, <1>5, NextSteps

----------------------------------------------------------------------------
(* Resources and the setups that bring them up to date *)

Drafts ==
    /\ Sync!SyncTypeOK
    /\ \A s \in Setups, r \in Resources :
          /\ registrations[s].pc = "idle" => syncs[s][r].pc = "idle"
          /\ syncs[s][r].pc # "idle" => syncs[s][r].draft = DraftOf(r, loaded[s])

LEMMA DraftIsContent ==
    ASSUME NEW conf, IsConfigured(conf), NEW r \in Resources
    PROVE  DraftOf(r, conf) \in InitialContents \cup {<<"current">>} \cup
              {AuthorizationHeader(c.commercetools[p]) : c \in Configurations, p \in Projects}
<1>1. PICK c \in Configurations : conf.commercetools = c.commercetools
  BY DEF IsConfigured
<1>2. r[1] \in Projects
  BY ResourcesAssumption
<1>3. DraftOf(r, conf) \in {AuthorizationHeader(c.commercetools[r[1]]), <<"current">>}
  BY <1>1 DEF DraftOf
<1> QED
  BY <1>2, <1>3

\* One resource after a request.
LEMMA SyncSteps ==
    ASSUME Drafts, NEW s \in Setups, NEW r \in Resources, SyncsAt(s, r)
    PROVE  /\ CanSync(s, r)
           /\ UNCHANGED <<webhookVars, module, config, loaded, disturbed, refused, confused>>
           /\ Sync!SyncTypeOK'
           /\ \A t \in Setups, q \in Resources :
                t # s \/ q # r => syncs'[t][q] = syncs[t][q]
           /\ syncs'[s][r].pc \in {"write", "done", "failed"}
           /\ syncs'[s][r].draft = syncs[s][r].draft
           /\ \A q \in Resources \ {r} : resources'[q] = resources[q]
           /\ \/ resources'[r] = resources[r]
              \/ /\ resources'[r].version > 0
                 /\ resources'[r].content = syncs[s][r].draft
           /\ syncs'[s][r].pc = "done" =>
                /\ resources'[r].version > 0
                /\ resources'[r].content = syncs[s][r].draft
<1> DEFINE All == InitialContents \cup {<<"current">>} \cup
              {AuthorizationHeader(c.commercetools[p]) : c \in Configurations, p \in Projects}
           Res == [version: Nat, content: All]
           Syn == [pc: {"idle"}]
                  \cup [pc: {"fetch", "done", "failed"}, draft: All]
                  \cup [pc: {"write"}, draft: All, version: Nat]
           old == syncs[s][r]
           done == [pc |-> "done", draft |-> old.draft]
           failed == [pc |-> "failed", draft |-> old.draft]
           write == [pc |-> "write", draft |-> old.draft, version |-> resources[r].version]
           stored == [version |-> resources[r].version + 1, content |-> old.draft]
           Sets(new) == syncs' = [syncs EXCEPT ![s] = [syncs[s] EXCEPT ![r] = new]]
           Stores == resources' = [resources EXCEPT ![r] = stored]
<1>1. CanSync(s, r) /\ UNCHANGED <<webhookVars, module, config, loaded, disturbed, refused, confused>>
  BY DEF SyncsAt, SyncResource, SyncResourceFails, configVars
<1>2. resources \in [Resources -> Res] /\ syncs \in [Setups -> [Resources -> Syn]]
  BY DEF Drafts, Sync!SyncTypeOK, Sync!Resource, Sync!Sync
<1>3. old.pc \in {"fetch", "write"}
  BY <1>1 DEF CanSync
<1>4. old \in Syn /\ resources[r] \in Res
  <2> HIDE DEF Syn, Res
  <2> QED
    BY <1>2
<1>5. old.draft \in All /\ resources[r].version \in Nat
  <2> HIDE DEF All
  <2> QED
    BY <1>3, <1>4
<1>6. \/ Sets(done) /\ resources' = resources
         /\ resources[r].version > 0 /\ resources[r].content = old.draft
      \/ Sets(write) /\ resources' = resources
      \/ Sets(done) /\ Stores
      \/ Sets(failed) /\ (resources' = resources \/ Stores)
  BY DEF SyncsAt, SyncResource, SyncResourceFails, Sync!SyncStep, Sync!FetchResource,
         Sync!WriteResource, Sync!SyncFails, Sync!End, Sync!SetSync, Sync!Store, Sync!IsInSync
<1>7. /\ done \in Syn /\ failed \in Syn /\ write \in Syn /\ stored \in Res
      /\ done.pc = "done" /\ failed.pc = "failed" /\ write.pc = "write"
      /\ done.draft = old.draft /\ failed.draft = old.draft /\ write.draft = old.draft
      /\ stored.version > 0 /\ stored.content = old.draft
  <2> HIDE DEF old, All
  <2> QED
    BY <1>5
<1> HIDE DEF old, done, failed, write, stored, Syn, Res, All
<1>8. PICK new \in {done, failed, write} :
        /\ Sets(new)
        /\ resources' = resources \/ Stores
        /\ new = done => \/ resources' = resources /\ resources[r].version > 0
                            /\ resources[r].content = old.draft
                         \/ Stores
  <2>1. done # write /\ done # failed
    BY <1>7
  <2> QED
    BY <1>6, <2>1
<1>9. new \in Syn
  BY <1>7
<1>10. /\ syncs' \in [Setups -> [Resources -> Syn]]
       /\ \A t \in Setups, q \in Resources : t # s \/ q # r => syncs'[t][q] = syncs[t][q]
       /\ syncs'[s][r] = new
  BY <1>2, <1>8, <1>9
<1>11. /\ resources' \in [Resources -> Res]
       /\ \A q \in Resources \ {r} : resources'[q] = resources[q]
       /\ resources'[r] = resources[r] \/ resources'[r] = stored
  BY <1>2, <1>7, <1>8
<1>12. Stores => resources'[r] = stored
  BY <1>2
<1>13. Sync!SyncTypeOK'
  <2> USE DEF Syn, Res, All
  <2> QED
    BY <1>10, <1>11 DEF Sync!SyncTypeOK, Sync!Resource, Sync!Sync
<1>14. /\ syncs'[s][r].pc \in {"write", "done", "failed"}
       /\ syncs'[s][r].draft = old.draft
  BY <1>7, <1>8, <1>10
<1>15. \/ resources'[r] = resources[r]
       \/ resources'[r].version > 0 /\ resources'[r].content = old.draft
  BY <1>7, <1>11
<1>16. syncs'[s][r].pc = "done" => new = done
  BY <1>7, <1>10
<1>17. syncs'[s][r].pc = "done" =>
         resources'[r].version > 0 /\ resources'[r].content = old.draft
  BY <1>7, <1>8, <1>12, <1>16
<1> QED
  BY <1>1, <1>10, <1>11, <1>13, <1>14, <1>15, <1>17 DEF old

LEMMA SyncsKeepDrafts ==
    ASSUME Drafts, NEW s \in Setups, NEW r \in Resources, SyncsAt(s, r)
    PROVE  Drafts'
<1>1. /\ UNCHANGED <<registrations, config, loaded>>
      /\ Sync!SyncTypeOK'
      /\ \A t \in Setups, q \in Resources : t # s \/ q # r => syncs'[t][q] = syncs[t][q]
      /\ syncs'[s][r].draft = syncs[s][r].draft
      /\ CanSync(s, r)
  BY SyncSteps DEF webhookVars
<1>2. registrations[s].pc # "idle" /\ syncs[s][r].pc # "idle"
  BY <1>1 DEF CanSync
<1>3. ASSUME NEW t \in Setups, NEW q \in Resources
      PROVE  /\ registrations'[t].pc = "idle" => syncs'[t][q].pc = "idle"
             /\ syncs'[t][q].pc # "idle" => syncs'[t][q].draft = DraftOf(q, loaded[t])
  BY <1>1, <1>2 DEF Drafts
<1>4. \A t \in Setups, q \in Resources : DraftOf(q, loaded[t])' = DraftOf(q, loaded[t])
  BY <1>1 DEF DraftOf
<1> QED
  BY <1>1, <1>3, <1>4 DEF Drafts

LEMMA StartKeepsDrafts ==
    ASSUME TypeInv, Drafts, NEW s \in Setups, Start(s)
    PROVE  Drafts'
<1> DEFINE All == InitialContents \cup {<<"current">>} \cup
              {AuthorizationHeader(c.commercetools[p]) : c \in Configurations, p \in Projects}
           Syn == [pc: {"idle"}]
                  \cup [pc: {"fetch", "done", "failed"}, draft: All]
                  \cup [pc: {"write"}, draft: All, version: Nat]
           first(r) == IF r \in ResourcesOf(module)
                       THEN [pc |-> "fetch", draft |-> DraftOf(r, config)]
                       ELSE [pc |-> "idle"]
<1>1. /\ syncs' = [syncs EXCEPT ![s] = [r \in Resources |-> first(r)]]
      /\ resources' = resources
  BY DEF Start
<1>2. syncs \in [Setups -> [Resources -> Syn]]
  BY DEF Drafts, Sync!SyncTypeOK, Sync!Sync
<1>3. \A r \in Resources : DraftOf(r, config) \in All
  BY DraftIsContent DEF TypeInv, Shapes
<1>4. ASSUME NEW r \in Resources
      PROVE  first(r) \in Syn /\ (first(r).pc # "idle" => first(r).draft = DraftOf(r, config))
  <2> HIDE DEF All
  <2>1. CASE r \in ResourcesOf(module)
    BY <2>1, <1>3
  <2>2. CASE r \notin ResourcesOf(module)
    BY <2>2
  <2> QED
    BY <2>1, <2>2
<1>5. /\ \A t \in Setups \ {s} : syncs'[t] = syncs[t]
      /\ \A r \in Resources : syncs'[s][r] = first(r)
      /\ syncs' \in [Setups -> [Resources -> Syn]]
  <2> HIDE DEF Syn, first
  <2> QED
    BY <1>1, <1>2, <1>4
<1>6. Sync!SyncTypeOK'
  BY <1>1, <1>5 DEF Drafts, Sync!SyncTypeOK, Sync!Sync, Sync!Resource
<1>7. /\ \A t \in Setups \ {s} : loaded'[t] = loaded[t] /\ registrations'[t] = registrations[t]
      /\ loaded'[s] = config
      /\ registrations'[s].pc # "idle"
  BY Started
<1> HIDE DEF first
<1>8. ASSUME NEW t \in Setups, NEW r \in Resources
      PROVE  /\ registrations'[t].pc = "idle" => syncs'[t][r].pc = "idle"
             /\ syncs'[t][r].pc # "idle" => syncs'[t][r].draft = DraftOf(r, loaded'[t])
  BY <1>4, <1>5, <1>7 DEF Drafts
<1> QED
  BY <1>6, <1>8 DEF Drafts, DraftOf

LEMMA InitDrafts == Init => Drafts
<1> SUFFICES ASSUME Init
             PROVE  Drafts
  OBVIOUS
<1>1. PICK content \in InitialContents, version \in {0, 1} :
        resources = [r \in Resources |-> [version |-> version, content |-> content]]
  BY DEF Init
<1>2. syncs = [s \in Setups |-> [r \in Resources |-> [pc |-> "idle"]]]
  BY DEF Init
<1>3. Sync!SyncTypeOK
  BY <1>1, <1>2 DEF Sync!SyncTypeOK, Sync!Sync, Sync!Resource
<1> QED
  BY <1>2, <1>3 DEF Drafts

LEMMA NextKeepsDrafts == TypeInv /\ Drafts /\ [Next]_vars => Drafts'
<1> SUFFICES ASSUME TypeInv, Drafts, [Next]_vars
             PROVE  Drafts'
  OBVIOUS
<1>1. CASE \E s \in Setups : Start(s)
  BY <1>1, StartKeepsDrafts
<1>2. CASE \E s \in Setups, r \in Resources : SyncsAt(s, r)
  BY <1>2, SyncsKeepDrafts
<1>3. ASSUME UNCHANGED <<resources, syncs, loaded>>,
             \A s \in Setups : registrations'[s].pc = "idle" => registrations[s].pc = "idle"
      PROVE  Drafts'
  BY <1>3 DEF Drafts, DraftOf, Sync!SyncTypeOK, Sync!Sync, Sync!Resource
<1>4. CASE \E s \in Setups : Registers(s)
  <2>1. PICK s \in Setups : Registers(s)
    BY <1>4
  <2>2. UNCHANGED <<resources, syncs, loaded>>
    BY <2>1, RegistrationSteps
  <2>3. \A t \in Setups : registrations'[t].pc = "idle" => registrations[t].pc = "idle"
    <3>1. \/ FailRegistration(s)
          \/ MovesOn(s)
          \/ \E found : SetFound(s, found)
      BY <2>1, RegistrationSteps
    <3>2. DOMAIN registrations = Setups /\ DOMAIN registrations[s] = {"pc", "todo", "found"}
      BY DEF TypeInv, Shapes
    <3>3. CASE FailRegistration(s)
      BY <3>3, <3>2 DEF FailRegistration
    <3>4. CASE MovesOn(s)
      BY <3>4, <3>2 DEF MovesOn, GoOnWith, FirstStepOf
    <3>5. CASE \E found : SetFound(s, found)
      BY <3>5, <3>2 DEF SetFound
    <3> QED
      BY <3>1, <3>3, <3>4, <3>5
  <2> QED
    BY <2>2, <2>3, <1>3
<1>5. CASE (\E m \in Merchants : TakeOverKey(m)) \/ Reconfigure
  BY <1>3, <1>5, NewConfiguration DEF webhookVars
<1>6. CASE UNCHANGED vars
  BY <1>3, <1>6 DEF vars, webhookVars, configVars
<1> QED
  BY <1>1, <1>2, <1>4, <1>5, <1>6, NextSteps

THEOREM Invariance == Spec => [](TypeInv /\ Drafts)
<1>1. Init => TypeInv /\ Drafts
  BY InitTypes, InitDrafts
<1>2. TypeInv /\ Drafts /\ [Next]_vars => (TypeInv /\ Drafts)'
  BY NextKeepsTypes, NextKeepsDrafts
<1> QED
  BY <1>1, <1>2, PTL DEF Spec

----------------------------------------------------------------------------
(* Keys *)

\* There is always one more key.
KeysNeverRunOut == ~IsFiniteSet(HmacKeys)

KeysTyped ==
    /\ printed \in [Merchants -> HmacKeys \cup {NoValue}]
    /\ \A m \in Merchants : \A i \in DOMAIN webhooks[m] :
          webhooks[m][i].hmacKey \in HmacKeys \cup {NoValue}
    /\ disturbed \subseteq Setups /\ refused \subseteq Setups

LEMMA FiniteImage ==
    ASSUME NEW S, IsFiniteSet(S), NEW f, DOMAIN f = S
    PROVE  IsFiniteSet({f[x] : x \in S})
<1> DEFINE g == [x \in S |-> f[x]]
           T == {f[x] : x \in S}
<1>1. g \in Surjection(S, T)
  BY DEF Surjection
<1> QED
  BY <1>1, FS_Surjection

LEMMA FreshKeyIsKey ==
    ASSUME TypeInv, KeysNeverRunOut
    PROVE  FreshKey(ConfiguredKeys) \in HmacKeys
<1> DEFINE n == Len(MerchantOrder)
           InUse(m) == KeysOf(m) \cup {printed[m], ConfiguredKeys[m]}
           use == [m \in Merchants |-> InUse(m)]
           All == UNION {use[m] : m \in Merchants}
<1>1. IsFiniteSet(Merchants)
  <2>1. n \in Nat /\ DOMAIN MerchantOrder = 1..n
    BY MerchantsAssumption
  <2>2. IsFiniteSet({MerchantOrder[i] : i \in 1..n})
    <3> HIDE DEF n
    <3>1. IsFiniteSet(1..n)
      BY <2>1, FS_Interval
    <3> QED
      BY <2>1, <3>1, FiniteImage
  <2>3. Merchants = {MerchantOrder[i] : i \in 1..n}
    BY <2>1, MerchantsAssumption
  <2> QED
    BY <2>2, <2>3
<1>2. ASSUME NEW m \in Merchants
      PROVE  IsFiniteSet(InUse(m))
  <2>1. DOMAIN webhooks[m] = 1..Len(webhooks[m]) /\ Len(webhooks[m]) \in Nat
    BY ListIsSeq DEF TypeInv, WebhookShapes, IsList
  <2> DEFINE D == DOMAIN webhooks[m]
             keys == [i \in D |-> webhooks[m][i].hmacKey]
  <2>2. IsFiniteSet({keys[i] : i \in D})
    <3>1. IsFiniteSet(D)
      BY <2>1, FS_Interval
    <3>2. DOMAIN keys = D
      OBVIOUS
    <3> HIDE DEF D, keys
    <3> QED
      BY <3>1, <3>2, FiniteImage
  <2>3. KeysOf(m) = {keys[i] : i \in D}
    BY DEF KeysOf
  <2>4. IsFiniteSet({printed[m], ConfiguredKeys[m]})
    <3>1. {printed[m], ConfiguredKeys[m]} = {printed[m]} \cup {ConfiguredKeys[m]}
      OBVIOUS
    <3>2. IsFiniteSet({printed[m]}) /\ IsFiniteSet({ConfiguredKeys[m]})
      BY FS_Singleton
    <3> QED
      BY <3>1, <3>2, FS_Union
  <2> QED
    BY <2>2, <2>3, <2>4, FS_Union
<1>3. IsFiniteSet(All)
  <2>1. DOMAIN use = Merchants
    OBVIOUS
  <2>2. \A T \in {use[m] : m \in Merchants} : IsFiniteSet(T)
    BY <1>2
  <2> HIDE DEF use
  <2>3. IsFiniteSet({use[m] : m \in Merchants})
    BY <1>1, <2>1, FiniteImage
  <2> QED
    BY <2>2, <2>3, FS_UNION
<1>4. \E key \in HmacKeys : key \notin All
  <2> SUFFICES ASSUME HmacKeys \subseteq All
               PROVE  FALSE
    OBVIOUS
  <2> HIDE DEF All
  <2> QED
    BY <1>3, FS_Subset DEF KeysNeverRunOut
<1>5. \E key \in HmacKeys :
        \A m \in Merchants : key \notin KeysOf(m) \cup {printed[m], ConfiguredKeys[m]}
  BY <1>4
<1> QED
  BY <1>5 DEF FreshKey

\* What is printed, and which setups had a request refused.
LEMMA LogAfter ==
    ASSUME NEW s \in Setups, Registers(s)
    PROVE  /\ printed' = printed \/ GenerateHmac(s, ConfiguredKeys)
           /\ disturbed' = disturbed
           /\ refused' = refused \/ refused' = refused \cup {s}
           /\ confused' = confused \/ (confused' = TRUE /\ ListIsRefused(s))
           /\ RefuseList(s) => confused' = TRUE
<1>1. CASE Register(s)
  BY <1>1 DEF Register, RegistrationStep, ListWebhooks, CreateWebhook, UpdateWebhook,
              ActivateWebhook, RefuseList, Mishap, ListIsRefused, SetFound, At
<1>2. CASE RefuseList(s)
  BY <1>2 DEF RefuseList, ListIsRefused
<1>3. CASE RefuseActivation(s)
  <2>1. printed' = printed /\ mishaps' = mishaps
    BY <1>3 DEF RefuseActivation, ActivationIsRefused
  <2> QED
    BY <2>1, <1>3 DEF RefuseActivation, RefuseList, ListIsRefused, ActivationIsRefused, At
<1>4. CASE RefuseHmac(s)
  BY <1>4 DEF RefuseHmac, HmacIsRefused, RefuseList, ListIsRefused, At
<1>5. CASE Interrupt(s) /\ ~RefuseList(s)
  BY <1>5 DEF Interrupt, RegistrationFails
<1> QED
  BY <1>1, <1>2, <1>3, <1>4, <1>5 DEF Registers

LEMMA RegistersKeepsKeys ==
    ASSUME KeysNeverRunOut, TypeInv, KeysTyped, NEW s \in Setups, Registers(s)
    PROVE  KeysTyped'
<1> DEFINE key == FreshKey(ConfiguredKeys)
           Keys == HmacKeys \cup {NoValue}
<1>1. key \in Keys
  BY FreshKeyIsKey
<1>2. HooksChange(s)
  BY RegistrationSteps
<1>3. printed' \in [Merchants -> Keys]
  <2>1. CASE printed' = printed
    BY <2>1 DEF KeysTyped
  <2>2. CASE GenerateHmac(s, ConfiguredKeys)
    <3>1. printed' = [printed EXCEPT ![Task(s).merchant] = key]
      BY <2>2 DEF GenerateHmac
    <3> HIDE DEF key
    <3> QED
      BY <3>1, <1>1 DEF KeysTyped
  <2> QED
    BY <2>1, <2>2, LogAfter
<1>4. ASSUME NEW m \in Merchants, NEW i \in DOMAIN webhooks'[m]
      PROVE  webhooks'[m][i].hmacKey \in Keys
  <2> DEFINE old == webhooks[m][i]
             hook == webhooks'[m][i]
             a == Task(s).authentication
             signed == [old EXCEPT !.hmacKey = key]
             new == [kind |-> Task(s).kind, active |-> TRUE, hmacKey |-> NoValue,
                     authentication |-> a]
  <2>1. \/ i \in DOMAIN webhooks[m] /\ hook = old
        \/ i \in DOMAIN webhooks[m] /\ hook = Activated(old, a)
        \/ i \in DOMAIN webhooks[m] /\ hook = signed
        \/ hook = new
    BY <1>2, HooksAfter
  <2>2. i \in DOMAIN webhooks[m] => IsWebhook(old) /\ old.hmacKey \in Keys
    BY DEF TypeInv, WebhookShapes, KeysTyped
  <2>3. i \in DOMAIN webhooks[m] => signed.hmacKey = key
    BY <2>2 DEF IsWebhook
  <2>4. i \in DOMAIN webhooks[m] => Activated(old, a).hmacKey = old.hmacKey
    BY <2>2 DEF IsWebhook, Activated
  <2>5. new.hmacKey = NoValue
    OBVIOUS
  <2> HIDE DEF old, hook, signed, new, a, key
  <2>6. hook.hmacKey \in Keys
    BY <1>1, <2>1, <2>2, <2>3, <2>4, <2>5
  <2> QED
    BY <2>6 DEF hook
<1>5. disturbed' \subseteq Setups /\ refused' \subseteq Setups
  BY LogAfter DEF KeysTyped
<1> QED
  BY <1>3, <1>4, <1>5 DEF KeysTyped

LEMMA NextKeepsKeys ==
    KeysNeverRunOut /\ TypeInv /\ Drafts /\ KeysTyped /\ [Next]_vars => KeysTyped'
<1> SUFFICES ASSUME KeysNeverRunOut, TypeInv, Drafts, KeysTyped, [Next]_vars
             PROVE  KeysTyped'
  OBVIOUS
<1>1. CASE \E s \in Setups : Start(s)
  <2>1. PICK s \in Setups : Start(s)
    BY <1>1
  <2>2. /\ webhooks' = webhooks
        /\ printed' = [m \in Merchants |-> NoValue]
        /\ disturbed' \subseteq disturbed \cup Setups
        /\ refused' \subseteq refused
    BY <2>1 DEF Start
  <2> QED
    BY <2>2 DEF KeysTyped
<1>2. CASE \E s \in Setups : Registers(s)
  BY <1>2, RegistersKeepsKeys
<1>3. CASE \E s \in Setups, r \in Resources : SyncsAt(s, r)
  BY <1>3, SyncSteps DEF KeysTyped, webhookVars
<1>4. CASE (\E m \in Merchants : TakeOverKey(m)) \/ Reconfigure
  BY <1>4, NewConfiguration DEF KeysTyped, webhookVars
<1>5. CASE UNCHANGED vars
  BY <1>5 DEF KeysTyped, vars, webhookVars
<1> QED
  BY <1>1, <1>2, <1>3, <1>4, <1>5, NextSteps

LEMMA InitKeys == Init => KeysTyped
<1> SUFFICES ASSUME Init
             PROVE  KeysTyped
  OBVIOUS
<1>1. ASSUME NEW m \in Merchants, NEW i \in DOMAIN webhooks[m]
      PROVE  webhooks[m][i].hmacKey \in HmacKeys \cup {NoValue}
  <2>1. webhooks[m] \in InitialWebhooks \cup {<<>>}
    BY DEF Init
  <2>2. webhooks[m] \in Seq(Webhook)
    BY <2>1, WebhooksAssumption
  <2>3. webhooks[m][i] \in Webhook
    BY <2>2
  <2> QED
    BY <2>3 DEF Webhook
<1> QED
  BY <1>1 DEF Init, KeysTyped

\* The types of all variables: credentials of the configurations on webhooks,
\* pending webhooks with complete ones, drafts that are contents, and setups
\* that point at a webhook of the list, if keys never run out.
THEOREM TypeCorrect == KeysNeverRunOut => (Spec => []TypeOK)
<1> SUFFICES ASSUME KeysNeverRunOut
             PROVE  Spec => []TypeOK
  OBVIOUS
<1>1. Init => TypeInv /\ Drafts /\ KeysTyped
  BY InitTypes, InitDrafts, InitKeys
<1>2. TypeInv /\ Drafts /\ KeysTyped /\ [Next]_vars => (TypeInv /\ Drafts /\ KeysTyped)'
  BY NextKeepsTypes, NextKeepsDrafts, NextKeepsKeys
<1>3. TypeInv /\ Drafts /\ KeysTyped => TypeOK
  <2> SUFFICES ASSUME TypeInv, Drafts, KeysTyped
               PROVE  TypeOK
    OBVIOUS
  <2>1. ASSUME NEW m \in Merchants, NEW i \in DOMAIN webhooks[m]
        PROVE  /\ webhooks[m][i] \in Webhook
               /\ webhooks[m][i].kind = "pending" =>
                    HasCredentials(webhooks[m][i].authentication)
    <3> DEFINE hook == webhooks[m][i]
    <3>1. IsWebhook(hook) /\ hook.hmacKey \in HmacKeys \cup {NoValue}
      BY DEF TypeInv, WebhookShapes, KeysTyped
    <3> HIDE DEF hook
    <3>3. hook.authentication \in {NoValue} \cup
            {c.adyen[n].authentication : c \in Configurations, n \in Merchants}
      BY <3>1 DEF IsWebhook
    <3>4. hook \in Webhook
      BY <3>1, <3>3 DEF IsWebhook, IsFunction, Webhook
    <3> QED
      BY <3>1, <3>4 DEF hook, IsWebhook
  <2>2. ASSUME NEW s \in Setups
        PROVE  registrations[s].found \in {0} \cup
                 (IF registrations[s].todo = <<>> THEN Nat
                  ELSE DOMAIN webhooks[Task(s).merchant])
    <3>1. \/ registrations[s].found = 0
          \/ /\ registrations[s].todo # <<>>
             /\ \E kind : registrations[s].found \in Positions(Task(s).merchant, kind)
      BY DEF TypeInv, Place, IsBusy
    <3>2. \A m, kind : Positions(m, kind) \subseteq DOMAIN webhooks[m]
      BY DEF Positions
    <3>3. CASE registrations[s].found = 0
      BY <3>3
    <3>4. CASE /\ registrations[s].todo # <<>>
               /\ \E kind : registrations[s].found \in Positions(Task(s).merchant, kind)
      BY <3>2, <3>4
    <3> QED
      BY <3>1, <3>3, <3>4
  <2> QED
    BY <2>1, <2>2 DEF TypeOK, Drafts, KeysTyped
<1> QED
  BY <1>1, <1>2, <1>3, PTL DEF Spec

----------------------------------------------------------------------------
(* One webhook of a kind *)

Remaining(s) == {registrations[s].todo[i] : i \in DOMAIN registrations[s].todo}

PointsAtFirst(s) ==
    /\ registrations[s].pc = "write" =>
          registrations[s].found = FindWebhook(Task(s).merchant, Task(s).kind)
    /\ registrations[s].pc = "hmac" =>
          registrations[s].found = FindWebhook(Task(s).merchant, "standard")

\* Nobody knows a key that a setup is still to generate.
NoKeyYet(s) ==
    \A m \in Merchants : TaskWith("hmac", m, NoValue) \in Remaining(s) =>
        printed[m] = NoValue /\ ConfiguredKeys[m] = NoValue

StandardHas(m, key) ==
    /\ FindWebhook(m, "standard") # 0
    /\ webhooks[m][FindWebhook(m, "standard")].hmacKey = key

KeysKnown ==
    \A m \in Merchants :
        /\ printed[m] # NoValue => StandardHas(m, printed[m])
        /\ ConfiguredKeys[m] # NoValue => StandardHas(m, ConfiguredKeys[m])

OneRuns == \A s, t \in Setups : Running(s) /\ Running(t) => s = t

OneEach ==
    \A m \in Merchants, kind \in {"standard", "pending"} :
        \A i, j \in Positions(m, kind) : i = j

\* While setups have run one after the other.
KeysInv ==
    ~confused =>
        /\ OneRuns
        /\ \A s \in Setups : PointsAtFirst(s) /\ NoKeyYet(s)
        /\ KeysKnown
        /\ OneEach

LEMMA RunningStays ==
    ASSUME NEW t, module' = module, registrations'[t] = registrations[t], syncs'[t] = syncs[t]
    PROVE  Running(t)' <=> Running(t)
BY DEF Running, CanSync

LEMMA RestingSetup ==
    ASSUME TypeInv, NEW t \in Setups, ~Running(t)
    PROVE  /\ registrations[t].pc \in {"idle", "done", "failed"}
           /\ Remaining(t) = {}
<1>1. registrations[t].pc \in {"idle", "done", "failed"} /\ registrations[t].todo = <<>>
  BY DEF Running, TypeInv, Place
<1>2. DOMAIN <<>> = {}
  OBVIOUS
<1> QED
  BY <1>1, <1>2 DEF Remaining

LEMMA OnlyFound ==
    ASSUME NEW m, NEW kind, NEW i \in Nat
    PROVE  /\ Positions(m, kind) = {i} => FindWebhook(m, kind) = i
           /\ Positions(m, kind)' = {i} => FindWebhook(m, kind)' = i
<1>1. i = CHOOSE f \in {i} : \A j \in {i} : f <= j
  <2>1. \A f : (f \in {i} /\ \A j \in {i} : f <= j) <=> f = i
    OBVIOUS
  <2> QED
    BY <2>1
<1> QED
  BY <1>1 DEF FindWebhook

\* The keys of webhooks that were there before a request.
LEMMA KeysAfter ==
    ASSUME TypeInv, NEW s \in Setups, HooksChange(s),
           NEW m \in Merchants, NEW i \in DOMAIN webhooks[m]
    PROVE  \/ webhooks'[m][i].hmacKey = webhooks[m][i].hmacKey
           \/ At(s, "hmac") /\ m = Task(s).merchant /\ i = registrations[s].found
<1> DEFINE old == webhooks[m][i]
           hook == webhooks'[m][i]
           a == Task(s).authentication
           changed == At(s, "hmac") /\ m = Task(s).merchant /\ i = registrations[s].found
<1>1. i \in DOMAIN webhooks'[m]
  BY HooksAfter
<1>2. hook = old \/ hook = Activated(old, a) \/ changed
  BY <1>1, HooksAfter
<1>3. IsWebhook(old)
  BY DEF TypeInv, WebhookShapes
<1>4. Activated(old, a).hmacKey = old.hmacKey
  BY <1>3 DEF IsWebhook, Activated
<1> HIDE DEF old, hook, a, changed
<1>5. hook.hmacKey = old.hmacKey \/ changed
  BY <1>2, <1>4
<1> QED
  BY <1>5 DEF old, hook, changed

HasTaskNow(s) == Task(s).merchant \in Merchants

TasksAreThere == \A s \in Setups : IsBusy(s) => HasTaskNow(s)

LEMMA BusyHaveTasks == TypeInv => TasksAreThere
BY HasTask DEF HasTaskNow, TasksAreThere

LEMMA HasTaskThen ==
    ASSUME TypeInv', NEW s \in Setups, IsBusy(s)'
    PROVE  HasTaskNow(s)'
<1>1. TasksAreThere'
  BY BusyHaveTasks, PTL
<1> QED
  BY <1>1 DEF TasksAreThere

\* A task is done, and the others remain.
LEMMA TaskIsDone ==
    ASSUME NEW s, IsBusy(s)
    PROVE  /\ Task(s) \in Remaining(s)
           /\ registrations'[s].todo = Tail(registrations[s].todo) =>
                Remaining(s)' = Remaining(s) \ {Task(s)}
<1>1. PICK todo, conf : todo = registrations[s].todo /\ conf = loaded[s]
  OBVIOUS
<1>2. IsPlan(todo, conf) /\ todo # <<>> /\ Task(s) = Head(todo)
  BY <1>1 DEF IsBusy, Task
<1>3. /\ \E i \in DOMAIN todo : todo[i] = Head(todo)
      /\ \A task :
           (\E i \in DOMAIN Tail(todo) : Tail(todo)[i] = task)
           <=> task # Head(todo) /\ \E i \in DOMAIN todo : todo[i] = task
  BY <1>2, TailOfPlan
<1>4. Remaining(s) = {todo[i] : i \in DOMAIN todo}
  BY <1>1 DEF Remaining
<1>5. ASSUME registrations'[s].todo = Tail(registrations[s].todo)
      PROVE  Remaining(s)' = Remaining(s) \ {Task(s)}
  <2>1. PICK rest : rest = Tail(todo)
    OBVIOUS
  <2>2. Remaining(s)' = {rest[i] : i \in DOMAIN rest}
    BY <1>1, <1>5, <2>1 DEF Remaining
  <2>3. \A task : (\E i \in DOMAIN rest : rest[i] = task)
                  <=> task # Head(todo) /\ \E i \in DOMAIN todo : todo[i] = task
    BY <1>3, <2>1
  <2>4. \A task : task \in {rest[i] : i \in DOMAIN rest}
                  <=> task \in {todo[i] : i \in DOMAIN todo} \ {Head(todo)}
    BY <2>3
  <2> QED
    BY <1>2, <1>4, <2>2, <2>4
<1> QED
  BY <1>2, <1>3, <1>4, <1>5

\* Requests of the only setup that runs.
LEMMA RegistersKeepsOneEach ==
    ASSUME TypeInv, TypeInv', KeysInv, NEW s \in Setups, Registers(s), ~confused'
    PROVE  KeysInv'
<1>1. /\ OneRuns
      /\ \A t \in Setups : PointsAtFirst(t) /\ NoKeyYet(t)
      /\ KeysKnown
      /\ OneEach
  BY LogAfter DEF KeysInv
<1>2. /\ registrations[s].pc \in {"list", "write", "hmac"}
      /\ IsBusy(s)
      /\ HooksChange(s)
      /\ UNCHANGED <<resources, syncs, module, config, loaded>>
      /\ \/ FailRegistration(s)
         \/ MovesOn(s)
         \/ /\ registrations[s].pc = "list" /\ webhooks' = webhooks
            /\ \E found \in {0, FindWebhook(Task(s).merchant, Task(s).kind)} :
                   SetFound(s, found)
  BY RegistrationSteps
<1>3. \A t \in Setups \ {s} : registrations'[t] = registrations[t]
  BY <1>2, FailedPlace DEF TypeInv, Shapes, MovesOn, GoOnWith, SetFound
<1>4. ASSUME NEW t \in Setups \ {s}
      PROVE  ~Running(t) /\ ~Running(t)'
  <2>1. ~Running(t)
    BY <1>1, <1>2 DEF OneRuns, Running
  <2> QED
    BY <2>1, <1>2, <1>3, RunningStays
<1>5. OneRuns'
  BY <1>4 DEF OneRuns
<1>6. OneEach'
  <2> SUFFICES ASSUME NEW m \in Merchants, NEW kind \in {"standard", "pending"},
                      NEW i \in Positions(m, kind)', NEW j \in Positions(m, kind)'
               PROVE  i = j
    BY DEF OneEach
  <2>1. /\ Positions(m, kind) \subseteq Positions(m, kind)'
        /\ \A k \in Positions(m, kind)' \ Positions(m, kind) :
             /\ k = Len(webhooks[m]) + 1
             /\ At(s, "write") /\ registrations[s].found = 0
             /\ m = Task(s).merchant /\ kind = Task(s).kind
    BY <1>2, PositionsStay
  <2>2. CASE Positions(m, kind)' = Positions(m, kind)
    BY <2>2, <1>1 DEF OneEach
  <2>3. CASE Positions(m, kind)' # Positions(m, kind)
    <3>1. /\ At(s, "write") /\ registrations[s].found = 0
          /\ m = Task(s).merchant /\ kind = Task(s).kind
      BY <2>1, <2>3
    <3>2. FindWebhook(m, kind) = 0
      BY <3>1, <1>1 DEF PointsAtFirst, At
    <3>3. Positions(m, kind) = {}
      BY <3>2, FirstFound
    <3> QED
      BY <2>1, <3>3
  <2> QED
    BY <2>2, <2>3
<1>7. ASSUME NEW m \in Merchants, NEW kind \in {"standard", "pending"},
             NEW i \in Positions(m, kind)'
      PROVE  FindWebhook(m, kind)' = i /\ i \in Nat \ {0}
  <2>1. \A list : IsList(list) => DOMAIN list = 1..Len(list) /\ Len(list) \in Nat
    BY ListIsSeq DEF IsList
  <2>2. i \in Nat \ {0}
    <3>1. IsList(webhooks'[m]) /\ i \in DOMAIN webhooks'[m]
      BY DEF TypeInv, WebhookShapes, Positions
    <3> QED
      BY <3>1, <2>1
  <2>3. Positions(m, kind)' = {i}
    BY <1>6 DEF OneEach
  <2> QED
    BY <2>2, <2>3, OnlyFound
<1>8. ASSUME NEW m \in Merchants, NEW key, StandardHas(m, key),
             ~(At(s, "hmac") /\ m = Task(s).merchant)
      PROVE  StandardHas(m, key)'
  <2> DEFINE i == FindWebhook(m, "standard")
  <2>1. i \in Positions(m, "standard") /\ webhooks[m][i].hmacKey = key
    BY <1>8, FirstFound DEF StandardHas
  <2>2. PICK k : k = i
    OBVIOUS
  <2>3. k \in Positions(m, "standard")' /\ k \in DOMAIN webhooks[m]
    BY <2>1, <2>2, <1>2, PositionsStay DEF Positions
  <2>4. webhooks'[m][k].hmacKey = key
    BY <2>1, <2>2, <2>3, <1>2, <1>8, KeysAfter
  <2>5. FindWebhook(m, "standard")' = k /\ k # 0
    BY <2>3, <1>7
  <2> QED
    BY <2>4, <2>5 DEF StandardHas
<1>9. ASSUME At(s, "hmac")
      PROVE  /\ Task(s).merchant \in Merchants
             /\ Task(s) = TaskWith("hmac", Task(s).merchant, NoValue)
             /\ printed[Task(s).merchant] = NoValue
             /\ ConfiguredKeys[Task(s).merchant] = NoValue
  <2>1. Task(s).kind = "hmac"
    BY <1>9 DEF At, TypeInv, Place
  <2>2. Task(s) \in Tasks(loaded[s]) /\ Task(s).merchant \in Merchants
    BY <1>2, HasTask
  <2>3. Task(s) = TaskWith("hmac", Task(s).merchant, NoValue)
    BY <2>1, <2>2, TaskFields
  <2>4. Task(s) \in Remaining(s)
    BY <1>2, TaskIsDone
  <2> QED
    BY <2>2, <2>3, <2>4, <1>1 DEF NoKeyYet
<1>10. ConfiguredKeys' = ConfiguredKeys
  BY <1>2 DEF ConfiguredKeys
<1>11. KeysKnown'
  <2> SUFFICES ASSUME NEW m \in Merchants
               PROVE  /\ printed'[m] # NoValue => StandardHas(m, printed[m])'
                      /\ ConfiguredKeys'[m] # NoValue => StandardHas(m, ConfiguredKeys[m])'
    BY DEF KeysKnown
  <2>1. ConfiguredKeys'[m] # NoValue => StandardHas(m, ConfiguredKeys[m])'
    <3>1. PICK key : key = ConfiguredKeys[m]
      OBVIOUS
    <3>2. key # NoValue => StandardHas(m, key)'
      BY <3>1, <1>1, <1>8, <1>9 DEF KeysKnown
    <3> QED
      BY <3>1, <3>2, <1>10 DEF StandardHas
  <2>2. CASE printed'[m] = printed[m]
    <3>1. PICK key : key = printed[m]
      OBVIOUS
    <3>2. key # NoValue => StandardHas(m, key)'
      BY <3>1, <1>1, <1>8, <1>9 DEF KeysKnown
    <3>3. printed'[m] # NoValue => StandardHas(m, printed[m])'
      BY <3>1, <3>2, <2>2 DEF StandardHas
    <3> QED
      BY <2>1, <3>3
  <2>3. CASE printed'[m] # printed[m]
    <3>1. GenerateHmac(s, ConfiguredKeys)
      BY <2>3, LogAfter
    <3>2. PICK key : key = FreshKey(ConfiguredKeys)
      OBVIOUS
    <3>3. PICK k : k = registrations[s].found
      OBVIOUS
    <3>4. /\ At(s, "hmac")
          /\ printed' = [printed EXCEPT ![Task(s).merchant] = key]
          /\ webhooks' = [webhooks EXCEPT ![Task(s).merchant][k].hmacKey = key]
      BY <3>1, <3>2, <3>3 DEF GenerateHmac, SetHmacKey
    <3>5. m = Task(s).merchant
      BY <2>3, <3>4 DEF TypeInv, WebhookShapes
    <3>6. printed'[m] = key
      BY <3>4, <3>5 DEF TypeInv, WebhookShapes
    <3>7. k \in Positions(m, "standard")
      BY <3>3, <3>4, <3>5 DEF At, TypeInv, Place
    <3>8. k \in Positions(m, "standard")' /\ k \in DOMAIN webhooks[m]
      <4>1. k \in DOMAIN webhooks[m]
        BY <3>7 DEF Positions
      <4>2. Positions(m, "standard") \subseteq Positions(m, "standard")'
        BY <1>2, PositionsStay
      <4> QED
        BY <3>7, <4>1, <4>2
    <3>9. webhooks'[m][k].hmacKey = key
      <4>1. IsWebhook(webhooks[m][k])
        BY <3>8 DEF TypeInv, WebhookShapes
      <4>2. webhooks'[m] = [webhooks[m] EXCEPT ![k] = [webhooks[m][k] EXCEPT !.hmacKey = key]]
        BY <3>4, <3>5 DEF TypeInv, WebhookShapes
      <4>3. webhooks'[m][k] = [webhooks[m][k] EXCEPT !.hmacKey = key]
        BY <4>2, <3>8
      <4> QED
        BY <4>1, <4>3 DEF IsWebhook
    <3>10. FindWebhook(m, "standard")' = k /\ k # 0
      BY <3>8, <1>7
    <3>11. StandardHas(m, printed[m])'
      BY <3>6, <3>9, <3>10 DEF StandardHas
    <3> QED
      BY <2>1, <3>11
  <2> QED
    BY <2>2, <2>3
<1>12. ASSUME NEW t \in Setups
       PROVE  PointsAtFirst(t)' /\ NoKeyYet(t)'
  <2>1. CASE t # s
    <3>1. ~Running(t)
      BY <2>1, <1>4
    <3>2. registrations[t].pc \in {"idle", "done", "failed"} /\ Remaining(t) = {}
      BY <3>1, RestingSetup
    <3>3. registrations'[t] = registrations[t]
      BY <2>1, <1>3
    <3>4. Remaining(t)' = {}
      BY <3>2, <3>3 DEF Remaining
    <3> QED
      BY <3>2, <3>3, <3>4 DEF PointsAtFirst, NoKeyYet
  <2>2. CASE t = s /\ FailRegistration(s)
    <3>1. registrations'[s].pc = "failed" /\ registrations'[s].todo = <<>>
      BY <2>2, FailedPlace
    <3>2. Remaining(s)' = {}
      BY <3>1 DEF Remaining
    <3> QED
      BY <2>2, <3>1, <3>2 DEF PointsAtFirst, NoKeyYet
  <2>3. CASE t = s /\ MovesOn(s)
    <3>1. /\ registrations'[s].todo = Tail(registrations[s].todo)
          /\ registrations'[s].pc \in {"list", "hmac", "done"}
      BY <2>3, <1>2, NextPlace
    <3>2. PointsAtFirst(s)'
      <4>1. CASE registrations'[s].pc = "hmac"
        <5>1. PICK m : m = Task(s)'.merchant
          OBVIOUS
        <5>2. IsBusy(s)' /\ registrations'[s].found \in Positions(m, "standard")'
          BY <4>1, <5>1 DEF TypeInv, Place
        <5>3. m \in Merchants
          <6>1. HasTaskNow(s)'
            BY <5>2, HasTaskThen
          <6> QED
            BY <5>1, <6>1 DEF HasTaskNow
        <5>4. registrations'[s].found = FindWebhook(m, "standard")'
          BY <5>2, <5>3, <1>7
        <5> QED
          BY <4>1, <5>1, <5>4 DEF PointsAtFirst
      <4> QED
        BY <3>1, <4>1 DEF PointsAtFirst
    <3>3. NoKeyYet(s)'
      <4> SUFFICES ASSUME NEW m \in Merchants, TaskWith("hmac", m, NoValue) \in Remaining(s)'
                   PROVE  printed'[m] = NoValue /\ ConfiguredKeys'[m] = NoValue
        BY DEF NoKeyYet
      <4> DEFINE task == TaskWith("hmac", m, NoValue)
      <4>1. task \in Remaining(s) /\ task # Task(s)
        BY <3>1, <1>2, TaskIsDone
      <4>2. printed[m] = NoValue /\ ConfiguredKeys[m] = NoValue
        BY <4>1, <1>1 DEF NoKeyYet
      <4>3. CASE printed' = printed
        BY <4>2, <4>3, <1>10
      <4>4. CASE GenerateHmac(s, ConfiguredKeys)
        <5>1. Task(s).merchant # m
          BY <4>1, <4>4, <1>9 DEF GenerateHmac
        <5>2. printed'[m] = printed[m]
          BY <4>4, <5>1 DEF GenerateHmac, TypeInv, WebhookShapes
        <5> QED
          BY <4>2, <5>2, <1>10
      <4> QED
        BY <4>3, <4>4, LogAfter
    <3> QED
      BY <2>3, <3>2, <3>3
  <2>4. CASE /\ t = s
             /\ registrations[s].pc = "list" /\ webhooks' = webhooks
             /\ ~FailRegistration(s) /\ ~MovesOn(s)
    <3>1. SetFound(s, FindWebhook(Task(s).merchant, Task(s).kind)) /\ printed' = printed
      <4>1. ~RefuseList(s)
        BY LogAfter
      <4>2. ListWebhooks(s)
        BY <2>4, <4>1 DEF Registers, Register, RefuseActivation, RefuseHmac, Interrupt,
                          RegistrationStep, CreateWebhook, UpdateWebhook, ActivateWebhook,
                          GenerateHmac, ActivationIsRefused, HmacIsRefused,
                          RegistrationFails, At
      <4>3. \A found : found # 0 /\ found = FindWebhook(Task(s).merchant, Task(s).kind) =>
               ~GoOnWith(s, found)
        <5> SUFFICES ASSUME NEW found,
                            found # 0, found = FindWebhook(Task(s).merchant, Task(s).kind),
                            GoOnWith(s, found)
                     PROVE  FALSE
          OBVIOUS
        <5>1. Task(s).merchant \in Merchants
          BY <1>2, HasTask
        <5>2. found \in Positions(Task(s).merchant, Task(s).kind)
          BY <5>1, FirstFound
        <5>3. ASSUME NEW m \in Merchants, Task(s) = TaskWith("standard", m, NoValue)
              PROVE  found \in Positions(m, "standard")'
          <6>1. found \in Positions(m, "standard")
            BY <5>2, <5>3 DEF TaskWith
          <6> QED
            BY <6>1, <1>2, PositionsStay
        <5>4. MovesOn(s)
          BY <5>3 DEF MovesOn
        <5> QED
          BY <5>4, <2>4
      <4> QED
        BY <4>2, <4>3 DEF ListWebhooks
    <3>2. PICK task, found :
            task = Task(s) /\ found = FindWebhook(Task(s).merchant, Task(s).kind)
      OBVIOUS
    <3>3. /\ registrations'[s].pc = "write"
          /\ registrations'[s].todo = registrations[s].todo
          /\ registrations'[s].found = found
      BY <2>4, <3>1, <3>2, <1>2, FoundPlace
    <3>4. PICK m, kind : m = task.merchant /\ kind = task.kind
      OBVIOUS
    <3>5. FindWebhook(m, kind)' = FindWebhook(m, kind)
      BY <2>4 DEF FindWebhook, Positions
    <3>6. Task(s)' = task
      BY <3>2, <3>3 DEF Task
    <3>7. PointsAtFirst(s)'
      BY <3>2, <3>3, <3>4, <3>5, <3>6 DEF PointsAtFirst
    <3>8. NoKeyYet(s)'
      BY <3>1, <3>3, <1>1, <1>10 DEF NoKeyYet, Remaining
    <3> QED
      BY <2>4, <3>7, <3>8
  <2> QED
    BY <1>2, <2>1, <2>2, <2>3, <2>4
<1> QED
  BY <1>5, <1>6, <1>11, <1>12 DEF KeysInv

LEMMA StartKeepsOneEach ==
    ASSUME TypeInv, KeysInv, NEW s \in Setups, Start(s), ~confused'
    PROVE  KeysInv'
<1>1. /\ ~confused
      /\ \A t \in Setups : ~Running(t)
      /\ webhooks' = webhooks
      /\ module' = module
      /\ config' = config
      /\ printed' = [m \in Merchants |-> NoValue]
      /\ syncs' = [syncs EXCEPT ![s] = [r \in Resources |->
            IF r \in ResourcesOf(module)
            THEN [pc |-> "fetch", draft |-> DraftOf(r, config)]
            ELSE [pc |-> "idle"]]]
  BY DEF Start
<1>2. KeysKnown /\ OneEach
  BY <1>1 DEF KeysInv
<1>3. \A t \in Setups \ {s} : registrations'[t] = registrations[t] /\ syncs'[t] = syncs[t]
  BY <1>1, Started
<1>4. \A t \in Setups \ {s} : ~Running(t)'
  BY <1>1, <1>3, RunningStays
<1>5. OneRuns'
  BY <1>4 DEF OneRuns
<1>6. OneEach'
  BY <1>1, <1>2 DEF OneEach, Positions
<1>7. ConfiguredKeys' = ConfiguredKeys
  BY <1>1 DEF ConfiguredKeys
<1>8. \A m \in Merchants : printed'[m] = NoValue
  BY <1>1
<1>9. KeysKnown'
  <2> SUFFICES ASSUME NEW m \in Merchants, ConfiguredKeys'[m] # NoValue
               PROVE  StandardHas(m, ConfiguredKeys[m])'
    BY <1>8 DEF KeysKnown
  <2>1. StandardHas(m, ConfiguredKeys[m])
    BY <1>2, <1>7 DEF KeysKnown
  <2> QED
    BY <2>1, <1>1, <1>7 DEF StandardHas, FindWebhook, Positions
<1>10. ASSUME NEW t \in Setups
       PROVE  PointsAtFirst(t)' /\ NoKeyYet(t)'
  <2>1. CASE t # s
    <3>1. registrations[t].pc \in {"idle", "done", "failed"} /\ Remaining(t) = {}
      BY <1>1, RestingSetup
    <3>2. registrations'[t] = registrations[t]
      BY <2>1, <1>3
    <3>3. Remaining(t)' = {}
      BY <3>1, <3>2 DEF Remaining
    <3> QED
      BY <3>1, <3>2, <3>3 DEF PointsAtFirst, NoKeyYet
  <2>2. CASE t = s
    <3>1. registrations'[s].pc \in {"list", "done"}
      BY Started
    <3>2. ASSUME NEW m \in Merchants, TaskWith("hmac", m, NoValue) \in Remaining(s)'
          PROVE  ConfiguredKeys[m] = NoValue
      <4>1. PICK todo : todo = registrations'[s].todo
        OBVIOUS
      <4>2. todo = <<>> \/ todo = TasksOf(config)
        BY <4>1, Started
      <4>3. PICK i \in DOMAIN todo : todo[i] = TaskWith("hmac", m, NoValue)
        BY <3>2, <4>1 DEF Remaining
      <4>4. IsPlan(todo, config)
        BY <4>2, <4>3, TasksOfPlan DEF IsPlanFor
      <4>5. TaskWith("hmac", m, NoValue) \in Tasks(config)
        BY <4>3, <4>4 DEF IsPlan
      <4>6. /\ TaskWith("hmac", m, NoValue).kind = "hmac"
            /\ TaskWith("hmac", m, NoValue).merchant = m
        BY DEF TaskWith
      <4>7. config.adyen[m].secretHmacKey = NoValue
        BY <4>5, <4>6, TaskFields
      <4> QED
        BY <4>7 DEF ConfiguredKeys
    <3>3. NoKeyYet(s)'
      BY <3>2, <1>7, <1>8 DEF NoKeyYet
    <3> QED
      BY <2>2, <3>1, <3>3 DEF PointsAtFirst
  <2> QED
    BY <2>1, <2>2
<1> QED
  BY <1>5, <1>6, <1>9, <1>10 DEF KeysInv

\* Nothing happens at Adyen: the operator may take over the key that a setup
\* has printed, when none runs.
LEMMA OthersKeepOneEach ==
    ASSUME TypeInv, KeysInv, UNCHANGED <<webhookVars, confused>>,
           \A t \in Setups : Running(t)' => Running(t),
           \A m \in Merchants :
               \/ ConfiguredKeys'[m] = ConfiguredKeys[m]
               \/ /\ \A t \in Setups : ~Running(t)
                  /\ ConfiguredKeys'[m] = printed[m]
    PROVE  KeysInv'
<1> SUFFICES ASSUME ~confused
             PROVE  (OneRuns /\ (\A t \in Setups : PointsAtFirst(t) /\ NoKeyYet(t))
                        /\ KeysKnown /\ OneEach)'
  BY DEF KeysInv
<1>1. UNCHANGED <<webhooks, registrations, printed>>
  BY DEF webhookVars
<1>2. OneRuns /\ (\A t \in Setups : PointsAtFirst(t) /\ NoKeyYet(t)) /\ KeysKnown /\ OneEach
  BY DEF KeysInv
<1>3. OneRuns'
  BY <1>2 DEF OneRuns
<1>4. OneEach'
  BY <1>1, <1>2 DEF OneEach, Positions
<1>5. ASSUME NEW m \in Merchants, NEW key, StandardHas(m, key)
      PROVE  StandardHas(m, key)'
  BY <1>1, <1>5 DEF StandardHas, FindWebhook, Positions
<1>6. KeysKnown'
  <2> SUFFICES ASSUME NEW m \in Merchants
               PROVE  /\ printed'[m] # NoValue => StandardHas(m, printed[m])'
                      /\ ConfiguredKeys'[m] # NoValue => StandardHas(m, ConfiguredKeys[m])'
    BY DEF KeysKnown
  <2>1. PICK old, new : old = printed[m] /\ new = ConfiguredKeys'[m]
    OBVIOUS
  <2>2. old # NoValue => StandardHas(m, old)'
    BY <2>1, <1>2, <1>5 DEF KeysKnown
  <2>3. new # NoValue => StandardHas(m, new)'
    BY <2>1, <1>2, <1>5 DEF KeysKnown
  <2>4. printed'[m] = old
    BY <2>1, <1>1
  <2> QED
    BY <2>1, <2>2, <2>3, <2>4 DEF StandardHas
<1>7. ASSUME NEW t \in Setups
      PROVE  PointsAtFirst(t)' /\ NoKeyYet(t)'
  <2>1. PointsAtFirst(t) /\ NoKeyYet(t)
    BY <1>2
  <2>2. PointsAtFirst(t)'
    <3>1. PICK m, kind : m = Task(t).merchant /\ kind = Task(t).kind
      OBVIOUS
    <3>2. /\ FindWebhook(m, kind)' = FindWebhook(m, kind)
          /\ FindWebhook(m, "standard")' = FindWebhook(m, "standard")
      BY <1>1 DEF FindWebhook, Positions
    <3>3. Task(t)'.merchant = m /\ Task(t)'.kind = kind
      BY <3>1, <1>1 DEF Task
    <3> QED
      BY <2>1, <1>1, <3>1, <3>2, <3>3 DEF PointsAtFirst
  <2>3. Remaining(t)' = Remaining(t)
    BY <1>1 DEF Remaining
  <2>4. NoKeyYet(t)'
    <3> SUFFICES ASSUME NEW m \in Merchants, TaskWith("hmac", m, NoValue) \in Remaining(t)'
                 PROVE  printed'[m] = NoValue /\ ConfiguredKeys'[m] = NoValue
      BY DEF NoKeyYet
    <3>1. printed[m] = NoValue /\ ConfiguredKeys[m] = NoValue
      BY <2>1, <2>3 DEF NoKeyYet
    <3> QED
      BY <3>1, <1>1
  <2> QED
    BY <2>2, <2>4
<1> QED
  BY <1>3, <1>4, <1>6, <1>7

LEMMA SyncsKeepRunning ==
    ASSUME Drafts, NEW s \in Setups, NEW r \in Resources, SyncsAt(s, r), NEW t \in Setups,
           Running(t)'
    PROVE  Running(t)
<1>1. /\ CanSync(s, r)
      /\ UNCHANGED <<registrations, module>>
      /\ \A q \in Resources : t # s => syncs'[t][q] = syncs[t][q]
  BY SyncSteps DEF webhookVars
<1>2. CASE t = s
  BY <1>1, <1>2 DEF Running
<1>3. CASE t # s
  BY <1>1, <1>3 DEF Running, CanSync
<1> QED
  BY <1>2, <1>3

LEMMA NextKeepsOneEach ==
    TypeInv /\ TypeInv' /\ Drafts /\ KeysInv /\ [Next]_vars => KeysInv'
<1> SUFFICES ASSUME TypeInv, TypeInv', Drafts, KeysInv, [Next]_vars
             PROVE  KeysInv'
  OBVIOUS
<1>1. confused' => KeysInv'
  BY DEF KeysInv
<1>2. CASE \E s \in Setups : Start(s)
  BY <1>1, <1>2, StartKeepsOneEach
<1>3. CASE \E s \in Setups : Registers(s)
  BY <1>1, <1>3, RegistersKeepsOneEach
<1>4. CASE \E s \in Setups, r \in Resources : SyncsAt(s, r)
  <2>1. PICK s \in Setups, r \in Resources : SyncsAt(s, r)
    BY <1>4
  <2>2. UNCHANGED <<webhookVars, config, confused>>
    BY <2>1, SyncSteps
  <2>3. ConfiguredKeys' = ConfiguredKeys
    BY <2>2 DEF ConfiguredKeys
  <2> QED
    BY <2>1, <2>2, <2>3, SyncsKeepRunning, OthersKeepOneEach
<1>5. CASE (\E m \in Merchants : TakeOverKey(m)) \/ Reconfigure
  <2>1. /\ \A m \in Merchants : ConfiguredKeys'[m] # ConfiguredKeys[m] =>
              TakeOverKey(m) /\ ConfiguredKeys'[m] = printed[m]
        /\ UNCHANGED <<webhookVars, resources, syncs, module, loaded, disturbed, refused,
                         confused>>
    BY <1>5, NewConfiguration
  <2>2. \A t \in Setups : Running(t)' => Running(t)
    BY <2>1, RunningStays DEF webhookVars
  <2>3. \A m \in Merchants : TakeOverKey(m) => \A t \in Setups : ~Running(t)
    BY DEF TakeOverKey
  <2> QED
    BY <2>1, <2>2, <2>3, OthersKeepOneEach
<1>6. CASE UNCHANGED vars
  <2>1. UNCHANGED <<webhookVars, registrations, syncs, module, config, confused>>
    BY <1>6 DEF vars, configVars, webhookVars
  <2>2. ConfiguredKeys' = ConfiguredKeys
    BY <2>1 DEF ConfiguredKeys
  <2>3. \A t \in Setups : Running(t)' => Running(t)
    BY <2>1, RunningStays
  <2> QED
    BY <2>1, <2>2, <2>3, OthersKeepOneEach
<1> QED
  BY <1>2, <1>3, <1>4, <1>5, <1>6, NextSteps

LEMMA InitOneEach == Init => KeysInv
<1> SUFFICES ASSUME Init
             PROVE  KeysInv
  OBVIOUS
<1>1. /\ config \in Configurations
      /\ printed = [m \in Merchants |-> NoValue]
      /\ \A s \in Setups : registrations[s].pc = "idle" /\ registrations[s].todo = <<>>
      /\ \A s \in Setups, r \in Resources : syncs[s][r].pc = "idle"
      /\ \A m \in Merchants : webhooks[m] \in InitialWebhooks \cup {<<>>}
  BY DEF Init
<1>2. OneRuns
  BY <1>1 DEF OneRuns, Running, CanSync
<1>3. \A s \in Setups : PointsAtFirst(s)
  BY <1>1 DEF PointsAtFirst
<1>4. \A m \in Merchants : printed[m] = NoValue /\ ConfiguredKeys[m] = NoValue
  BY <1>1, ConfigurationsAssumption DEF ConfiguredKeys
<1>5. KeysKnown /\ \A s \in Setups : NoKeyYet(s)
  BY <1>4 DEF KeysKnown, NoKeyYet
<1>6. OneEach
  <2> SUFFICES ASSUME NEW m \in Merchants, NEW kind,
                      NEW i \in Positions(m, kind), NEW j \in Positions(m, kind)
               PROVE  i = j
    BY DEF OneEach
  <2>1. /\ i \in DOMAIN webhooks[m] /\ webhooks[m][i].kind = kind
        /\ j \in DOMAIN webhooks[m] /\ webhooks[m][j].kind = kind
    BY DEF Positions
  <2>2. PICK hooks : hooks = webhooks[m]
    OBVIOUS
  <2>3. hooks \in InitialWebhooks \/ hooks = <<>>
    BY <2>2, <1>1
  <2> QED
    BY <2>1, <2>2, <2>3, WebhooksAssumption
<1> QED
  BY <1>2, <1>3, <1>5, <1>6 DEF KeysInv

LEMMA OneAtATime == Spec => [](TypeInv /\ KeysInv)
<1>1. Init => TypeInv /\ Drafts /\ KeysInv
  BY InitTypes, InitDrafts, InitOneEach
<1>2. TypeInv /\ Drafts /\ KeysInv /\ [Next]_vars => (TypeInv /\ Drafts /\ KeysInv)'
  <2>1. TypeInv /\ Drafts /\ [Next]_vars => TypeInv' /\ Drafts'
    BY NextKeepsTypes, NextKeepsDrafts
  <2> QED
    BY <2>1, NextKeepsOneEach
<1> QED
  BY <1>1, <1>2, PTL DEF Spec

\* Setups that neither overlap nor have a list refused register at most one
\* webhook of a kind with each merchant account, however often they fail,
\* lose an answer and are repeated.
THEOREM OneWebhookOfEach == Spec => []OneWebhookEach
<1>1. KeysInv => OneWebhookEach
  BY DEF KeysInv, OneEach, OneWebhookEach
<1> QED
  BY <1>1, OneAtATime, PTL

\* Such setups never replace a key that the operator has taken over, with
\* which Adyen signs what the standard webhook sends.
THEOREM TakenOverKeyStays == Spec => []ConfiguredKeyIsCurrent
<1>1. KeysInv => ConfiguredKeyIsCurrent
  BY DEF KeysInv, KeysKnown, StandardHas, ConfiguredKeyIsCurrent
<1> QED
  BY <1>1, OneAtATime, PTL

----------------------------------------------------------------------------
(* Active webhooks, and keys to sign with *)

IsActive(m) == \A i \in Positions(m, "standard") : webhooks[m][i].active

\* Setups create active webhooks: only the first one can be inactive.
InactiveIsFirst ==
    \A m \in Merchants : \A i, j \in Positions(m, "standard") :
        ~webhooks[m][i].active => i <= j

\* A setup activates the first one; one whose list was not refused creates a
\* webhook only if there is none to activate.
WritesFirst(s) ==
    registrations[s].pc = "write" /\ Task(s).kind = "standard" =>
        \/ /\ registrations[s].found = 0
           /\ s \in refused \/ IsActive(Task(s).merchant)
        \/ /\ registrations[s].found # 0
           /\ \A j \in Positions(Task(s).merchant, "standard") : registrations[s].found <= j

ActiveInv == InactiveIsFirst /\ \A s \in Setups : WritesFirst(s)

IsSigned(m) == \E i \in Positions(m, "standard") : webhooks[m][i].hmacKey # NoValue

\* The operator has a key, or a setup has been given it.
KeyIsHeld(m) ==
    \/ printed[m] # NoValue
    \/ ConfiguredKeys[m] # NoValue
    \/ \E s \in Setups : /\ registrations[s].pc # "idle"
                         /\ loaded[s].adyen[m].secretHmacKey # NoValue

SignedInv == \A m \in Merchants : KeyIsHeld(m) => IsSigned(m)

\* No request makes a webhook inactive, and a new one is active and last.
LEMMA ActiveStays ==
    ASSUME TypeInv, NEW s \in Setups, HooksChange(s), NEW m \in Merchants
    PROVE  /\ \A i \in Positions(m, "standard") :
                webhooks[m][i].active => webhooks'[m][i].active
           /\ \A i \in Positions(m, "standard")' \ Positions(m, "standard") :
                /\ webhooks'[m][i].active
                /\ \A j \in Positions(m, "standard") : j <= i
<1>1. /\ \A list : IsList(list) => DOMAIN list = 1..Len(list) /\ Len(list) \in Nat
      /\ IsList(webhooks[m])
  BY ListIsSeq DEF IsList, TypeInv, WebhookShapes
<1>2. ASSUME NEW i \in Positions(m, "standard"), webhooks[m][i].active
      PROVE  webhooks'[m][i].active
  <2> DEFINE old == webhooks[m][i]
             hook == webhooks'[m][i]
             a == Task(s).authentication
             signed == [old EXCEPT !.hmacKey = FreshKey(ConfiguredKeys)]
  <2>1. i \in DOMAIN webhooks[m] /\ i \in DOMAIN webhooks'[m] /\ IsWebhook(old)
    BY HooksAfter DEF Positions, TypeInv, WebhookShapes
  <2>2. hook = old \/ hook = Activated(old, a) \/ hook = signed
    BY <2>1, HooksAfter
  <2>3. signed.active = old.active /\ Activated(old, a).active
    BY <2>1 DEF IsWebhook, Activated
  <2> HIDE DEF old, hook, signed, a
  <2>4. old.active => hook.active
    BY <2>2, <2>3
  <2> QED
    BY <2>4, <1>2 DEF old, hook
<1>3. ASSUME NEW i \in Positions(m, "standard")' \ Positions(m, "standard")
      PROVE  webhooks'[m][i].active /\ \A j \in Positions(m, "standard") : j <= i
  <2>1. i = Len(webhooks[m]) + 1 /\ i \in DOMAIN webhooks'[m]
    BY PositionsStay DEF Positions
  <2>2. i \notin DOMAIN webhooks[m]
    BY <2>1, <1>1
  <2> DEFINE new == [kind |-> Task(s).kind, active |-> TRUE, hmacKey |-> NoValue,
                     authentication |-> Task(s).authentication]
  <2>3. webhooks'[m][i] = new
    <3>1. \A j \in DOMAIN webhooks'[m] : j \in DOMAIN webhooks[m] \/ webhooks'[m][j] = new
      BY HooksAfter
    <3> QED
      BY <2>1, <2>2, <3>1
  <2>4. webhooks'[m][i].active
    BY <2>3
  <2>5. \A j \in Positions(m, "standard") : j \in 1..Len(webhooks[m])
    BY <1>1 DEF Positions
  <2> QED
    BY <2>1, <2>4, <2>5, <1>1
<1> QED
  BY <1>2, <1>3

LEMMA FirstsStay ==
    ASSUME TypeInv, NEW s \in Setups, HooksChange(s), NEW m \in Merchants
    PROVE  /\ IsActive(m) => IsActive(m)'
           /\ \A i \in Positions(m, "standard") :
                (\A j \in Positions(m, "standard") : i <= j) =>
                    \A j \in Positions(m, "standard")' : i <= j
<1>1. Positions(m, "standard") \subseteq Nat
  BY FirstFound
<1> QED
  BY <1>1, ActiveStays DEF IsActive

LEMMA RegistersKeepsActive ==
    ASSUME TypeInv, ActiveInv, NEW s \in Setups, Registers(s)
    PROVE  ActiveInv'
<1>1. /\ registrations[s].pc \in {"list", "write", "hmac"}
      /\ IsBusy(s)
      /\ HooksChange(s)
      /\ UNCHANGED <<module, config, loaded>>
      /\ \/ FailRegistration(s)
         \/ MovesOn(s)
         \/ /\ registrations[s].pc = "list" /\ webhooks' = webhooks
            /\ \E found \in {0, FindWebhook(Task(s).merchant, Task(s).kind)} :
                   SetFound(s, found)
  BY RegistrationSteps
<1>2. \A t \in Setups \ {s} : registrations'[t] = registrations[t]
  BY <1>1, FailedPlace DEF TypeInv, Shapes, MovesOn, GoOnWith, SetFound
<1>3. /\ refused \subseteq refused'
      /\ \A t \in Setups \ {s} : t \in refused' <=> t \in refused
  BY LogAfter
<1>4. InactiveIsFirst'
  <2> SUFFICES ASSUME NEW m \in Merchants, NEW i \in Positions(m, "standard")',
                      NEW j \in Positions(m, "standard")', ~webhooks'[m][i].active
               PROVE  i <= j
    BY DEF InactiveIsFirst
  <2>1. i \in Positions(m, "standard") /\ ~webhooks[m][i].active
    BY <1>1, ActiveStays
  <2>2. \A k \in Positions(m, "standard") : i <= k
    BY <2>1 DEF ActiveInv, InactiveIsFirst
  <2> QED
    BY <2>1, <2>2, <1>1, FirstsStay
<1>5. ASSUME NEW t \in Setups \ {s}
      PROVE  WritesFirst(t)'
  <2> SUFFICES ASSUME registrations'[t].pc = "write", Task(t)'.kind = "standard"
               PROVE  \/ /\ registrations'[t].found = 0
                         /\ t \in refused' \/ IsActive(Task(t).merchant)'
                      \/ /\ registrations'[t].found # 0
                         /\ \A j \in Positions(Task(t).merchant, "standard")' :
                               registrations'[t].found <= j
    BY DEF WritesFirst
  <2>1. PICK m, k : m = Task(t).merchant /\ k = registrations[t].found
    OBVIOUS
  <2>2. registrations'[t] = registrations[t] /\ Task(t)' = Task(t)
    BY <1>2 DEF Task
  <2>3. IsBusy(t) /\ k \in {0} \cup Positions(m, "standard")
    BY <2>1, <2>2 DEF TypeInv, Place
  <2>4. m \in Merchants
    BY <2>1, <2>3, HasTask
  <2>5. \/ k = 0 /\ (t \in refused \/ IsActive(m))
        \/ k # 0 /\ \A j \in Positions(m, "standard") : k <= j
    BY <2>1, <2>2 DEF ActiveInv, WritesFirst
  <2>6. \/ k = 0 /\ (t \in refused' \/ IsActive(m)')
        \/ k # 0 /\ \A j \in Positions(m, "standard")' : k <= j
    BY <2>3, <2>4, <2>5, <1>1, <1>3, FirstsStay
  <2> QED
    BY <2>1, <2>2, <2>6 DEF IsActive
<1>6. WritesFirst(s)'
  <2>1. CASE registrations'[s].pc # "write"
    BY <2>1 DEF WritesFirst
  <2>2. CASE registrations'[s].pc = "write"
    <3>1. ~FailRegistration(s) /\ ~MovesOn(s)
      BY <2>2, <1>1, FailedPlace, NextPlace
    <3>2. PICK found \in {0, FindWebhook(Task(s).merchant, Task(s).kind)} :
            SetFound(s, found)
      BY <3>1, <1>1
    <3>3. registrations[s].pc = "list" /\ webhooks' = webhooks
      BY <3>1, <1>1
    <3>4. PICK m, kind : m = Task(s).merchant /\ kind = Task(s).kind
      OBVIOUS
    <3>5. /\ registrations'[s].found = found
          /\ Task(s)' = Task(s)
      BY <3>2, <3>3, <1>1, FoundPlace DEF Task
    <3>6. m \in Merchants
      BY <3>4, <1>1, HasTask
    <3>7. CASE RefuseList(s)
      <4>1. SetFound(s, 0) /\ s \in refused'
        BY <3>7 DEF RefuseList, ListIsRefused
      <4>2. registrations'[s].found = 0
        BY <4>1, <3>3, <1>1, FoundPlace
      <4> QED
        BY <4>1, <4>2 DEF WritesFirst
    <3>8. CASE ~RefuseList(s)
      <4>1. ListWebhooks(s)
        BY <3>1, <3>3, <3>8 DEF Registers, Register, RefuseActivation, RefuseHmac, Interrupt,
                          RegistrationStep, CreateWebhook, UpdateWebhook, ActivateWebhook,
                          GenerateHmac, ActivationIsRefused, HmacIsRefused,
                          RegistrationFails, At
      <4>2. \/ SetFound(s, FindWebhook(m, kind))
            \/ GoOnWith(s, FindWebhook(m, kind))
        BY <4>1, <3>4 DEF ListWebhooks
      <4>3. ~GoOnWith(s, FindWebhook(m, kind))
        <5> SUFFICES ASSUME GoOnWith(s, FindWebhook(m, kind))
                     PROVE  registrations'[s].pc # "write"
          BY <2>2
        <5>1. registrations'[s].pc = FirstStepOf(Tail(registrations[s].todo))
          BY DEF GoOnWith, TypeInv, Shapes
        <5> QED
          BY <5>1 DEF FirstStepOf
      <4>4. registrations'[s].found = FindWebhook(m, kind)
        BY <4>2, <4>3, <3>3, <3>4, <1>1, FoundPlace
      <4>5. \/ FindWebhook(m, kind) = 0 /\ Positions(m, kind) = {}
            \/ /\ FindWebhook(m, kind) # 0
               /\ \A j \in Positions(m, kind) : FindWebhook(m, kind) <= j
        BY <3>6, FirstFound
      <4>6. Positions(m, kind)' = Positions(m, kind)
        BY <3>3 DEF Positions
      <4>7. PICK k : k = FindWebhook(m, kind)
        OBVIOUS
      <4>8. kind = "standard" =>
              \/ k = 0 /\ IsActive(m)'
              \/ k # 0 /\ \A j \in Positions(m, "standard")' : k <= j
        BY <4>5, <4>6, <4>7 DEF IsActive
      <4>9. Task(s)'.kind = kind /\ Task(s)'.merchant = m /\ registrations'[s].found = k
        BY <3>4, <3>5, <4>4, <4>7
      <4> QED
        BY <4>8, <4>9 DEF WritesFirst, IsActive
    <3> QED
      BY <3>7, <3>8
  <2> QED
    BY <2>1, <2>2
<1> QED
  BY <1>4, <1>5, <1>6 DEF ActiveInv

LEMMA NextKeepsActive ==
    TypeInv /\ Drafts /\ ActiveInv /\ [Next]_vars => ActiveInv'
<1> SUFFICES ASSUME TypeInv, Drafts, ActiveInv, [Next]_vars
             PROVE  ActiveInv'
  OBVIOUS
<1>1. CASE \E s \in Setups : Start(s)
  <2>1. PICK s \in Setups : Start(s)
    BY <1>1
  <2>2. webhooks' = webhooks /\ refused' = refused \ {s}
    BY <2>1 DEF Start
  <2>3. registrations'[s].pc # "write"
    BY <2>1, Started
  <2>4. \A t \in Setups \ {s} : registrations'[t] = registrations[t]
    BY <2>1, Started
  <2>5. \A m : IsActive(m)' <=> IsActive(m)
    BY <2>2 DEF IsActive, Positions
  <2>6. \A t \in Setups \ {s} : WritesFirst(t)'
    BY <2>2, <2>4, <2>5 DEF ActiveInv, WritesFirst, Task, Positions
  <2>7. WritesFirst(s)'
    BY <2>3 DEF WritesFirst
  <2>8. InactiveIsFirst'
    BY <2>2 DEF ActiveInv, InactiveIsFirst, Positions
  <2> QED
    BY <2>6, <2>7, <2>8 DEF ActiveInv
<1>2. CASE \E s \in Setups : Registers(s)
  BY <1>2, RegistersKeepsActive
<1>3. ASSUME UNCHANGED <<webhooks, registrations, refused>>
      PROVE  ActiveInv'
  BY <1>3 DEF ActiveInv, InactiveIsFirst, WritesFirst, IsActive, Task, Positions
<1>4. CASE \E s \in Setups, r \in Resources : SyncsAt(s, r)
  BY <1>3, <1>4, SyncSteps DEF webhookVars
<1>5. CASE (\E m \in Merchants : TakeOverKey(m)) \/ Reconfigure
  BY <1>3, <1>5, NewConfiguration DEF webhookVars
<1>6. CASE UNCHANGED vars
  BY <1>3, <1>6 DEF vars, webhookVars
<1> QED
  BY <1>1, <1>2, <1>4, <1>5, <1>6, NextSteps

\* A webhook with a key keeps one.
LEMMA SignedStays ==
    ASSUME KeysNeverRunOut, TypeInv, NEW s \in Setups, HooksChange(s),
           NEW m \in Merchants, IsSigned(m)
    PROVE  IsSigned(m)'
<1>1. PICK i \in Positions(m, "standard") : webhooks[m][i].hmacKey # NoValue
  BY DEF IsSigned
<1> DEFINE old == webhooks[m][i]
           hook == webhooks'[m][i]
           a == Task(s).authentication
           key == FreshKey(ConfiguredKeys)
           signed == [old EXCEPT !.hmacKey = key]
<1>2. i \in DOMAIN webhooks[m] /\ i \in DOMAIN webhooks'[m] /\ IsWebhook(old)
  BY HooksAfter DEF Positions, TypeInv, WebhookShapes
<1>3. hook = old \/ hook = Activated(old, a) \/ hook = signed
  BY <1>2, HooksAfter
<1>4. key # NoValue
  BY FreshKeyIsKey, KeysAssumption
<1>5. signed.hmacKey = key /\ Activated(old, a).hmacKey = old.hmacKey
  BY <1>2 DEF IsWebhook, Activated
<1> HIDE DEF old, hook, signed, a, key
<1>6. hook.hmacKey # NoValue
  BY <1>1, <1>3, <1>4, <1>5 DEF old
<1>7. i \in Positions(m, "standard")'
  BY PositionsStay
<1> QED
  BY <1>6, <1>7 DEF hook, IsSigned

\* The webhook that a key was generated for.
LEMMA GeneratedIsSigned ==
    ASSUME KeysNeverRunOut, TypeInv, NEW s \in Setups, Registers(s),
           GenerateHmac(s, ConfiguredKeys), NEW m, m = Task(s).merchant
    PROVE  IsSigned(m)'
<1>1. PICK k, key : k = registrations[s].found /\ key = FreshKey(ConfiguredKeys)
  OBVIOUS
<1>2. IsBusy(s) /\ HooksChange(s) /\ m \in Merchants
  BY RegistrationSteps, HasTask
<1>3. /\ At(s, "hmac")
      /\ webhooks' = [webhooks EXCEPT ![m][k].hmacKey = key]
  BY <1>1 DEF GenerateHmac, SetHmacKey
<1>4. k \in Positions(m, "standard")
  BY <1>1, <1>3 DEF At, TypeInv, Place
<1>5. k \in DOMAIN webhooks[m] /\ k \in Positions(m, "standard")'
  <2>1. k \in DOMAIN webhooks[m]
    BY <1>4 DEF Positions
  <2>2. Positions(m, "standard") \subseteq Positions(m, "standard")'
    BY <1>2, PositionsStay
  <2> QED
    BY <1>4, <2>1, <2>2
<1>6. webhooks'[m][k].hmacKey = key
  <2>1. IsWebhook(webhooks[m][k])
    BY <1>2, <1>5 DEF TypeInv, WebhookShapes
  <2>2. webhooks'[m] = [webhooks[m] EXCEPT ![k] = [webhooks[m][k] EXCEPT !.hmacKey = key]]
    BY <1>2, <1>3 DEF TypeInv, WebhookShapes
  <2>3. webhooks'[m][k] = [webhooks[m][k] EXCEPT !.hmacKey = key]
    BY <1>5, <2>2
  <2> QED
    BY <2>1, <2>3 DEF IsWebhook
<1>7. key # NoValue
  BY <1>1, FreshKeyIsKey, KeysAssumption
<1> QED
  BY <1>5, <1>6, <1>7 DEF IsSigned

LEMMA RegistersKeepsSigned ==
    ASSUME KeysNeverRunOut, TypeInv, SignedInv, NEW s \in Setups, Registers(s)
    PROVE  SignedInv'
<1>1. /\ registrations[s].pc \in {"list", "write", "hmac"}
      /\ HooksChange(s)
      /\ UNCHANGED <<module, config, loaded>>
      /\ \/ FailRegistration(s)
         \/ MovesOn(s)
         \/ \E found : SetFound(s, found)
  BY RegistrationSteps
<1>2. \A t \in Setups \ {s} : registrations'[t] = registrations[t]
  BY <1>1, FailedPlace DEF TypeInv, Shapes, MovesOn, GoOnWith, SetFound
<1>3. \A t \in Setups : registrations'[t].pc # "idle" => registrations[t].pc # "idle"
  BY <1>1, <1>2
<1>4. ConfiguredKeys' = ConfiguredKeys
  BY <1>1 DEF ConfiguredKeys
<1>5. ASSUME NEW m \in Merchants, KeyIsHeld(m)'
      PROVE  IsSigned(m)'
  <2>1. CASE printed'[m] = printed[m]
    <3>1. KeyIsHeld(m)
      BY <2>1, <1>1, <1>3, <1>4, <1>5 DEF KeyIsHeld
    <3> QED
      BY <3>1, <1>1, SignedStays DEF SignedInv
  <2>2. CASE printed'[m] # printed[m]
    <3>1. GenerateHmac(s, ConfiguredKeys)
      BY <2>2, LogAfter
    <3>2. m = Task(s).merchant
      BY <2>2, <3>1 DEF GenerateHmac, TypeInv, WebhookShapes
    <3> QED
      BY <3>1, <3>2, GeneratedIsSigned
  <2> QED
    BY <2>1, <2>2
<1> QED
  BY <1>5 DEF SignedInv

LEMMA NextKeepsSigned ==
    KeysNeverRunOut /\ TypeInv /\ Drafts /\ SignedInv /\ [Next]_vars => SignedInv'
<1> SUFFICES ASSUME KeysNeverRunOut, TypeInv, Drafts, SignedInv, [Next]_vars
             PROVE  SignedInv'
  OBVIOUS
<1>1. ASSUME webhooks' = webhooks,
             \A m \in Merchants : KeyIsHeld(m)' => KeyIsHeld(m)
      PROVE  SignedInv'
  BY <1>1 DEF SignedInv, IsSigned, Positions
<1>2. CASE \E s \in Setups : Start(s)
  <2>1. PICK s \in Setups : Start(s)
    BY <1>2
  <2>2. /\ webhooks' = webhooks /\ config' = config
        /\ printed' = [m \in Merchants |-> NoValue]
    BY <2>1 DEF Start
  <2>3. /\ loaded'[s] = config
        /\ \A t \in Setups \ {s} : loaded'[t] = loaded[t] /\ registrations'[t] = registrations[t]
    BY <2>1, Started
  <2>4. \A m \in Merchants : /\ printed'[m] = NoValue
                             /\ ConfiguredKeys'[m] = ConfiguredKeys[m]
                             /\ ConfiguredKeys[m] = config.adyen[m].secretHmacKey
    BY <2>2 DEF ConfiguredKeys
  <2>5. \A m \in Merchants : KeyIsHeld(m)' => KeyIsHeld(m)
    BY <2>3, <2>4 DEF KeyIsHeld
  <2> QED
    BY <2>2, <2>5, <1>1
<1>3. CASE \E s \in Setups : Registers(s)
  BY <1>3, RegistersKeepsSigned
<1>4. ASSUME UNCHANGED <<webhookVars, config, loaded>>
      PROVE  SignedInv'
  <2>1. ConfiguredKeys' = ConfiguredKeys
    BY <1>4 DEF ConfiguredKeys
  <2> QED
    BY <2>1, <1>1, <1>4 DEF KeyIsHeld, webhookVars
<1>5. CASE \E s \in Setups, r \in Resources : SyncsAt(s, r)
  BY <1>4, <1>5, SyncSteps
<1>6. CASE (\E m \in Merchants : TakeOverKey(m)) \/ Reconfigure
  <2>1. /\ \A m \in Merchants : ConfiguredKeys'[m] # ConfiguredKeys[m] =>
              ConfiguredKeys'[m] = printed[m]
        /\ UNCHANGED <<webhookVars, loaded>>
    BY <1>6, NewConfiguration
  <2> QED
    BY <2>1, <1>1 DEF KeyIsHeld, webhookVars
<1>7. CASE UNCHANGED vars
  BY <1>4, <1>7 DEF vars, configVars
<1> QED
  BY <1>2, <1>3, <1>5, <1>6, <1>7, NextSteps

LEMMA InitActive == Init => ActiveInv /\ SignedInv
<1> SUFFICES ASSUME Init
             PROVE  ActiveInv /\ SignedInv
  OBVIOUS
<1>1. /\ config \in Configurations
      /\ printed = [m \in Merchants |-> NoValue]
      /\ \A s \in Setups : registrations[s].pc = "idle"
  BY DEF Init
<1>2. \A m \in Merchants : printed[m] = NoValue /\ ConfiguredKeys[m] = NoValue
  BY <1>1, ConfigurationsAssumption DEF ConfiguredKeys
<1>3. SignedInv
  BY <1>1, <1>2 DEF SignedInv, KeyIsHeld
<1>4. InactiveIsFirst
  <2> SUFFICES ASSUME NEW m \in Merchants, NEW i \in Positions(m, "standard"),
                      NEW j \in Positions(m, "standard")
               PROVE  i <= j
    BY DEF InactiveIsFirst
  <2>1. OneEach
    BY InitOneEach DEF KeysInv, Init
  <2>2. i = j
    BY <2>1 DEF OneEach
  <2>3. i \in Nat
    BY InitTypes, FirstFound
  <2> QED
    BY <2>2, <2>3
<1>5. \A s \in Setups : WritesFirst(s)
  BY <1>1 DEF WritesFirst
<1> QED
  BY <1>3, <1>4, <1>5 DEF ActiveInv

----------------------------------------------------------------------------
(* What a setup has done stays done *)

\* The standard webhooks are active, one has a key, or a pending one is
\* active with the credentials of the task.
Achieved(task) ==
    CASE task.kind = "standard" -> /\ IsActive(task.merchant)
                                   /\ Positions(task.merchant, "standard") # {}
      [] task.kind = "hmac" -> IsSigned(task.merchant)
      [] OTHER -> \E i \in Positions(task.merchant, task.kind) :
                     /\ webhooks[task.merchant][i].active
                     /\ webhooks[task.merchant][i].authentication = task.authentication

Undisturbed(s) == s \notin disturbed \cup refused /\ registrations[s].pc # "idle"

\* Those that run work with the same configuration.
OthersAgree(s) == \A t \in Setups \ {s} : Running(t) => loaded[t] = loaded[s]

TasksDone(s) ==
    module = "notification" /\ registrations[s].pc # "failed" =>
        \A task \in Tasks(loaded[s]) \ Remaining(s) : Achieved(task)

SyncsDone(s) ==
    \A r \in Resources :
        syncs[s][r].pc = "done" => Sync!IsInSync(r, DraftOf(r, loaded[s]))

ProgressInv ==
    \A s \in Setups : Undisturbed(s) => OthersAgree(s) /\ TasksDone(s) /\ SyncsDone(s)

LEMMA AchievedUnchanged ==
    ASSUME webhooks' = webhooks, NEW task
    PROVE  Achieved(task)' <=> Achieved(task)
<1>1. \A m, kind : Positions(m, kind)' = Positions(m, kind)
  BY DEF Positions
<1>2. \A m : (IsActive(m)' <=> IsActive(m)) /\ (IsSigned(m)' <=> IsSigned(m))
  BY <1>1 DEF IsActive, IsSigned
<1>3. CASE task.kind = "standard"
  BY <1>1, <1>2, <1>3 DEF Achieved
<1>4. CASE task.kind = "hmac"
  BY <1>2, <1>4 DEF Achieved
<1>5. CASE task.kind \notin {"standard", "hmac"}
  BY <1>1, <1>5 DEF Achieved
<1> QED
  BY <1>3, <1>4, <1>5

LEMMA TasksStayDone ==
    ASSUME NEW t, UNCHANGED <<webhooks, module>>, loaded'[t] = loaded[t],
           registrations'[t] = registrations[t], TasksDone(t)
    PROVE  TasksDone(t)'
<1>1. Remaining(t)' = Remaining(t)
  BY DEF Remaining
<1>2. PICK conf : conf = loaded[t]
  OBVIOUS
<1>3. \A task : Achieved(task)' <=> Achieved(task)
  BY AchievedUnchanged
<1> SUFFICES ASSUME module = "notification", registrations[t].pc # "failed",
                    NEW task \in Tasks(conf) \ Remaining(t)
             PROVE  Achieved(task)'
  BY <1>1, <1>2 DEF TasksDone
<1> QED
  BY <1>2, <1>3 DEF TasksDone

\* A request for the same configuration undoes nothing.
LEMMA AchievedStays ==
    ASSUME KeysNeverRunOut, TypeInv, NEW s \in Setups, IsBusy(s), HooksChange(s),
           NEW task \in Tasks(loaded[s]), Achieved(task)
    PROVE  Achieved(task)'
<1>1. PICK m, kind, a :
        m = task.merchant /\ kind = task.kind /\ a = task.authentication
  OBVIOUS
<1>2. m \in Merchants
  BY <1>1, TaskFields
<1>3. CASE kind = "hmac"
  <2>1. IsSigned(m)'
    BY <1>1, <1>2, <1>3, SignedStays DEF Achieved
  <2> QED
    BY <1>1, <1>3, <2>1 DEF Achieved, IsSigned, Positions
<1>4. CASE kind = "standard"
  <2>1. IsActive(m) /\ Positions(m, "standard") # {}
    BY <1>1, <1>4 DEF Achieved
  <2>2. IsActive(m)' /\ Positions(m, "standard")' # {}
    BY <1>2, <2>1, FirstsStay, PositionsStay
  <2> QED
    BY <1>1, <1>4, <2>2 DEF Achieved, IsActive, Positions
<1>5. CASE kind \notin {"hmac", "standard"}
  <2>1. PICK i \in Positions(m, kind) :
          /\ webhooks[m][i].active
          /\ kind = "pending" => webhooks[m][i].authentication = a
    BY <1>1, <1>5 DEF Achieved
  <2>2. Positions(m, kind) \subseteq Positions(m, kind)'
    BY <1>2, PositionsStay
  <2> DEFINE old == webhooks[m][i]
             hook == webhooks'[m][i]
             mine == Task(s).authentication
             signed == [old EXCEPT !.hmacKey = FreshKey(ConfiguredKeys)]
             activated == Activated(old, mine)
             written == /\ At(s, "write") /\ m = Task(s).merchant
                        /\ i = registrations[s].found
  <2>3. i \in DOMAIN webhooks[m] /\ old.kind = kind
    BY DEF Positions
  <2>4. IsWebhook(old)
    BY <1>2, <2>3 DEF TypeInv, WebhookShapes
  <2>5. i \in DOMAIN webhooks'[m]
    BY <1>2, <2>3, HooksAfter
  <2>6. hook = old \/ (written /\ hook = activated) \/ hook = signed
    BY <1>2, <2>3, <2>5, HooksAfter
  <2>7. signed.active = old.active /\ signed.authentication = old.authentication
    BY <2>4 DEF IsWebhook
  <2>8. /\ activated.active = TRUE
        /\ activated.authentication = IF mine = NoValue THEN old.authentication ELSE mine
    BY <2>4 DEF IsWebhook, Activated
  <2>9. written /\ kind = "pending" => mine = a
    <3> SUFFICES ASSUME written, kind = "pending"
                 PROVE  mine = a
      OBVIOUS
    <3>1. Task(s).kind = kind
      BY <2>1, <2>3, <1>2, FirstFound DEF TypeInv, Place, At, Positions
    <3>2. Task(s) \in Tasks(loaded[s])
      BY HasTask
    <3>3. mine = loaded[s].adyen[m].authentication
      BY <3>1, <3>2, TaskFields
    <3>4. a = loaded[s].adyen[m].authentication
      BY <1>1, TaskFields
    <3> QED
      BY <3>3, <3>4
  <2> HIDE DEF old, hook, mine, signed, activated, written
  <2>10. old.active /\ (kind = "pending" => old.authentication = a)
    BY <2>1 DEF old
  <2>11. hook.active /\ (kind = "pending" => hook.authentication = a)
    BY <2>6, <2>7, <2>8, <2>9, <2>10
  <2>12. /\ webhooks'[m][i].active
         /\ kind = "pending" => webhooks'[m][i].authentication = a
    BY <2>11 DEF hook
  <2>13. kind = "pending"
    BY <1>1, <1>5, TaskFields
  <2> QED
    BY <1>1, <2>1, <2>2, <2>12, <2>13 DEF Achieved
<1> QED
  BY <1>3, <1>5, <1>4

\* A setup that goes on has done its task, unless Adyen refused a request
\* without its looking.
LEMMA TaskIsAchieved ==
    ASSUME KeysNeverRunOut, TypeInv, ActiveInv, NEW s \in Setups, Registers(s),
           s \notin refused',
           NEW task, task = Task(s)
    PROVE  \/ FailRegistration(s)
           \/ \E found : SetFound(s, found)
           \/ Achieved(task)'
<1> DEFINE Goal == \/ FailRegistration(s)
                   \/ \E found : SetFound(s, found)
                   \/ Achieved(task)'
<1> SUFFICES Goal
  OBVIOUS
<1>1. PICK m, kind, a, k : m = task.merchant /\ kind = task.kind /\ a = task.authentication
                           /\ k = registrations[s].found
  OBVIOUS
<1>2. IsBusy(s) /\ HooksChange(s) /\ Place(s)
  BY RegistrationSteps DEF TypeInv
<1>3. /\ m \in Merchants
      /\ kind # "pending" => a = NoValue
      /\ kind = "pending" => a # NoValue
      /\ kind \in {"standard", "hmac", "pending"}
  BY <1>1, <1>2, HasTask DEF HasCredentials
<1>4. ASSUME NEW i \in Positions(m, kind)', kind = "pending",
             webhooks'[m][i].active, webhooks'[m][i].authentication = a
      PROVE  Achieved(task)'
  BY <1>1, <1>4 DEF Achieved, Positions
<1>5. ASSUME kind = "standard", IsActive(m)', Positions(m, "standard")' # {}
       PROVE  Achieved(task)'
  BY <1>1, <1>5 DEF Achieved, IsActive, Positions
<1>6. ASSUME kind = "standard", NEW i \in Positions(m, "standard"),
              \A j \in Positions(m, "standard") : i <= j, webhooks'[m][i].active
       PROVE  IsActive(m)'
  <2>1. ASSUME NEW j \in Positions(m, "standard")'
        PROVE  webhooks'[m][j].active
    <3>1. CASE j \notin Positions(m, "standard")
      BY <2>1, <3>1, <1>2, <1>3, ActiveStays
    <3>2. CASE j \in Positions(m, "standard") /\ webhooks[m][j].active
      BY <3>2, <1>2, <1>3, ActiveStays
    <3>3. CASE j \in Positions(m, "standard") /\ ~webhooks[m][j].active
      <4>1. j <= i /\ i <= j
        BY <3>3, <1>3, <1>6 DEF ActiveInv, InactiveIsFirst
      <4>2. i \in Nat /\ j \in Nat
        BY <3>3, <1>3, FirstFound
      <4>3. i = j
        BY <4>1, <4>2
      <4> QED
        BY <4>3, <1>6
    <3> QED
      BY <3>1, <3>2, <3>3
  <2> QED
    BY <2>1 DEF IsActive
<1>7. refused \subseteq refused'
  BY LogAfter
<1>8. CASE ListWebhooks(s)
  <2>1. PICK found : found = FindWebhook(m, kind)
    OBVIOUS
  <2>2. /\ webhooks' = webhooks
        /\ \/ SetFound(s, found)
           \/ found # 0 /\ a = NoValue /\ webhooks[m][found].active
    BY <1>1, <1>8, <2>1 DEF ListWebhooks
  <2>3. CASE found # 0 /\ a = NoValue /\ webhooks[m][found].active
    <3>1. kind = "standard"
      BY <2>3, <1>1, <1>2, <1>3, <1>8 DEF ListWebhooks, Place, At
    <3>2. /\ found \in Positions(m, "standard")
          /\ \A j \in Positions(m, "standard") : found <= j
      BY <2>1, <2>3, <3>1, <1>3, FirstFound
    <3>3. webhooks'[m][found].active
      BY <2>2, <2>3
    <3>4. IsActive(m)'
      BY <3>1, <3>2, <3>3, <1>6
    <3>5. found \in Positions(m, "standard")'
      BY <3>2, <1>2, <1>3, PositionsStay
    <3>6. Achieved(task)'
      BY <3>1, <3>4, <3>5, <1>5
    <3> QED
      BY <3>6
  <2> QED
    BY <2>2, <2>3
<1>9. CASE CreateWebhook(s)
  <2> DEFINE new == [kind |-> kind, active |-> TRUE, hmacKey |-> NoValue,
                     authentication |-> a]
             n == Len(webhooks[m]) + 1
  <2>1. webhooks'[m] = Append(webhooks[m], new)
    BY <1>1, <1>3, <1>9 DEF CreateWebhook, AddWebhook, TypeInv, WebhookShapes
  <2>2. n \in DOMAIN webhooks'[m] /\ webhooks'[m][n] = new
    <3>1. IsList(webhooks[m])
      BY <1>3 DEF TypeInv, WebhookShapes
    <3> HIDE DEF new
    <3>2. /\ DOMAIN Append(webhooks[m], new) = 1..(Len(webhooks[m]) + 1)
          /\ Append(webhooks[m], new)[Len(webhooks[m]) + 1] = new
          /\ Len(webhooks[m]) \in Nat
      BY <3>1, AppendToList DEF IsList
    <3> QED
      BY <2>1, <3>2
  <2>3. n \in Positions(m, kind)' /\ webhooks'[m][n].active
        /\ webhooks'[m][n].authentication = a
    BY <2>2 DEF Positions
  <2>4. registrations[s].pc = "write" /\ k = 0
    BY <1>1, <1>9 DEF CreateWebhook, At
  <2> HIDE DEF n
  <2>5. CASE kind = "pending"
    BY <2>3, <2>5, <1>4
  <2>6. CASE kind = "standard"
    <3>1. s \in refused \/ IsActive(m)
      BY <2>4, <2>6, <1>1 DEF ActiveInv, WritesFirst
    <3>2. IsActive(m)'
      BY <3>1, <1>2, <1>3, <1>7, FirstsStay
    <3>3. Achieved(task)'
      BY <2>3, <2>6, <3>2, <1>5
    <3> QED
      BY <3>3
  <2>7. kind # "hmac"
    BY <2>4, <1>1, <1>2 DEF Place
  <2> QED
    BY <2>5, <2>6, <2>7, <1>3
<1>10. CASE UpdateWebhook(s) \/ ActivateWebhook(s)
  <2>1. /\ At(s, "write") /\ k # 0
        /\ webhooks' = [webhooks EXCEPT ![m][k] = Activated(webhooks[m][k], a)]
    BY <1>1, <1>10 DEF UpdateWebhook, ActivateWebhook, WriteWebhook
  <2>2. k \in Positions(m, kind)
    BY <1>1, <1>2, <2>1 DEF Place, At
  <2>3. k \in DOMAIN webhooks[m]
    BY <2>2 DEF Positions
  <2>4. IsWebhook(webhooks[m][k])
    BY <2>3, <1>3 DEF TypeInv, WebhookShapes
  <2>5. webhooks'[m] = [webhooks[m] EXCEPT ![k] = Activated(webhooks[m][k], a)]
    BY <2>1, <1>3 DEF TypeInv, WebhookShapes
  <2>6. webhooks'[m][k] = Activated(webhooks[m][k], a)
    BY <2>3, <2>5
  <2>7. /\ webhooks'[m][k].active
        /\ kind = "pending" => webhooks'[m][k].authentication = a
    BY <2>4, <2>6, <1>3 DEF Activated, IsWebhook
  <2>8. k \in Positions(m, kind)'
    BY <2>2, <1>2, <1>3, PositionsStay
  <2>9. CASE kind = "pending"
    BY <2>7, <2>8, <2>9, <1>4
  <2>10. CASE kind = "standard"
    <3>1. \A j \in Positions(m, "standard") : k <= j
      BY <2>1, <2>10, <1>1 DEF ActiveInv, WritesFirst, At
    <3>2. IsActive(m)'
      BY <2>2, <2>7, <2>10, <3>1, <1>6
    <3>3. Achieved(task)'
      BY <2>8, <2>10, <3>2, <1>5
    <3> QED
      BY <3>3
  <2>11. kind # "hmac"
    BY <2>1, <1>1, <1>2 DEF Place, At
  <2> QED
    BY <2>9, <2>10, <2>11, <1>3
<1>11. CASE GenerateHmac(s, ConfiguredKeys)
  <2>1. kind = "hmac"
    BY <1>1, <1>2, <1>11 DEF GenerateHmac, Place, At
  <2>2. IsSigned(m)'
    BY <1>1, <1>11, GeneratedIsSigned
  <2>3. Achieved(task)'
    BY <2>1, <2>2, <1>1 DEF Achieved, IsSigned, Positions
  <2> QED
    BY <2>3
<1>12. ~RefuseActivation(s) /\ ~RefuseList(s) /\ ~RefuseHmac(s)
  BY DEF RefuseActivation, RefuseList, RefuseHmac
<1>13. CASE Interrupt(s)
  BY <1>13 DEF Interrupt, RegistrationFails
<1> HIDE DEF Goal
<1> QED
  BY <1>8, <1>9, <1>10, <1>11, <1>12, <1>13 DEF Registers, Register, RegistrationStep

LEMMA RegistersKeepsProgress ==
    ASSUME KeysNeverRunOut, TypeInv, ActiveInv, ProgressInv, NEW s \in Setups, Registers(s)
    PROVE  ProgressInv'
<1>1. /\ registrations[s].pc \in {"list", "write", "hmac"}
      /\ IsBusy(s)
      /\ HooksChange(s)
      /\ UNCHANGED <<resources, syncs, module, config, loaded>>
      /\ \/ FailRegistration(s)
         \/ MovesOn(s)
         \/ /\ registrations[s].pc = "list" /\ webhooks' = webhooks
            /\ \E found \in {0, FindWebhook(Task(s).merchant, Task(s).kind)} :
                   SetFound(s, found)
  BY RegistrationSteps
<1>2. Running(s)
  BY <1>1 DEF Running
<1>3. \A t \in Setups \ {s} : registrations'[t] = registrations[t]
  BY <1>1, FailedPlace DEF TypeInv, Shapes, MovesOn, GoOnWith, SetFound
<1>4. \A t \in Setups : Running(t)' => Running(t)
  BY <1>1, <1>2, <1>3, RunningStays
<1>5. \A t \in Setups : Undisturbed(t)' => Undisturbed(t)
  BY <1>1, <1>3, LogAfter DEF Undisturbed
<1>6. ASSUME NEW t \in Setups, Undisturbed(t)'
      PROVE  OthersAgree(t)' /\ TasksDone(t)' /\ SyncsDone(t)'
  <2>1. OthersAgree(t) /\ TasksDone(t) /\ SyncsDone(t)
    BY <1>5, <1>6 DEF ProgressInv
  <2>2. OthersAgree(t)'
    BY <2>1, <1>1, <1>4 DEF OthersAgree
  <2>3. SyncsDone(t)'
    BY <2>1, <1>1 DEF SyncsDone, Sync!IsInSync, DraftOf
  <2>4. loaded[t] = loaded[s]
    BY <2>1, <1>2 DEF OthersAgree
  <2>5. PICK conf : conf = loaded[s]
    OBVIOUS
  <2>6. ASSUME NEW task \in Tasks(conf), Achieved(task)
        PROVE  Achieved(task)'
    BY <2>5, <2>6, <1>1, AchievedStays
  <2>7. CASE t # s
    <3>1. Remaining(t)' = Remaining(t)
      BY <2>7, <1>3 DEF Remaining
    <3> SUFFICES ASSUME module = "notification", registrations'[t].pc # "failed",
                        NEW task \in Tasks(conf) \ Remaining(t)
                 PROVE  Achieved(task)'
      BY <2>2, <2>3, <2>4, <2>5, <3>1, <1>1 DEF TasksDone
    <3>2. Achieved(task)
      BY <2>1, <2>4, <2>5, <2>7, <1>3 DEF TasksDone
    <3> QED
      BY <3>2, <2>6
  <2>8. CASE t = s
    <3> SUFFICES ASSUME module = "notification", registrations'[s].pc # "failed",
                        NEW task \in Tasks(conf), task \notin Remaining(s)'
                 PROVE  Achieved(task)'
      BY <2>2, <2>3, <2>5, <2>8, <1>1 DEF TasksDone
    <3>1. ~FailRegistration(s)
      BY FailedPlace
    <3>2. \A old \in Tasks(conf) \ Remaining(s) : Achieved(old)
      BY <2>1, <2>5, <2>8, <1>1 DEF TasksDone
    <3>3. CASE \E found : SetFound(s, found)
      <4>1. registrations'[s].todo = registrations[s].todo
        BY <3>3 DEF SetFound, TypeInv, Shapes
      <4>2. Remaining(s)' = Remaining(s)
        BY <4>1 DEF Remaining
      <4> QED
        BY <4>2, <3>2, <2>6
    <3>4. CASE ~(\E found : SetFound(s, found))
      <4>1. MovesOn(s)
        BY <3>1, <3>4, <1>1
      <4>2. registrations'[s].todo = Tail(registrations[s].todo)
        BY <4>1, <1>1, NextPlace
      <4>3. PICK mine : mine = Task(s)
        OBVIOUS
      <4>4. Remaining(s)' = Remaining(s) \ {mine}
        BY <4>2, <4>3, <1>1, TaskIsDone
      <4>5. Achieved(mine)'
        BY <2>8, <1>6, <3>1, <3>4, <4>3, TaskIsAchieved DEF Undisturbed
      <4>6. CASE task = mine
        BY <4>5, <4>6
      <4>7. CASE task # mine
        BY <4>4, <4>7, <3>2, <2>6
      <4> QED
        BY <4>6, <4>7
    <3> QED
      BY <3>3, <3>4
  <2> QED
    BY <2>7, <2>8
<1> QED
  BY <1>6 DEF ProgressInv

LEMMA SyncsKeepProgress ==
    ASSUME TypeInv, Drafts, ProgressInv, NEW s \in Setups, NEW r \in Resources, SyncsAt(s, r)
    PROVE  ProgressInv'
<1>1. /\ CanSync(s, r)
      /\ UNCHANGED <<webhooks, registrations, module, config, loaded, disturbed, refused>>
      /\ \A t \in Setups, q \in Resources : t # s \/ q # r => syncs'[t][q] = syncs[t][q]
      /\ \A q \in Resources \ {r} : resources'[q] = resources[q]
      /\ \/ resources'[r] = resources[r]
         \/ /\ resources'[r].version > 0
            /\ resources'[r].content = syncs[s][r].draft
      /\ syncs'[s][r].pc = "done" =>
            /\ resources'[r].version > 0
            /\ resources'[r].content = syncs[s][r].draft
  BY SyncSteps DEF webhookVars
<1>2. Running(s)
  BY <1>1 DEF Running
<1>3. syncs[s][r].draft = DraftOf(r, loaded[s])
  BY <1>1 DEF CanSync, Drafts
<1>4. ASSUME NEW t \in Setups, Undisturbed(t)'
      PROVE  OthersAgree(t)' /\ TasksDone(t)' /\ SyncsDone(t)'
  <2>1. OthersAgree(t) /\ TasksDone(t) /\ SyncsDone(t)
    BY <1>1, <1>4 DEF ProgressInv, Undisturbed
  <2>2. OthersAgree(t)'
    BY <2>1, <1>1, SyncsKeepRunning DEF OthersAgree
  <2>3. TasksDone(t)'
    BY <2>1, <1>1, TasksStayDone
  <2>4. loaded[t] = loaded[s]
    BY <2>1, <1>2 DEF OthersAgree
  <2>5. ASSUME NEW q \in Resources, syncs'[t][q].pc = "done"
        PROVE  resources'[q].version > 0 /\ resources'[q].content = DraftOf(q, loaded[t])
    <3>1. CASE t = s /\ q = r
      BY <3>1, <2>5, <1>1, <1>3
    <3>2. CASE t # s \/ q # r
      <4>1. resources[q].version > 0 /\ resources[q].content = DraftOf(q, loaded[t])
        BY <3>2, <2>1, <2>5, <1>1 DEF SyncsDone, Sync!IsInSync
      <4> QED
        BY <4>1, <2>4, <1>1, <1>3
    <3> QED
      BY <3>1, <3>2
  <2>6. SyncsDone(t)'
    BY <2>5, <1>1 DEF SyncsDone, Sync!IsInSync, DraftOf
  <2> QED
    BY <2>2, <2>3, <2>6
<1> QED
  BY <1>4 DEF ProgressInv

LEMMA StartKeepsProgress ==
    ASSUME TypeInv, Drafts, ProgressInv, NEW s \in Setups, Start(s)
    PROVE  ProgressInv'
<1> DEFINE others == {t \in Setups \ {s} : registrations[t].pc # "idle" /\ loaded[t] # config}
<1>1. /\ UNCHANGED <<webhooks, resources, module, config>>
      /\ syncs' = [syncs EXCEPT ![s] = [r \in Resources |->
            IF r \in ResourcesOf(module)
            THEN [pc |-> "fetch", draft |-> DraftOf(r, config)]
            ELSE [pc |-> "idle"]]]
      /\ disturbed' = (disturbed \ {s}) \cup others
                      \cup (IF \E t \in others : Running(t) THEN {s} ELSE {})
      /\ refused' = refused \ {s}
  BY DEF Start
<1>2. \A t \in Setups \ {s} : /\ loaded'[t] = loaded[t]
                              /\ registrations'[t] = registrations[t]
                              /\ syncs'[t] = syncs[t]
  BY <1>1, Started
<1>3. loaded'[s] = config
  BY Started
<1>4. \A t \in Setups \ {s} : Running(t)' <=> Running(t)
  BY <1>1, <1>2, RunningStays
<1>5. ASSUME NEW t \in Setups \ {s}, Undisturbed(t)'
      PROVE  OthersAgree(t)' /\ TasksDone(t)' /\ SyncsDone(t)'
  <2>1. Undisturbed(t) /\ loaded[t] = config
    BY <1>1, <1>2, <1>5 DEF Undisturbed
  <2>2. OthersAgree(t) /\ TasksDone(t) /\ SyncsDone(t)
    BY <2>1 DEF ProgressInv
  <2>3. OthersAgree(t)'
    BY <2>1, <2>2, <1>2, <1>3, <1>4 DEF OthersAgree
  <2>4. TasksDone(t)'
    BY <2>2, <1>1, <1>2, TasksStayDone
  <2>5. SyncsDone(t)'
    BY <2>2, <1>1, <1>2 DEF SyncsDone, Sync!IsInSync, DraftOf
  <2> QED
    BY <2>3, <2>4, <2>5
<1>6. ASSUME Undisturbed(s)'
      PROVE  OthersAgree(s)' /\ TasksDone(s)' /\ SyncsDone(s)'
  <2>1. \A t \in others : ~Running(t)
    BY <1>1, <1>6 DEF Undisturbed
  <2>2. \A t \in Setups : Running(t) => registrations[t].pc # "idle"
    BY DEF Running, CanSync
  <2>3. OthersAgree(s)'
    BY <2>1, <2>2, <1>2, <1>3, <1>4 DEF OthersAgree
  <2>4. ASSUME module = "notification", NEW task \in Tasks(config)
        PROVE  task \in Remaining(s)'
    <3>1. registrations'[s].todo = TasksOf(config)
      BY <2>4, Started
    <3>2. PICK todo : todo = TasksOf(config)
      OBVIOUS
    <3>3. task.merchant \in Merchants
      BY TaskFields
    <3>4. \E i \in DOMAIN todo : todo[i] = task
      BY <3>2, <3>3, TasksOfPlan DEF IsPlanFor
    <3> QED
      BY <3>1, <3>2, <3>4 DEF Remaining
  <2>5. TasksDone(s)'
    BY <2>4, <1>1, <1>3 DEF TasksDone, Tasks, StandardTasks, HmacTasks, PendingTasks
  <2>6. \A r \in Resources : syncs'[s][r].pc # "done"
    <3>1. DOMAIN syncs = Setups
      BY DEF Drafts, Sync!SyncTypeOK
    <3>2. ASSUME NEW r \in Resources
          PROVE  syncs'[s][r].pc \in {"fetch", "idle"}
      <4>1. syncs'[s][r] = IF r \in ResourcesOf(module)
                           THEN [pc |-> "fetch", draft |-> DraftOf(r, config)]
                           ELSE [pc |-> "idle"]
        BY <1>1, <3>1
      <4> QED
        BY <4>1
    <3> QED
      BY <3>2
  <2>7. SyncsDone(s)'
    BY <2>6 DEF SyncsDone
  <2> QED
    BY <2>3, <2>5, <2>7
<1> QED
  BY <1>5, <1>6 DEF ProgressInv

LEMMA NextKeepsProgress ==
    /\ KeysNeverRunOut /\ TypeInv /\ Drafts /\ ActiveInv /\ ProgressInv
    /\ [Next]_vars
    => ProgressInv'
<1> SUFFICES ASSUME KeysNeverRunOut, TypeInv, Drafts, ActiveInv, ProgressInv, [Next]_vars
             PROVE  ProgressInv'
  OBVIOUS
<1>1. CASE \E s \in Setups : Start(s)
  BY <1>1, StartKeepsProgress
<1>2. CASE \E s \in Setups : Registers(s)
  BY <1>2, RegistersKeepsProgress
<1>3. CASE \E s \in Setups, r \in Resources : SyncsAt(s, r)
  BY <1>3, SyncsKeepProgress
<1>4. ASSUME UNCHANGED <<webhooks, registrations, resources, syncs, module, loaded, disturbed,
                         refused>>
      PROVE  ProgressInv'
  <2>1. \A t \in Setups : Running(t)' <=> Running(t)
    BY <1>4, RunningStays
  <2> SUFFICES ASSUME NEW t \in Setups, Undisturbed(t)'
               PROVE  OthersAgree(t)' /\ TasksDone(t)' /\ SyncsDone(t)'
    BY DEF ProgressInv
  <2>2. OthersAgree(t) /\ TasksDone(t) /\ SyncsDone(t)
    BY <1>4 DEF ProgressInv, Undisturbed
  <2>3. OthersAgree(t)'
    BY <2>1, <2>2, <1>4 DEF OthersAgree
  <2>4. TasksDone(t)'
    BY <2>2, <1>4, TasksStayDone
  <2>5. SyncsDone(t)'
    BY <2>2, <1>4 DEF SyncsDone, Sync!IsInSync, DraftOf
  <2> QED
    BY <2>3, <2>4, <2>5
<1>5. CASE (\E m \in Merchants : TakeOverKey(m)) \/ Reconfigure
  BY <1>4, <1>5, NewConfiguration DEF webhookVars
<1>6. CASE UNCHANGED vars
  BY <1>4, <1>6 DEF vars, webhookVars, configVars
<1> QED
  BY <1>1, <1>2, <1>3, <1>5, <1>6, NextSteps

LEMMA Progress ==
    KeysNeverRunOut => (Spec => [](TypeInv /\ Drafts /\ ActiveInv /\ SignedInv /\ ProgressInv))
<1> SUFFICES ASSUME KeysNeverRunOut
             PROVE  Spec => [](TypeInv /\ Drafts /\ ActiveInv /\ SignedInv /\ ProgressInv)
  OBVIOUS
<1>1. Init => TypeInv /\ Drafts /\ ActiveInv /\ SignedInv /\ ProgressInv
  <2>1. Init => ProgressInv
    BY DEF Init, ProgressInv, Undisturbed
  <2> QED
    BY <2>1, InitTypes, InitDrafts, InitActive
<1>2. TypeInv /\ Drafts /\ ActiveInv /\ SignedInv /\ ProgressInv /\ [Next]_vars
      => (TypeInv /\ Drafts /\ ActiveInv /\ SignedInv /\ ProgressInv)'
  <2>1. TypeInv /\ Drafts /\ [Next]_vars => TypeInv' /\ Drafts'
    BY NextKeepsTypes, NextKeepsDrafts
  <2> QED
    BY <2>1, NextKeepsActive, NextKeepsSigned, NextKeepsProgress
<1> QED
  BY <1>1, <1>2, PTL DEF Spec

LEMMA DoneHasNothingLeft ==
    ASSUME TypeInv, ProgressInv, NEW s \in Setups, Done(s),
           s \notin disturbed \cup refused,
           module = "notification", NEW task \in Tasks(loaded[s])
    PROVE  Achieved(task)
<1>1. registrations[s].pc = "done"
  BY DEF Done
<1>2. registrations[s].todo = <<>>
  BY <1>1 DEF TypeInv, Place
<1>3. Remaining(s) = {}
  <2>1. DOMAIN <<>> = {}
    OBVIOUS
  <2> QED
    BY <1>2, <2>1 DEF Remaining
<1> QED
  BY <1>1, <1>3 DEF ProgressInv, Undisturbed, TasksDone

\* The user name of a merchant account is one part: basic authentication has
\* no way to send one with a colon.
UsernamesHaveNoColon ==
    \A c \in Configurations, m \in Merchants :
        HasCredentials(c.adyen[m].authentication) => Len(c.adyen[m].authentication.username) = 1

LEMMA PartsOfCredentials ==
    ASSUME NEW a, IsAuthentication(a), HasCredentials(a), Len(a.username) = 1
    PROVE  /\ BasicCredentials(a) # NoValue
           /\ <<BasicCredentials(a)[1]>> = a.username
           /\ Tail(BasicCredentials(a)) = a.password
           /\ Len(a.password) = 1 =>
                Len(BasicCredentials(a)) = 2 /\ <<BasicCredentials(a)[2]>> = a.password
<1>1. PICK user, password : user = a.username /\ password = a.password
  OBVIOUS
<1>2. user \in Seq(STRING) /\ password \in Seq(STRING) /\ Len(user) = 1
  BY <1>1 DEF IsAuthentication, HasCredentials
<1> DEFINE header == user \o password
<1>3. /\ header \in Seq(STRING)
      /\ Len(header) = 1 + Len(password)
      /\ header[1] = user[1]
      /\ \A i \in 1..Len(password) : header[i + 1] = password[i]
  <2>1. /\ header \in Seq(STRING)
        /\ Len(header) = Len(user) + Len(password)
        /\ \A i \in 1..(Len(user) + Len(password)) :
             header[i] = IF i <= Len(user) THEN user[i] ELSE password[i - Len(user)]
    BY <1>2, ConcatProperties
  <2>2. Len(password) \in Nat
    BY <1>2
  <2> HIDE DEF header
  <2>3. header[1] = user[1]
    BY <2>1, <2>2, <1>2
  <2>4. ASSUME NEW i \in 1..Len(password)
        PROVE  header[i + 1] = password[i]
    <3>1. i + 1 \in 1..(1 + Len(password)) /\ ~(i + 1 <= 1) /\ (i + 1) - 1 = i
      BY <2>2
    <3> QED
      BY <3>1, <2>1, <1>2
  <2> QED
    BY <2>1, <2>3, <2>4, <1>2
<1>4. BasicCredentials(a) = header
  BY <1>1 DEF BasicCredentials
<1>5. /\ Len(<<header[1]>>) = 1 /\ <<header[1]>>[1] = header[1]
      /\ <<header[1]>> \in Seq(STRING)
  <2>1. header[1] \in STRING
    BY <1>2, <1>3
  <2> HIDE DEF header
  <2> QED
    BY <2>1
<1> HIDE DEF header
<1>6. <<header[1]>> = user
  <2>1. PICK one : one = <<header[1]>>
    OBVIOUS
  <2>2. one \in Seq(STRING) /\ Len(one) = 1 /\ one[1] = user[1]
    BY <2>1, <1>3, <1>5
  <2>3. \A i \in 1..Len(one) : one[i] = user[i]
    BY <2>2
  <2> QED
    BY <2>1, <2>2, <2>3, <1>2, SeqEqual
<1>7. Tail(header) = password
  <2>1. PICK rest : rest = Tail(header)
    OBVIOUS
  <2>2. /\ rest \in Seq(STRING) /\ Len(rest) = Len(password)
        /\ \A i \in 1..Len(password) : rest[i] = header[i + 1]
    <3>1. Len(password) \in Nat /\ header # <<>>
      BY <1>2, <1>3
    <3> QED
      BY <2>1, <3>1, <1>3
  <2>3. \A i \in 1..Len(rest) : rest[i] = password[i]
    BY <2>2, <1>3
  <2> QED
    BY <2>1, <2>2, <2>3, <1>2, SeqEqual
<1>8. ASSUME Len(password) = 1
      PROVE  Len(header) = 2 /\ <<header[2]>> = password
  <2>1. Len(header) = 2 /\ header[2] = password[1] /\ header[2] \in STRING
    BY <1>2, <1>3, <1>8
  <2>2. PICK one : one = <<header[2]>>
    OBVIOUS
  <2>3. one \in Seq(STRING) /\ Len(one) = 1 /\ one[1] = password[1]
    BY <2>1, <2>2
  <2>4. \A i \in 1..Len(one) : one[i] = password[i]
    BY <2>3
  <2>5. one = password
    BY <2>3, <2>4, <1>2, <1>8, SeqEqual
  <2> QED
    BY <2>1, <2>2, <2>5
<1>9. header # NoValue
  BY <1>3, NoValueAssumption
<1> QED
  BY <1>1, <1>4, <1>6, <1>7, <1>8, <1>9

\* A setup that ends well, and of which Adyen refused no request whose answer
\* it does not look at, has left all that its configuration needs, and
\* neither failed nor parallel setups of the same configuration undo it:
\* resources with the content of their drafts, an active standard webhook
\* that has a key if signatures are verified, a pending one that sends
\* credentials the service accepts, and an API extension whose header the
\* extension accepts.  User names have no colon, and new keys are new.
THEOREM SuccessStaysEffective ==
    UsernamesHaveNoColon /\ KeysNeverRunOut => (Spec => []SuccessIsEffective)
<1> SUFFICES ASSUME UsernamesHaveNoColon, KeysNeverRunOut
             PROVE  Spec => []SuccessIsEffective
  OBVIOUS
<1>1. TypeInv /\ Drafts /\ SignedInv /\ ProgressInv => SuccessIsEffective
  <2> SUFFICES ASSUME TypeInv, Drafts, SignedInv, ProgressInv, NEW s \in Setups, Done(s),
                      s \notin disturbed \cup refused
               PROVE  IsSetUp(loaded[s])
    BY DEF SuccessIsEffective
  <2>1. PICK conf : conf = loaded[s]
    OBVIOUS
  <2>2. IsConfigured(conf) /\ IsLoaded(conf)
    BY <2>1 DEF Done, TypeInv, Shapes
  <2>3. \A r \in ResourcesOf(module) : Sync!IsInSync(r, DraftOf(r, conf))
    BY <2>1 DEF Done, ProgressInv, Undisturbed, SyncsDone, ResourcesOf
  <2>4. ASSUME module = "notification"
        PROVE  NotificationIsSetUp(conf)
    <3> SUFFICES ASSUME NEW m \in Merchants, conf.adyen[m].hasBaseUrl
                 PROVE  /\ StandardIsSetUp(m, conf.adyen[m])
                        /\ IsPendingEnabled(conf.adyen[m]) => PendingIsAccepted(m, conf.adyen[m])
      BY DEF NotificationIsSetUp
    <3>1. StandardIsSetUp(m, conf.adyen[m])
      <4>1. IsActive(m) /\ Positions(m, "standard") # {}
        <5> DEFINE task == TaskWith("standard", m, NoValue)
        <5>1. task \in Tasks(conf)
          BY DEF Tasks, StandardTasks
        <5>2. task.kind = "standard" /\ task.merchant = m
          BY DEF TaskWith
        <5>3. Achieved(task)
          BY <2>1, <2>4, <5>1, DoneHasNothingLeft
        <5> HIDE DEF task
        <5> QED
          BY <5>2, <5>3 DEF Achieved
      <4>2. ASSUME IsHmacEnabled(conf.adyen[m])
            PROVE  IsSigned(m)
        <5>1. CASE conf.adyen[m].secretHmacKey = NoValue
          <6> DEFINE task == TaskWith("hmac", m, NoValue)
          <6>1. task \in Tasks(conf)
            BY <4>2, <5>1 DEF Tasks, HmacTasks
          <6>2. task.kind = "hmac" /\ task.merchant = m
            BY DEF TaskWith
          <6>3. Achieved(task)
            BY <2>1, <2>4, <6>1, DoneHasNothingLeft
          <6> HIDE DEF task
          <6> QED
            BY <6>2, <6>3 DEF Achieved
        <5>2. CASE conf.adyen[m].secretHmacKey # NoValue
          <6>1. registrations[s].pc # "idle"
            BY DEF Done
          <6> QED
            BY <2>1, <5>2, <6>1 DEF SignedInv, KeyIsHeld
        <5> QED
          BY <5>1, <5>2
      <4> QED
        BY <4>1, <4>2 DEF StandardIsSetUp, IsActive, IsSigned
    <3>2. ASSUME IsPendingEnabled(conf.adyen[m])
          PROVE  PendingIsAccepted(m, conf.adyen[m])
      <4> DEFINE a == conf.adyen[m].authentication
                 task == TaskWith("pending", m, a)
      <4>1. task \in Tasks(conf)
        BY <3>2 DEF Tasks, PendingTasks
      <4>2. task.kind = "pending" /\ task.merchant = m /\ task.authentication = a
        BY DEF TaskWith
      <4>3. Achieved(task)
        BY <2>1, <2>4, <4>1, DoneHasNothingLeft
      <4>4. HasCredentials(a)
        BY <2>2, <2>4, <3>2
           DEF IsLoaded, IsNotificationLoaded, IsAuthenticationValid, HasCredentials
      <4>5. PICK c \in Configurations : a = c.adyen[m].authentication
        <5>1. PICK c \in Configurations :
                \A f \in DOMAIN c.adyen[m] \ {"secretHmacKey"} :
                    conf.adyen[m][f] = c.adyen[m][f]
          BY <2>2 DEF IsConfigured
        <5> QED
          BY <5>1, ConfigurationsAssumption
      <4>6. IsAuthentication(a) /\ Len(a.username) = 1
        BY <4>4, <4>5, ConfigurationsAssumption DEF UsernamesHaveNoColon
      <4> HIDE DEF task, a
      <4>7. HasValidBasicAuthentication(a, BasicCredentials(a))
        BY <4>4, <4>6, PartsOfCredentials DEF HasValidBasicAuthentication
      <4>8. PICK i \in Positions(m, "pending") :
              webhooks[m][i].active /\ webhooks[m][i].authentication = a
        BY <4>2, <4>3 DEF Achieved
      <4> QED
        BY <4>7, <4>8 DEF PendingIsAccepted, a
    <3> QED
      BY <3>1, <3>2
  <2>5. ASSUME module # "notification"
        PROVE  ExtensionIsSetUp(conf)
    <3> SUFFICES ASSUME NEW r \in Resources, r[2] = ApiExtension, conf.basicAuth = "true",
                        IsPlain(conf.commercetools[r[1]])
                 PROVE  HasValidAuthorizationHeader(conf.commercetools[r[1]],
                                                    resources[r].content)
      BY DEF ExtensionIsSetUp
    <3>1. PICK a : a = conf.commercetools[r[1]]
      OBVIOUS
    <3>2. r[1] \in Projects
      BY ResourcesAssumption
    <3>3. HasCredentials(a)
      BY <2>2, <2>5, <3>1, <3>2
         DEF IsLoaded, IsExtensionLoaded, IsAuthenticationValid, HasCredentials
    <3>4. IsAuthentication(a)
      BY <2>2, <3>1, <3>2, ConfigurationsAreConfigured
    <3>5. resources[r].content = BasicCredentials(a)
      <4>1. r \in ResourcesOf(module)
        BY <2>5 DEF ResourcesOf, ApiExtension
      <4> QED
        BY <4>1, <2>3, <3>1, <3>3 DEF Sync!IsInSync, DraftOf, AuthorizationHeader
    <3>6. Len(a.username) = 1 /\ Len(a.password) = 1
      BY <3>1 DEF IsPlain
    <3> QED
      BY <3>1, <3>3, <3>4, <3>5, <3>6, PartsOfCredentials DEF HasValidAuthorizationHeader
  <2> QED
    BY <2>1, <2>3, <2>4, <2>5 DEF IsSetUp
<1> QED
  BY <1>1, Progress, PTL
=============================================================================
