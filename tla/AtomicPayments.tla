-------------------------- MODULE AtomicPayments --------------------------
(***************************************************************************)
(* What the notification module promises about payments: as if each        *)
(* notification were processed on the payment in one step, with nobody     *)
(* else around.  No invocations, no copies of a payment, no conflicts.     *)
(***************************************************************************)
EXTENDS Naturals

CONSTANTS
    Payments,
    Notifications,
    InitialPayments,
    MakePaymentResults,
    Updated(_, _),           \* a payment after a notification was processed
    AfterMakePayment(_, _),  \* a payment with Adyen's answer to /payments
    Reflects(_, _)           \* what is to be seen of a notification that was

VARIABLES
    payments,
    delivered,  \* notifications that Adyen has delivered
    reported    \* <<n, p>>: n has been reported as done on p

vars == <<payments, delivered, reported>>

Set(p, content) ==
    payments' = [payments EXCEPT ![p] = [content EXCEPT !.version = @ + 1]]

Deliver(n) ==
    /\ delivered' = delivered \cup {n}
    /\ UNCHANGED <<payments, reported>>

\* The report may be lost.
Process(n, p) ==
    /\ n \in delivered
    /\ Set(p, Updated(payments[p], n))
    /\ reported' \in {reported, reported \cup {<<n, p>>}}
    /\ UNCHANGED delivered

\* It has been processed before.
Report(n, p) ==
    /\ n \in delivered
    /\ Reflects(payments[p], n)
    /\ reported' = reported \cup {<<n, p>>}
    /\ UNCHANGED <<payments, delivered>>

\* The answer is stored once.
Answer(p) ==
    /\ ~payments[p].hasResponse
    /\ \E r \in MakePaymentResults[p] : Set(p, AfterMakePayment(payments[p], r))
    /\ UNCHANGED <<delivered, reported>>

Other(p) ==
    /\ Set(p, payments[p])
    /\ UNCHANGED <<delivered, reported>>

Init ==
    /\ payments \in InitialPayments
    /\ delivered = {}
    /\ reported = {}

Next ==
    \/ \E n \in Notifications : Deliver(n)
    \/ \E n \in Notifications, p \in Payments : Process(n, p) \/ Report(n, p)
    \/ \E p \in Payments : Answer(p) \/ Other(p)

Spec == Init /\ [][Next]_vars
============================================================================
