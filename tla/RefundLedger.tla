------------------------------ MODULE RefundLedger ------------------------------
(***************************************************************************)
(* What refunds promise, without requests, events, webhook sessions or     *)
(* runs of reconciliation: a refund is of one payment, once; it ends once; *)
(* what is given back adds up; and the books follow, one commit at a time. *)
(* A refund's row goes from PENDING to the way the refund ended, and no    *)
(* further.  A payment is entered as refunded only when it was given back, *)
(* its invoice never without it, and a refund of everything takes its      *)
(* payment along in the same commit.                                       *)
(***************************************************************************)
EXTENDS Naturals

CONSTANTS Payments, Amount, Refunds, None

VARIABLES
    payment_id,  \* the payment a refund is of; None: no such refund yet
    amount,      \* its amount
    outcome,     \* how it ended; None: it has not
    returned,    \* what was given back of each payment
    row,         \* the status entered for each refund; None: no entry
    refunded,    \* payments entered as refunded
    closed       \* payments whose invoice is entered as refunded

vars == <<payment_id, amount, outcome, returned, row, refunded, closed>>

Outcomes == {"succeeded", "failed", "cancelled"}

Init ==
    /\ payment_id = [x \in Refunds |-> None]
    /\ amount = [x \in Refunds |-> 0]
    /\ outcome = [x \in Refunds |-> None]
    /\ returned = [p \in Payments |-> 0]
    /\ row = [x \in Refunds |-> None]
    /\ refunded = {}
    /\ closed = {}

Claim(x, p, a) ==
    /\ payment_id[x] = None
    /\ p \notin refunded
    /\ payment_id' = [payment_id EXCEPT ![x] = p]
    /\ amount' = [amount EXCEPT ![x] = a]
    /\ UNCHANGED <<outcome, returned, row, refunded, closed>>

End(x, o) ==
    /\ payment_id[x] # None
    /\ outcome[x] = None
    /\ outcome' = [outcome EXCEPT ![x] = o]
    /\ returned' = [p \in Payments |->
                      IF o = "succeeded" /\ p = payment_id[x]
                      THEN returned[p] + amount[x] ELSE returned[p]]
    /\ UNCHANGED <<payment_id, amount, row, refunded, closed>>

Enter(x) ==
    /\ payment_id[x] # None
    /\ row[x] = None
    /\ row' = [row EXCEPT ![x] = "pending"]
    /\ UNCHANGED <<payment_id, amount, outcome, returned, refunded, closed>>

(* One commit settles the refunds S and enters the payments P and the      *)
(* invoices of I as refunded.                                              *)
Settle(S, P, I) ==
    /\ \A x \in S : row[x] = "pending" /\ outcome[x] # None
    /\ \A p \in P \cup I : returned[p] >= Amount[p]
    /\ \A x \in S : outcome[x] = "succeeded" /\ amount[x] >= Amount[payment_id[x]] =>
          payment_id[x] \in refunded \cup P
    /\ I \subseteq refunded \cup P
    /\ row' = [x \in Refunds |-> IF x \in S THEN outcome[x] ELSE row[x]]
    /\ refunded' = refunded \cup P
    /\ closed' = closed \cup I
    /\ UNCHANGED <<payment_id, amount, outcome, returned>>

Next ==
    \/ \E x \in Refunds :
          \/ \E p \in Payments : \E a \in 1 .. Amount[p] : Claim(x, p, a)
          \/ \E o \in Outcomes : End(x, o)
          \/ Enter(x)
    \/ \E S \in SUBSET Refunds : \E P, I \in SUBSET Payments : Settle(S, P, I)

Spec == Init /\ [][Next]_vars
===============================================================================
