-------------------------------- MODULE Refunds --------------------------------
(***************************************************************************)
(* Refunds of collected payments: POST /payments/{id}/refunds, the         *)
(* refund.updated webhook and reconciliation, and the cascade that marks a *)
(* fully refunded payment and its invoice.                                 *)
(*                                                                         *)
(* As in Payments, a handler is its reads and its commit, with what it     *)
(* read kept in between, and the provider is external.                     *)
(***************************************************************************)
EXTENDS Naturals, Functions, Lifecycles

CONSTANTS
    Payments,       \* collected payments, each of an invoice of its own
    Amount,         \* what each of them collected
    PaidStatuses,   \* statuses their invoices may have at first
    MaxRefunds,     \* bound: refund requests
    MaxFaults,      \* bound: provider errors and crashes of reconciliation
    Hooks,          \* API processes handling webhooks; each one at a time
    Reconcilers,    \* runs of reconciliation that may overlap
    None            \* no value

ASSUME AmountIsPositive == Amount \in [Payments -> Nat \ {0}]
ASSUME BoundsAreNatural == MaxRefunds \in Nat /\ MaxFaults \in Nat

(* PAID by a webhook; PENDING when reconciliation recorded the payment,    *)
(* which leaves its invoice alone.                                         *)
ASSUME PaidStatusesReachable == PaidStatuses \subseteq {"paid", "pending"}

(* Requests, in the order they validate.                                   *)
Refunds == 1 .. MaxRefunds

StripeStatus == {"pending", "requires_action", "succeeded", "failed", "canceled"}
Ended == {"succeeded", "failed", "canceled"}

ASSUME NoneIsNoStatus == None \notin RefundStatus \cup StripeStatus \cup Payments \cup Nat

VARIABLES
    invoice,     \* committed status of each payment's invoice
    payment,     \* committed status of each payment
    refund,      \* committed status of each refund row; None: no row
    payment_id,  \* the payment a refund is of
    amount,      \* its amount
    request,     \* where the request that makes the refund is
    stripe,      \* the provider's refund; None: not created
    events,      \* refund.updated events the provider has emitted
    processed,   \* events in processed_webhooks
    hook,        \* the session of each webhook handler
    memory,      \* refunds a reconciliation run has loaded, as its session sees them
    todo,        \* those of them it has not asked about
    refunding,   \* payments it will write as REFUNDED
    closing,     \* payments whose invoice it will write as REFUNDED
    faults       \* faults so far

rowVars     == <<invoice, payment, refund>>
requestVars == <<payment_id, amount, request>>
hookVars    == <<processed, hook>>
reconVars   == <<memory, todo, refunding, closing>>
vars == <<rowVars, requestVars, stripe, events, hookVars, reconVars, faults>>

Nothing == [x \in Refunds |-> None]
Stages == {"unused", "calling", "issued", "ended"}
Events == [refund : Refunds, status : StripeStatus]
Columns == {"payment", "invoice"}
Idle == [step |-> "idle"]
Sessions == [step : {"cascade", "commit"}, event : Events, writes : SUBSET Columns,
             refund : RefundStatus]

TypeOK ==
    /\ invoice \in [Payments -> InvoiceStatus]
    /\ payment \in [Payments -> PaymentStatus]
    /\ refund \in [Refunds -> RefundStatus \cup {None}]
    /\ payment_id \in [Refunds -> Payments \cup {None}]
    /\ amount \in [Refunds -> Nat]
    /\ request \in [Refunds -> Stages]
    /\ stripe \in [Refunds -> StripeStatus \cup {None}]
    /\ events \in SUBSET Events
    /\ processed \in SUBSET Events
    /\ hook \in [Hooks -> Sessions \cup {Idle}]
    /\ memory \in [Reconcilers -> [Refunds -> RefundStatus \cup {None}]]
    /\ todo \in [Reconcilers -> SUBSET Refunds]
    /\ refunding \in [Reconcilers -> SUBSET Payments]
    /\ closing \in [Reconcilers -> SUBSET Payments]
    /\ faults \in 0 .. MaxFaults

Init ==
    /\ invoice \in [Payments -> PaidStatuses]
    /\ payment = [p \in Payments |-> "succeeded"]
    /\ refund = Nothing
    /\ payment_id = Nothing
    /\ amount = [x \in Refunds |-> 0]
    /\ request = [x \in Refunds |-> "unused"]
    /\ stripe = Nothing
    /\ events = {}
    /\ processed = {}
    /\ hook = [h \in Hooks |-> Idle]
    /\ memory = [r \in Reconcilers |-> Nothing]
    /\ todo = [r \in Reconcilers |-> {}]
    /\ refunding = [r \in Reconcilers |-> {}]
    /\ closing = [r \in Reconcilers |-> {}]
    /\ faults = 0

Total(S) == SumFunctionOnSet(amount, S)

(* The refunds of p whose row, in the given view of the table, has one of  *)
(* the statuses.                                                           *)
Having(view, p, statuses) ==
    {x \in Refunds : payment_id[x] = p /\ view[x] \in statuses}

-------------------------------------------------------------------------------
(* RefundService.create_refund.                                            *)

(* What earlier refunds leave of the payment: the completed and the        *)
(* pending ones count, as far as they are committed.                       *)
Counted == {"succeeded", "pending"}

Spent(p) == Total(Having(refund, p, Counted))

(* A request for an amount, or (0) for all that remains.  Nothing is       *)
(* locked while the provider is called: the row is not yet visible.        *)
CreateRefund(x, p, requested) ==
    /\ request[x] = "unused"
    /\ \A y \in Refunds : y < x => request[y] # "unused"
    /\ payment[p] = "succeeded"
    /\ Spent(p) <= Amount[p]
    /\ LET remaining == Amount[p] - Spent(p)
           asked == IF requested = 0 THEN remaining ELSE requested
       IN  /\ asked > 0 /\ asked <= remaining
           /\ amount' = [amount EXCEPT ![x] = asked]
    /\ payment_id' = [payment_id EXCEPT ![x] = p]
    /\ request' = [request EXCEPT ![x] = "calling"]
    /\ UNCHANGED <<rowVars, stripe, events, hookVars, reconVars, faults>>

ProviderRefunds(x) ==
    /\ request[x] = "calling"
    /\ request' = [request EXCEPT ![x] = "issued"]
    /\ stripe' = [stripe EXCEPT ![x] = "pending"]
    /\ UNCHANGED <<rowVars, payment_id, amount, events, hookVars, reconVars, faults>>

(* The call raised, or the process died during or after it: the session is *)
(* rolled back and there is no row.  The provider may have made the refund *)
(* all the same.                                                           *)
AbandonRefund(x) ==
    /\ request[x] \in {"calling", "issued"}
    /\ request' = [request EXCEPT ![x] = "ended"]
    /\ IF request[x] = "issued"
       THEN UNCHANGED stripe
       ELSE \E made \in {None, "pending"} : stripe' = [stripe EXCEPT ![x] = made]
    /\ UNCHANGED <<rowVars, payment_id, amount, events, hookVars, reconVars, faults>>

(* Mutant: the status the provider returned, in the provider's words.      *)
CommitRefundAsTold(x) ==
    /\ request[x] = "issued"
    /\ request' = [request EXCEPT ![x] = "ended"]
    /\ refund' = [refund EXCEPT ![x] = stripe[x]]
    /\ UNCHANGED <<invoice, payment, payment_id, amount, stripe, events, hookVars,
                   reconVars, faults>>

(* PENDING, whatever status the provider returned.                         *)
CommitRefund(x) ==
    /\ request[x] = "issued"
    /\ request' = [request EXCEPT ![x] = "ended"]
    /\ refund' = [refund EXCEPT ![x] = "pending"]
    /\ UNCHANGED <<invoice, payment, payment_id, amount, stripe, events, hookVars,
                   reconVars, faults>>

-------------------------------------------------------------------------------
(* The provider: a refund ends once, and says so.                          *)

StripeMoves(x, s) ==
    /\ stripe[x] \in StripeStatus \ Ended
    /\ s # stripe[x] /\ s # "pending"
    /\ stripe' = [stripe EXCEPT ![x] = s]
    /\ events' = events \cup {[refund |-> x, status |-> s]}
    /\ UNCHANGED <<rowVars, requestVars, hookVars, reconVars, faults>>

-------------------------------------------------------------------------------
(* PaymentService.mark_refunded_if_fully_refunded, in a session that sees  *)
(* the refunds as `view'.  It reads the payment and its invoice and moves  *)
(* both when the completed refunds cover the payment.  The payment moves   *)
(* first: when the invoice may not follow, the exception leaves the        *)
(* payment moved in the session.                                           *)

CoveredStrictly(view, p) ==          \* mutant: only more than the payment covers it
    Total(Having(view, p, {"succeeded"})) > Amount[p]
Covered(view, p) == Total(Having(view, p, {"succeeded"})) >= Amount[p]

CascadeRaises(view, p) ==
    /\ Covered(view, p)
    /\ ~ (PaymentMayBecome(payment[p], "refunded") /\ InvoiceMayBecome(invoice[p], "refunded"))

CascadeWritesPayment(view, p) ==     \* mutant: the invoice is forgotten
    {c \in {"payment"} : Covered(view, p) /\ payment[p] # "refunded"}

CascadeWrites(view, p) ==
    {c \in Columns :
        /\ Covered(view, p)
        /\ PaymentMayBecome(payment[p], "refunded")
        /\ c = "payment" => payment[p] # "refunded"
        /\ c = "invoice" => invoice[p] # "refunded" /\ InvoiceMayBecome(invoice[p], "refunded")}

-------------------------------------------------------------------------------
(* WebhookService.handle_refund_updated.  A delivery that changes nothing  *)
(* is not a step: an event in processed_webhooks, a refund without a       *)
(* committed row, a status the handler has no branch for, a transition     *)
(* that raises.  The provider spells "canceled" and the branch "cancelled".*)

HandledStatus == {"succeeded", "failed", "cancelled"}

HookLoadsRefund(h, e) ==
    /\ hook[h] = Idle
    /\ e \in events \ processed
    /\ refund[e.refund] # None
    /\ e.status \in HandledStatus
    /\ RefundMayBecome(refund[e.refund], e.status)
    /\ hook' = [hook EXCEPT ![h] =
                  [step   |-> IF e.status = "succeeded" /\ refund[e.refund] # "succeeded"
                              THEN "cascade" ELSE "commit",
                   event  |-> e,
                   writes |-> {},
                   refund |-> refund[e.refund]]]
    /\ UNCHANGED <<rowVars, requestVars, stripe, events, processed, reconVars, faults>>

(* The session sees its own change of the refund.  An exception here rolls *)
(* the whole session back.                                                 *)
HookCascades(h) ==
    /\ hook[h].step = "cascade"
    /\ LET x == hook[h].event.refund
           view == [refund EXCEPT ![x] = "succeeded"]
       IN  hook' = [hook EXCEPT ![h] =
                      IF CascadeRaises(view, payment_id[x]) THEN Idle
                      ELSE [@ EXCEPT !.step = "commit",
                                     !.writes = CascadeWrites(view, payment_id[x])]]
    /\ UNCHANGED <<rowVars, requestVars, stripe, events, processed, reconVars, faults>>

(* One commit: the refund, the cascade and the event's record.             *)
HookCommits(h) ==
    /\ hook[h].step = "commit"
    /\ hook[h].event \notin processed
    /\ LET e == hook[h].event
           p == payment_id[e.refund]
       IN  /\ refund' = [refund EXCEPT ![e.refund] =
                            IF hook[h].refund = e.status THEN @ ELSE e.status]
           /\ payment' = [payment EXCEPT ![p] =
                            IF "payment" \in hook[h].writes THEN "refunded" ELSE @]
           /\ invoice' = [invoice EXCEPT ![p] =
                            IF "invoice" \in hook[h].writes THEN "refunded" ELSE @]
           /\ processed' = processed \cup {e}
    /\ hook' = [hook EXCEPT ![h] = Idle]
    /\ UNCHANGED <<requestVars, stripe, events, reconVars, faults>>

HookRollsBack(h) ==
    /\ hook[h] # Idle
    /\ hook' = [hook EXCEPT ![h] = Idle]
    /\ UNCHANGED <<rowVars, requestVars, stripe, events, processed, reconVars, faults>>

-------------------------------------------------------------------------------
(* ReconciliationService.reconcile_refunds: load the PENDING refunds, ask  *)
(* the provider about each, commit everything at the end.                  *)

Running(r) == memory[r] # Nothing

ReconcileLoads(r) ==
    /\ ~Running(r)
    /\ \E x \in Refunds : refund[x] = "pending"
    /\ memory' = [memory EXCEPT ![r] =
                    [x \in Refunds |-> IF refund[x] = "pending" THEN "pending" ELSE None]]
    /\ todo' = [todo EXCEPT ![r] = {x \in Refunds : refund[x] = "pending"}]
    /\ UNCHANGED <<rowVars, requestVars, stripe, events, hookVars, refunding, closing,
                   faults>>

(* The provider's answer moves the refund in the session, and a success    *)
(* runs the cascade over the rows as the session sees them: its own, the   *)
(* others as they are committed by now.  An exception of the cascade is    *)
(* logged, and what it had moved stays in the session.  A payment that the *)
(* session has moved already stays as it is there, and so does its invoice.*)
Overlay(r, x, s) ==
    [y \in Refunds |-> IF y = x THEN s
                       ELSE IF memory[r][y] # None THEN memory[r][y] ELSE refund[y]]

ReconcileQueries(r, x) ==
    /\ x \in todo[r]
    /\ todo' = [todo EXCEPT ![r] = @ \ {x}]
    /\ LET s == ProviderRefundStatus(stripe[x])
           p == payment_id[x]
           writes == IF s = "succeeded" /\ p \notin refunding[r]
                     THEN CascadeWrites(Overlay(r, x, s), p) ELSE {}
       IN  /\ memory' = [memory EXCEPT ![r][x] = s]
           /\ refunding' = [refunding EXCEPT ![r] =
                               IF "payment" \in writes THEN @ \cup {p} ELSE @]
           /\ closing' = [closing EXCEPT ![r] =
                               IF "invoice" \in writes THEN @ \cup {p} ELSE @]
    /\ UNCHANGED <<rowVars, requestVars, stripe, events, hookVars, faults>>

ReconcileQueryFails(r, x) ==
    /\ x \in todo[r]
    /\ faults < MaxFaults
    /\ todo' = [todo EXCEPT ![r] = @ \ {x}]
    /\ faults' = faults + 1
    /\ UNCHANGED <<rowVars, requestVars, stripe, events, hookVars, memory, refunding,
                   closing>>

ResetRun(r) ==
    /\ memory' = [memory EXCEPT ![r] = Nothing]
    /\ todo' = [todo EXCEPT ![r] = {}]
    /\ refunding' = [refunding EXCEPT ![r] = {}]
    /\ closing' = [closing EXCEPT ![r] = {}]

MovedOrNot(r) ==                     \* mutant: every row it has loaded is written back
    {x \in Refunds : memory[r][x] # None}
Moved(r) == {x \in Refunds : memory[r][x] \notin {None, "pending"}}

ReconcileCommits(r) ==
    /\ Running(r) /\ todo[r] = {}
    /\ refund' = [x \in Refunds |-> IF x \in Moved(r) THEN memory[r][x] ELSE refund[x]]
    /\ payment' = [p \in Payments |-> IF p \in refunding[r] THEN "refunded" ELSE payment[p]]
    /\ invoice' = [p \in Payments |-> IF p \in closing[r] THEN "refunded" ELSE invoice[p]]
    /\ ResetRun(r)
    /\ UNCHANGED <<requestVars, stripe, events, hookVars, faults>>

ReconcileDies(r) ==
    /\ Running(r)
    /\ faults < MaxFaults
    /\ faults' = faults + 1
    /\ ResetRun(r)
    /\ UNCHANGED <<rowVars, requestVars, stripe, events, hookVars>>

-------------------------------------------------------------------------------
RequestNext ==
    \E x \in Refunds :
        \/ \E p \in Payments : \E a \in 0 .. Amount[p] : CreateRefund(x, p, a)
        \/ ProviderRefunds(x)
        \/ AbandonRefund(x)
        \/ CommitRefund(x)

HookNext ==
    \E h \in Hooks :
        \/ \E e \in Events : HookLoadsRefund(h, e)
        \/ HookCascades(h)
        \/ HookCommits(h)
        \/ HookRollsBack(h)

ReconcileNext ==
    \E r \in Reconcilers :
        \/ ReconcileLoads(r)
        \/ \E x \in Refunds : ReconcileQueries(r, x) \/ ReconcileQueryFails(r, x)
        \/ ReconcileCommits(r)
        \/ ReconcileDies(r)

Next ==
    \/ RequestNext
    \/ \E x \in Refunds, s \in StripeStatus : StripeMoves(x, s)
    \/ HookNext
    \/ ReconcileNext

Spec == Init /\ [][Next]_vars

(* Celery beat starts reconciliation again and again and a run goes on.    *)
ReconcileFairness ==
    \A r \in Reconcilers :
        /\ WF_vars(ReconcileLoads(r))
        /\ \A x \in Refunds : WF_vars(ReconcileQueries(r, x))
        /\ WF_vars(ReconcileCommits(r))

(* The provider delivers an event until it is answered, and a handler that *)
(* has begun goes on.                                                      *)
HookFairness ==
    \A h \in Hooks :
        /\ \A e \in Events : WF_vars(HookLoadsRefund(h, e))
        /\ WF_vars(HookCascades(h))
        /\ SF_vars(HookCommits(h))

FairSpec == Spec /\ ReconcileFairness
WebhookFairSpec == Spec /\ HookFairness

-------------------------------------------------------------------------------
(* What the provider has really given back of a payment.                   *)
Returned(p) == Total({x \in Refunds : payment_id[x] = p /\ stripe[x] = "succeeded"})

(* A refund, a payment and an invoice are recorded as refunded, and a      *)
(* refund as failed or cancelled, only when that is how it ended at the    *)
(* provider: webhooks and reconciliation runs that read the rows before    *)
(* another of them committed, and write them after, record nothing untrue. *)
RefundTruth ==
    /\ \A x \in Refunds :
          refund[x] \notin {None, "created", "pending"} =>
              refund[x] = ProviderRefundStatus(stripe[x])
    /\ \A p \in Payments :
          payment[p] = "refunded" \/ invoice[p] = "refunded" => Returned(p) >= Amount[p]

(* The cascade moves a payment and its invoice together.  It holds when    *)
(* every invoice of a collected payment is PAID; reconcile_refunds breaks  *)
(* it when reconciliation recorded the payment and left its invoice        *)
(* PENDING: it logs the cascade's exception and commits the half that      *)
(* preceded it.                                                            *)
RefundedTogether ==
    \A p \in Payments : payment[p] = "refunded" <=> invoice[p] = "refunded"

Quiet == (\A h \in Hooks : hook[h] = Idle) /\ (\A r \in Reconcilers : ~Running(r))

(* When no webhook and no reconciliation is at work, a payment that one    *)
(* completed refund covers is REFUNDED, whichever session recorded it and  *)
(* whatever else was being recorded at the time.                           *)
WholeRefundCascades ==
    Quiet => \A x \in Refunds :
        refund[x] = "succeeded" /\ amount[x] >= Amount[payment_id[x]] =>
            payment[payment_id[x]] = "refunded"

(* The same for refunds that cover a payment together.  Two sessions that  *)
(* each complete one of them and do not see the other's leave the payment  *)
(* as it was, and nothing looks at it again.                               *)
FullRefundCascades ==
    Quiet => \A p \in Payments : Covered(refund, p) => payment[p] = "refunded"

(* The refunds of a payment that have passed validation, whether their     *)
(* request is still under way or they are recorded as pending or           *)
(* completed, do not collectively exceed it.                               *)
ClaimsWithinPayment ==
    \A p \in Payments :
        Total({x \in Refunds : /\ payment_id[x] = p
                               /\ request[x] \in {"calling", "issued"} \/ refund[x] \in Counted})
            <= Amount[p]

(* A PENDING refund that has ended at the provider is settled here.        *)
(* Reconciliation alone does it (FairSpec), whatever becomes of webhooks   *)
(* and in spite of errors of the provider and crashes.  Webhooks alone,    *)
(* delivered until they are answered (WebhookFairSpec), do not do it for   *)
(* the spelling of "canceled".                                             *)
RefundSettles ==
    \A x \in Refunds :
        (refund[x] = "pending" /\ stripe[x] \in Ended) ~> (refund[x] # "pending")
-------------------------------------------------------------------------------
(* What all this amounts to.  The provider's refund is known by how it     *)
(* ended; what is on the way there, and the sessions and runs, are hidden. *)
Ledger == INSTANCE RefundLedger WITH
    outcome  <- [x \in Refunds |-> IF stripe[x] \in Ended
                                   THEN ProviderRefundStatus(stripe[x]) ELSE None],
    returned <- [p \in Payments |-> Returned(p)],
    row      <- refund,
    refunded <- {p \in Payments : payment[p] = "refunded"},
    closed   <- {p \in Payments : invoice[p] = "refunded"}

(* Webhooks and reconciliation, at once and from rows that others have     *)
(* changed since, do to the tables what a ledger kept in one place would:  *)
(* a refund is settled once and never reopened, and every commit that      *)
(* settles one of everything takes its payment along.                      *)
ImplementsLedger == Ledger!Spec
===============================================================================
