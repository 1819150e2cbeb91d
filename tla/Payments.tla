------------------------------- MODULE Payments -------------------------------
(***************************************************************************)
(* Payments of invoices: POST /payments and its retry, the provider's      *)
(* webhooks and the reconciliation job, over the rows they share.          *)
(*                                                                         *)
(* Every handler works in a database session of its own at READ COMMITTED  *)
(* isolation.  A session reads committed rows, keeps what it read, decides *)
(* on it and writes the columns it changed when it commits; no row is      *)
(* locked and no version is compared.  So a handler is modelled by its     *)
(* reads and its commit as separate actions, with the values it read kept  *)
(* in between: other handlers commit in that gap.  `invoice' and `payment' *)
(* are the committed rows.                                                 *)
(*                                                                         *)
(* The provider (Stripe) is external: a payment intent per attempt, which  *)
(* the customer and the bank move, and the events it emits.  An event may  *)
(* be delivered any number of times, in any order, or never.               *)
(***************************************************************************)
EXTENDS Naturals, Lifecycles

CONSTANTS
    Invoices,      \* the invoices that are to be paid
    MaxPayments,   \* bound: payment attempts made in a behaviour
    MaxDeclines,   \* bound: times a card is declined on one attempt
    MaxFaults,     \* bound: provider errors and crashes of reconciliation
    Hooks,         \* API processes handling webhooks; each one at a time
    Reconcilers,   \* runs of reconciliation that may overlap
    None           \* no value

ASSUME BoundsAreNaturals ==
    MaxPayments \in Nat /\ MaxDeclines \in Nat /\ MaxFaults \in Nat

ASSUME NoneIsNoStatus ==
    /\ None \notin InvoiceStatus \cup PaymentStatus \cup IntentStatus
    /\ None \notin Invoices

(* Attempts are numbered in the order their transactions start, which is   *)
(* the order of created_at (server default now()).                         *)
Payments == 1 .. MaxPayments

EventType == {"payment_intent.succeeded", "payment_intent.payment_failed",
              "payment_intent.canceled"}
Events == [type : EventType, payment : Payments, n : 0 .. MaxDeclines]

VARIABLES
    invoice,      \* committed status of each invoice
    payment,      \* committed status of each payment row; None: no row
    linked,       \* rows whose provider_payment_id is committed
    invoice_id,   \* the invoice an attempt is for
    request,      \* where the request that makes the attempt is
    seen,         \* the invoice status that request read
    intent,       \* the provider's payment intent; None: not created
    declines,     \* how often the intent was declined
    events,       \* events the provider has emitted
    processed,    \* events in processed_webhooks
    hook,         \* the session of each webhook handler
    loaded,       \* payments a reconciliation run loaded and has to ask about
    change,       \* payment statuses a reconciliation run will write
    faults        \* faults so far

requestVars  == <<linked, invoice_id, request, seen>>
providerVars == <<intent, declines, events>>
hookVars     == <<processed, hook>>
reconVars    == <<loaded, change, faults>>
vars == <<invoice, payment, requestVars, providerVars, hookVars, reconVars>>

ReconcilableInitiated == {"initiated"}     \* mutant: PROCESSING is forgotten
Reconcilable == {"initiated", "processing"}
Nothing == [p \in Payments |-> None]

Stages == {"unused", "calling", "charged", "answered", "ended"}
Idle == [step |-> "idle"]
Sessions == [step : {"invoice", "commit"}, event : Events,
             payment : PaymentStatus, invoice : InvoiceStatus \cup {None}]

TypeOK ==
    /\ invoice \in [Invoices -> InvoiceStatus]
    /\ payment \in [Payments -> PaymentStatus \cup {None}]
    /\ linked \in SUBSET Payments
    /\ invoice_id \in [Payments -> Invoices \cup {None}]
    /\ request \in [Payments -> Stages]
    /\ seen \in [Payments -> InvoiceStatus \cup {None}]
    /\ intent \in [Payments -> IntentStatus \cup {None}]
    /\ declines \in [Payments -> 0 .. MaxDeclines]
    /\ events \in SUBSET Events
    /\ processed \in SUBSET Events
    /\ hook \in [Hooks -> Sessions \cup {Idle}]
    /\ loaded \in [Reconcilers -> [Payments -> Reconcilable \cup {None}]]
    /\ change \in [Reconcilers -> [Payments -> PaymentStatus \cup {None}]]
    /\ faults \in 0 .. MaxFaults

(* Billing has inserted the invoices; nobody has tried to pay.             *)
Init ==
    /\ invoice = [i \in Invoices |-> "generated"]
    /\ payment = Nothing
    /\ linked = {}
    /\ invoice_id = Nothing
    /\ request = [p \in Payments |-> "unused"]
    /\ seen = Nothing
    /\ intent = Nothing
    /\ declines = [p \in Payments |-> 0]
    /\ events = {}
    /\ processed = {}
    /\ hook = [h \in Hooks |-> Idle]
    /\ loaded = [r \in Reconcilers |-> Nothing]
    /\ change = [r \in Reconcilers |-> Nothing]
    /\ faults = 0

-------------------------------------------------------------------------------
(* PaymentService.create_payment.  The invoice is read (with any status    *)
(* but VOIDED and PAID it goes on), the payment row is inserted and the    *)
(* provider is called inside one transaction, whose snapshot of the        *)
(* invoice is `seen'.                                                      *)

Payable(s) == s \notin {"voided", "paid"}

Begin(p, i) ==
    /\ request[p] = "unused"
    /\ \A q \in Payments : q < p => request[q] # "unused"
    /\ Payable(invoice[i])
    /\ request' = [request EXCEPT ![p] = "calling"]
    /\ invoice_id' = [invoice_id EXCEPT ![p] = i]
    /\ seen' = [seen EXCEPT ![p] = invoice[i]]
    /\ UNCHANGED <<invoice, payment, linked, providerVars, hookVars, reconVars>>

CreatePayment(p, i) == Begin(p, i)

(* retry_payment: the invoice is PENDING and its latest attempt FAILED,    *)
(* among the rows that are committed; then create_payment.                 *)
Retriable(i) ==
    /\ invoice[i] = "pending"
    /\ \E q \in Payments :
          /\ invoice_id[q] = i
          /\ payment[q] = "failed"
          /\ \A r \in Payments :
                invoice_id[r] = i /\ payment[r] # None => r <= q

RetryPayment(p, i) == Retriable(i) /\ Begin(p, i)

(* create_payment_intent returned.                                         *)
ProviderCreatesIntent(p) ==
    /\ request[p] = "calling"
    /\ request' = [request EXCEPT ![p] = "charged"]
    /\ intent' = [intent EXCEPT ![p] = "requires_payment_method"]
    /\ UNCHANGED <<invoice, payment, linked, invoice_id, seen, declines, events,
                   hookVars, reconVars>>

(* create_payment_intent raised.  The row is committed as FAILED, without  *)
(* a provider id, whether or not the provider has made the intent before   *)
(* the answer was lost; the invoice is left as it is.                      *)
ProviderRaises(p) ==
    /\ request[p] = "calling"
    /\ request' = [request EXCEPT ![p] = "ended"]
    /\ payment' = [payment EXCEPT ![p] = "failed"]
    /\ seen' = [seen EXCEPT ![p] = None]
    /\ \E made \in {None, "requires_payment_method"} :
          intent' = [intent EXCEPT ![p] = made]
    /\ UNCHANGED <<invoice, linked, invoice_id, declines, events, hookVars,
                   reconVars>>

(* The commit: the provider's id and INITIATED, and PENDING for an invoice *)
(* that was GENERATED when it was read.  Only then is the client secret    *)
(* returned.                                                               *)
InvoiceWriteNothing(read, current) == current      \* mutant: invoice not opened
InvoiceWriteWrongEnum(read, current) ==            \* mutant: the payment's status
    IF read = "generated" THEN "initiated" ELSE current

InvoiceWrite(read, current) == IF read = "generated" THEN "pending" ELSE current

(* Mutant: the provider's id is not stored.                                *)
CommitPaymentWithoutId(p) ==
    /\ request[p] = "charged"
    /\ request' = [request EXCEPT ![p] = "answered"]
    /\ payment' = [payment EXCEPT ![p] = "initiated"]
    /\ seen' = [seen EXCEPT ![p] = None]
    /\ invoice' = [invoice EXCEPT ![invoice_id[p]] = InvoiceWrite(seen[p], @)]
    /\ UNCHANGED <<linked, invoice_id, providerVars, hookVars, reconVars>>

CommitPayment(p) ==
    /\ request[p] = "charged"
    /\ request' = [request EXCEPT ![p] = "answered"]
    /\ payment' = [payment EXCEPT ![p] = "initiated"]
    /\ linked' = linked \cup {p}
    /\ seen' = [seen EXCEPT ![p] = None]
    /\ invoice' = [invoice EXCEPT ![invoice_id[p]] = InvoiceWrite(seen[p], @)]
    /\ UNCHANGED <<invoice_id, providerVars, hookVars, reconVars>>

(* The transaction ends without a commit: the process dies, the commit     *)
(* fails, or the project's provider is one the factory does not know.      *)
(* The row vanishes; an intent the provider has made stays.                *)
AbandonPayment(p) ==
    /\ request[p] \in {"calling", "charged"}
    /\ request' = [request EXCEPT ![p] = "ended"]
    /\ seen' = [seen EXCEPT ![p] = None]
    /\ IF request[p] = "charged"
       THEN UNCHANGED intent
       ELSE \E made \in {None, "requires_payment_method"} :
               intent' = [intent EXCEPT ![p] = made]
    /\ UNCHANGED <<invoice, payment, linked, invoice_id, declines, events,
                   hookVars, reconVars>>

-------------------------------------------------------------------------------
(* The provider.  The customer needs the client secret to confirm an       *)
(* intent.  "processing" stands for requires_action as well, which this    *)
(* program treats alike.                                                   *)

Event(t, p, n) == [type |-> t, payment |-> p, n |-> n]

CustomerConfirms(p) ==
    /\ request[p] = "answered"
    /\ intent[p] = "requires_payment_method"
    /\ intent' = [intent EXCEPT ![p] = "processing"]
    /\ UNCHANGED <<invoice, payment, requestVars, declines, events, hookVars,
                   reconVars>>

IntentSucceeds(p) ==
    /\ intent[p] = "processing"
    /\ intent' = [intent EXCEPT ![p] = "succeeded"]
    /\ events' = events \cup {Event("payment_intent.succeeded", p, 0)}
    /\ UNCHANGED <<invoice, payment, requestVars, declines, hookVars, reconVars>>

IntentDeclined(p) ==
    /\ intent[p] = "processing"
    /\ declines[p] < MaxDeclines
    /\ intent' = [intent EXCEPT ![p] = "requires_payment_method"]
    /\ declines' = [declines EXCEPT ![p] = @ + 1]
    /\ events' = events \cup
                    {Event("payment_intent.payment_failed", p, declines[p] + 1)}
    /\ UNCHANGED <<invoice, payment, requestVars, hookVars, reconVars>>

IntentCanceled(p) ==
    /\ intent[p] \in {"requires_payment_method", "processing"}
    /\ intent' = [intent EXCEPT ![p] = "canceled"]
    /\ events' = events \cup {Event("payment_intent.canceled", p, 0)}
    /\ UNCHANGED <<invoice, payment, requestVars, declines, hookVars, reconVars>>

-------------------------------------------------------------------------------
(* WebhookService.process_stripe_event and its payment handlers.  A        *)
(* delivery that changes nothing is not a step: an event already in        *)
(* processed_webhooks, a payment nobody knows, a payment already SUCCEEDED *)
(* (the handler returns before it records the event), and a transition     *)
(* that raises (the session is rolled back).                               *)

EventTarget(e) ==
    CASE e.type = "payment_intent.succeeded"      -> "succeeded"
      [] e.type = "payment_intent.payment_failed" -> "failed"
      [] e.type = "payment_intent.canceled"       -> "cancelled"

(* Mutant: the handler sets the status without asking the status service.  *)
AcceptableUnchecked(e) ==
    /\ e \notin processed
    /\ e.payment \in linked

Acceptable(e) ==
    /\ e \notin processed
    /\ e.payment \in linked
    /\ PaymentMayBecome(payment[e.payment], EventTarget(e))
    /\ EventTarget(e) = "succeeded" => payment[e.payment] # "succeeded"

HookLoadsPayment(h, e) ==
    /\ hook[h] = Idle
    /\ e \in events
    /\ Acceptable(e)
    /\ hook' = [hook EXCEPT ![h] =
                  [step    |-> IF EventTarget(e) = "succeeded"
                               THEN "invoice" ELSE "commit",
                   event   |-> e,
                   payment |-> payment[e.payment],
                   invoice |-> None]]
    /\ UNCHANGED <<invoice, payment, requestVars, providerVars, processed,
                   reconVars>>

(* handle_payment_succeeded loads payment.invoice lazily, after it has     *)
(* moved the payment in memory; an invoice that may not become PAID raises *)
(* and the session is rolled back.                                         *)
HookLoadsInvoice(h) ==
    /\ hook[h].step = "invoice"
    /\ LET i == invoice_id[hook[h].event.payment]
       IN  hook' = [hook EXCEPT ![h] =
                      IF InvoiceMayBecome(invoice[i], "paid")
                      THEN [@ EXCEPT !.step = "commit", !.invoice = invoice[i]]
                      ELSE Idle]
    /\ UNCHANGED <<invoice, payment, requestVars, providerVars, processed,
                   reconVars>>

(* ProcessedWebhookRepository.create commits the event's record together   *)
(* with the statuses that changed since they were read.  The unique        *)
(* constraint on the record rolls everything back when another process     *)
(* has recorded the event.                                                 *)
(* Mutant: the event is recorded in a commit of its own, before the effect *)
(* that is then lost.                                                      *)
HookWritesRecordFirst(s) ==
    processed' = processed \cup {s.event} /\ UNCHANGED <<payment, invoice>>

HookWrites(s) ==
    LET p == s.event.payment
        target == EventTarget(s.event)
    IN  /\ payment' = [payment EXCEPT ![p] = IF s.payment = target THEN @ ELSE target]
        /\ invoice' = [invoice EXCEPT ![invoice_id[p]] =
                          IF s.invoice \in {None, "paid"} THEN @ ELSE "paid"]
        /\ processed' = processed \cup {s.event}

HookCommits(h) ==
    /\ hook[h].step = "commit"
    /\ hook[h].event \notin processed
    /\ HookWrites(hook[h])
    /\ hook' = [hook EXCEPT ![h] = Idle]
    /\ UNCHANGED <<requestVars, providerVars, reconVars>>

HookRollsBack(h) ==
    /\ hook[h] # Idle
    /\ hook' = [hook EXCEPT ![h] = Idle]
    /\ UNCHANGED <<invoice, payment, requestVars, providerVars, processed,
                   reconVars>>

-------------------------------------------------------------------------------
(* ReconciliationService.reconcile_payments, one run r: load the payments  *)
(* that are INITIATED or PROCESSING, ask the provider about each, commit   *)
(* every change at the end.                                                *)

ReconcileLoads(r) ==
    /\ loaded[r] = Nothing /\ change[r] = Nothing
    /\ \E p \in Payments : payment[p] \in Reconcilable
    /\ loaded' = [loaded EXCEPT ![r] =
                    [p \in Payments |->
                        IF payment[p] \in Reconcilable THEN payment[p] ELSE None]]
    /\ UNCHANGED <<invoice, payment, requestVars, providerVars, hookVars,
                   change, faults>>

(* The row's status as it was loaded moves to the provider's; a transition *)
(* that raises is logged and the row is skipped.                           *)
ReconcileQueries(r, p) ==
    /\ loaded[r][p] # None
    /\ LET status == ProviderPaymentStatus(intent[p])
       IN  change' = [change EXCEPT ![r][p] =
                        IF /\ status # loaded[r][p]
                           /\ PaymentMayBecome(loaded[r][p], status)
                        THEN status ELSE None]
    /\ loaded' = [loaded EXCEPT ![r][p] = None]
    /\ UNCHANGED <<invoice, payment, requestVars, providerVars, hookVars, faults>>

(* The provider does not answer: the row is skipped in this run.           *)
ReconcileQueryFails(r, p) ==
    /\ loaded[r][p] # None
    /\ faults < MaxFaults
    /\ loaded' = [loaded EXCEPT ![r][p] = None]
    /\ faults' = faults + 1
    /\ UNCHANGED <<invoice, payment, requestVars, providerVars, hookVars, change>>

ReconcileWrites(r) ==
    payment' = [p \in Payments |->
                   IF change[r][p] # None THEN change[r][p] ELSE payment[p]]

ReconcileCommits(r) ==
    /\ loaded[r] = Nothing /\ change[r] # Nothing
    /\ ReconcileWrites(r)
    /\ change' = [change EXCEPT ![r] = Nothing]
    /\ UNCHANGED <<invoice, requestVars, providerVars, hookVars, loaded, faults>>

(* The worker dies, or the commit fails.                                   *)
ReconcileDies(r) ==
    /\ loaded[r] # Nothing \/ change[r] # Nothing
    /\ faults < MaxFaults
    /\ loaded' = [loaded EXCEPT ![r] = Nothing]
    /\ change' = [change EXCEPT ![r] = Nothing]
    /\ faults' = faults + 1
    /\ UNCHANGED <<invoice, payment, requestVars, providerVars, hookVars>>

-------------------------------------------------------------------------------
RequestNext ==
    \E p \in Payments :
        \/ \E i \in Invoices : CreatePayment(p, i) \/ RetryPayment(p, i)
        \/ ProviderCreatesIntent(p)
        \/ ProviderRaises(p)
        \/ CommitPayment(p)
        \/ AbandonPayment(p)

ProviderNext ==
    \E p \in Payments :
        \/ CustomerConfirms(p)
        \/ IntentSucceeds(p)
        \/ IntentDeclined(p)
        \/ IntentCanceled(p)

HookNext ==
    \E h \in Hooks :
        \/ \E e \in Events : HookLoadsPayment(h, e)
        \/ HookLoadsInvoice(h)
        \/ HookCommits(h)
        \/ HookRollsBack(h)

ReconcileNext ==
    \E r \in Reconcilers :
        \/ ReconcileLoads(r)
        \/ \E p \in Payments : ReconcileQueries(r, p) \/ ReconcileQueryFails(r, p)
        \/ ReconcileCommits(r)
        \/ ReconcileDies(r)

Next == RequestNext \/ ProviderNext \/ HookNext \/ ReconcileNext

Spec == Init /\ [][Next]_vars

(* Celery beat starts reconciliation every three minutes and a run that    *)
(* has started goes on.  Nothing makes a customer pay, a bank answer, a    *)
(* request be made or a webhook arrive.                                    *)
Fairness ==
    \A r \in Reconcilers :
        /\ WF_vars(ReconcileLoads(r))
        /\ \A p \in Payments : WF_vars(ReconcileQueries(r, p))
        /\ WF_vars(ReconcileCommits(r))

FairSpec == Spec /\ Fairness

-------------------------------------------------------------------------------
(* What payments promise.                                                  *)

(* A status that claims something about money is true of the provider:     *)
(* a SUCCEEDED payment was collected, a CANCELLED one never will be, and a *)
(* PAID invoice has an attempt that was collected.  Stale commits, late    *)
(* events and overlapping runs do not falsify it.                          *)
StatusTellsTruth ==
    /\ \A p \in Payments :
          /\ payment[p] = "succeeded" => intent[p] = "succeeded"
          /\ payment[p] = "cancelled" => intent[p] = "canceled"
    /\ \A i \in Invoices :
          invoice[i] = "paid" =>
             \E p \in Payments : invoice_id[p] = i /\ intent[p] = "succeeded"

(* The customer is never charged through an intent the database does not   *)
(* know: the client secret leaves create_payment only after the commit of  *)
(* the row that holds the provider's id, whatever crashed before.          *)
ChargedPaymentIsKnown ==
    \A p \in Payments :
        intent[p] \in {"processing", "succeeded"} =>
            p \in linked /\ payment[p] # None

(* An invoice with an attempt the provider knows has left GENERATED, so a  *)
(* succeeded event finds it in a status from which PAID can be reached,    *)
(* whichever of several concurrent creations commits first.                *)
AttemptOpensInvoice ==
    \A p \in linked : invoice[invoice_id[p]] # "generated"

(* processed_webhooks and the effect of a succeeded event are one commit:  *)
(* in the step that records the event its payment becomes SUCCEEDED.  Were *)
(* they two, a crash between them would lose the event for good, since a   *)
(* redelivery is turned away.  (A failed or canceled event that finds the  *)
(* status it brings writes nothing, and a run of reconciliation may have   *)
(* put an older status back by the time it is recorded.)                   *)
CollectionRecordedWithEffect ==
    [][\A e \in processed' \ processed :
          EventTarget(e) = "succeeded" => payment'[e.payment] = "succeeded"]_vars

(* A payment whose intent has reached its end leaves INITIATED and         *)
(* PROCESSING for good, although webhooks may be lost and earlier runs of  *)
(* reconciliation may still hold what they read before.                    *)
ReconciliationSettles ==
    \A p \in Payments :
        (p \in linked /\ intent[p] \in {"succeeded", "canceled"})
            ~> [](payment[p] \notin {"initiated", "processing"})

(* Without reconciliation, and with one API process (its event loop runs   *)
(* one webhook handler at a time), what an event has settled stays: no     *)
(* late or reordered event undoes a recorded success.                      *)
RecordedCollectionStays ==
    \A e \in processed :
        EventTarget(e) = "succeeded" => payment[e.payment] = "succeeded"

(* Every committed change of a payment follows ALLOWED_TRANSITIONS.  So it *)
(* is in one API process without reconciliation.  With it, a run commits   *)
(* what it decided from a row read before a webhook's commit.              *)
LegalPaymentTransitions ==
    [][\A p \in Payments :
          payment[p] # None => PaymentMayBecome(payment[p], payment'[p])]_vars

(* Every committed change of an invoice follows ALLOWED_TRANSITIONS: a     *)
(* PAID invoice does not return to PENDING.  create_payment commits what   *)
(* it decided from an invoice read before it called the provider.          *)
LegalInvoiceTransitions ==
    [][\A i \in Invoices : InvoiceMayBecome(invoice[i], invoice'[i])]_vars

(* A payment recorded as SUCCEEDED gets its invoice PAID, also when it was *)
(* reconciliation that recorded it.                                        *)
SucceededPaymentPaysInvoice ==
    \A p \in Payments, i \in Invoices :
        (payment[p] = "succeeded" /\ invoice_id[p] = i) ~> invoice[i] = "paid"

(* Money the provider has collected is recorded as SUCCEEDED, at the       *)
(* latest by reconciliation.                                               *)
CollectedMoneyIsRecorded ==
    \A p \in Payments : intent[p] = "succeeded" ~> payment[p] = "succeeded"
===============================================================================
