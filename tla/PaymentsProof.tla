----------------------------- MODULE PaymentsProof -----------------------------
(***************************************************************************)
(* Theorems about Payments, for any number of invoices, attempts, webhook  *)
(* processes and overlapping reconciliation runs.                          *)
(***************************************************************************)
EXTENDS Payments, TLAPS

-------------------------------------------------------------------------------
(* The operators of Lifecycles stay inside the status sets.                *)

(* The provider's status, translated, is one of this program's statuses,   *)
(* and it claims the end of an intent only when the provider says so.      *)
LEMMA ProviderStatusFact ==
    ASSUME NEW s
    PROVE  /\ ProviderPaymentStatus(s) \in PaymentStatus
           /\ ProviderPaymentStatus(s) = "succeeded" => s = "succeeded"
           /\ ProviderPaymentStatus(s) = "cancelled" => s = "canceled"
BY DEF ProviderPaymentStatus, PaymentStatus

(* None is none of the names of statuses.                                  *)
LEMMA PaymentStatusNames ==
    None \notin {"succeeded", "failed", "cancelled", "initiated"}
BY NoneIsNoStatus DEF PaymentStatus

(* Every event a handler is written for has a payment status as target.    *)
LEMMA EventTargetFact ==
    ASSUME NEW e \in Events
    PROVE  EventTarget(e) \in {"succeeded", "failed", "cancelled"}
BY DEF EventTarget, Events, EventType

-------------------------------------------------------------------------------
(* The inductive invariant.                                                *)

(* What the stages of a request and the sessions say about the rows: a     *)
(* request that has begun has its invoice and has read its status, a row   *)
(* with the provider's id is a committed one, and a webhook session holds  *)
(* an event that was emitted, for such a row.  An intent comes into being  *)
(* with the provider call.                                                 *)
Coherent ==
    /\ \A p \in Payments :
          /\ request[p] # "unused" => invoice_id[p] \in Invoices
          /\ request[p] \in {"calling", "charged"} => seen[p] \in InvoiceStatus
          /\ request[p] \in {"unused", "calling"} => intent[p] = None
          /\ request[p] = "answered" <=> p \in linked
          /\ p \in linked => payment[p] # None
    /\ \A h \in Hooks :
          hook[h] # Idle =>
             /\ hook[h].event \in events
             /\ hook[h].event.payment \in linked

(* Claims about money that are on their way to a committed row are true    *)
(* already: an event of success or cancellation is emitted after the       *)
(* intent has ended so, a run of reconciliation will write only what the   *)
(* provider answered, and only a succeeded event touches an invoice.       *)
(* Intents that have ended stay so: that makes stale writes harmless here. *)
ClaimsTrue(status, p) ==
    /\ status = "succeeded" => intent[p] = "succeeded"
    /\ status = "cancelled" => intent[p] = "canceled"

PendingClaims ==
    /\ \A e \in events : ClaimsTrue(EventTarget(e), e.payment)
    /\ \A r \in Reconcilers, p \in Payments : ClaimsTrue(change[r][p], p)
    /\ \A h \in Hooks :
          /\ hook[h] # Idle
          /\ hook[h].step = "invoice" \/ hook[h].invoice # None
          => EventTarget(hook[h].event) = "succeeded"

(* Why an attempt opens its invoice: a request that read another status    *)
(* than GENERATED read it from an invoice that has left it, for good.      *)
OpenedBefore ==
    \A p \in Payments :
        request[p] \in {"calling", "charged"} /\ seen[p] # "generated"
            => invoice[invoice_id[p]] # "generated"

(* A handler of a succeeded event has found its payment in another status: *)
(* its commit writes the column.                                           *)
WillWrite ==
    \A h \in Hooks :
        /\ hook[h] # Idle
        /\ EventTarget(hook[h].event) = "succeeded"
        => hook[h].payment # "succeeded"

IInv == /\ TypeOK
        /\ Coherent
        /\ PendingClaims
        /\ StatusTellsTruth
        /\ ChargedPaymentIsKnown
        /\ OpenedBefore
        /\ AttemptOpensInvoice
        /\ WillWrite

-------------------------------------------------------------------------------
(* Type correctness: one step per action of Next.                          *)

(* The initial state has the types.                                        *)
LEMMA TypeInit == Init => TypeOK
BY BoundsAreNaturals
   DEF Init, TypeOK, InvoiceStatus, PaymentStatus, Stages, Nothing, Sessions,
       Idle, Payments

(* Every step keeps the types, one case per action.                        *)
LEMMA TypeStep == TypeOK /\ Coherent /\ [Next]_vars => TypeOK'
<1> SUFFICES ASSUME TypeOK, Coherent, [Next]_vars
             PROVE  TypeOK'
  OBVIOUS
<1> USE BoundsAreNaturals DEF TypeOK
<1>1. ASSUME NEW p \in Payments, NEW i \in Invoices, Begin(p, i)
      PROVE  TypeOK'
  BY <1>1 DEF Begin, Stages, providerVars, hookVars, reconVars
<1>2. ASSUME NEW p \in Payments, ProviderCreatesIntent(p)
      PROVE  TypeOK'
  BY <1>2 DEF ProviderCreatesIntent, Stages, IntentStatus, hookVars, reconVars
<1>3. ASSUME NEW p \in Payments, ProviderRaises(p)
      PROVE  TypeOK'
  BY <1>3 DEF ProviderRaises, Stages, IntentStatus, PaymentStatus, hookVars,
              reconVars
<1>4. ASSUME NEW p \in Payments, CommitPayment(p)
      PROVE  TypeOK'
  BY <1>4 DEF CommitPayment, InvoiceWrite, Stages, PaymentStatus, InvoiceStatus,
              providerVars, hookVars, reconVars
<1>5. ASSUME NEW p \in Payments, AbandonPayment(p)
      PROVE  TypeOK'
  BY <1>5 DEF AbandonPayment, Stages, IntentStatus, hookVars, reconVars
<1>6. ASSUME NEW p \in Payments, CustomerConfirms(p)
      PROVE  TypeOK'
  BY <1>6 DEF CustomerConfirms, IntentStatus, requestVars, hookVars, reconVars
<1>7. ASSUME NEW p \in Payments, IntentSucceeds(p)
      PROVE  TypeOK'
  BY <1>7 DEF IntentSucceeds, IntentStatus, Event, Events, EventType,
              requestVars, hookVars, reconVars
<1>8. ASSUME NEW p \in Payments, IntentDeclined(p)
      PROVE  TypeOK'
  BY <1>8 DEF IntentDeclined, IntentStatus, Event, Events, EventType,
              requestVars, hookVars, reconVars
<1>9. ASSUME NEW p \in Payments, IntentCanceled(p)
      PROVE  TypeOK'
  BY <1>9 DEF IntentCanceled, IntentStatus, Event, Events, EventType,
              requestVars, hookVars, reconVars
<1>10. ASSUME NEW h \in Hooks, NEW e \in Events, HookLoadsPayment(h, e)
       PROVE  TypeOK'
  <2>1. e.payment \in Payments
    BY DEF Events
  <2>2. payment[e.payment] \in PaymentStatus
    BY <1>10, <2>1 DEF HookLoadsPayment, Acceptable, Coherent
  <2> QED
    BY <1>10, <2>2 DEF HookLoadsPayment, Sessions, requestVars, providerVars,
                       reconVars
<1>11. ASSUME NEW h \in Hooks, HookLoadsInvoice(h)
       PROVE  TypeOK'
  <2> DEFINE i == invoice_id[hook[h].event.payment]
  <2>1. hook[h] \in Sessions
    BY <1>11 DEF HookLoadsInvoice, Idle
  <2>2. CASE InvoiceMayBecome(invoice[i], "paid")
    <3>1. invoice[i] \in InvoiceStatus
      BY <1>11, <2>1 DEF HookLoadsInvoice, Coherent, Idle, Sessions, Events
    <3> QED
      BY <1>11, <2>1, <2>2, <3>1 DEF HookLoadsInvoice, Sessions, requestVars, providerVars,
                       reconVars
  <2>3. CASE ~InvoiceMayBecome(invoice[i], "paid")
    BY <1>11, <2>3 DEF HookLoadsInvoice, requestVars, providerVars, reconVars
  <2> QED
    BY <2>2, <2>3
<1>12. ASSUME NEW h \in Hooks, HookCommits(h)
       PROVE  TypeOK'
  <2>1. hook[h] \in Sessions
    BY <1>12 DEF HookCommits, Idle
  <2>2. /\ hook[h].event \in Events
        /\ EventTarget(hook[h].event) \in PaymentStatus
    BY <2>1, EventTargetFact DEF Sessions, PaymentStatus
  <2> QED
    BY <1>12, <2>2, NoneIsNoStatus DEF HookCommits, HookWrites, InvoiceStatus,
       requestVars, providerVars, reconVars
<1>13. ASSUME NEW h \in Hooks, HookRollsBack(h)
       PROVE  TypeOK'
  BY <1>13 DEF HookRollsBack, requestVars, providerVars, reconVars
<1>14. ASSUME NEW r \in Reconcilers, ReconcileLoads(r)
       PROVE  TypeOK'
  BY <1>14 DEF ReconcileLoads, requestVars, providerVars, hookVars
<1>15. ASSUME NEW r \in Reconcilers, NEW p \in Payments, ReconcileQueries(r, p)
       PROVE  TypeOK'
  BY <1>15, ProviderStatusFact DEF ReconcileQueries, requestVars, providerVars, hookVars
<1>16. ASSUME NEW r \in Reconcilers, NEW p \in Payments, ReconcileQueryFails(r, p)
       PROVE  TypeOK'
  BY <1>16 DEF ReconcileQueryFails, requestVars, providerVars, hookVars
<1>17. ASSUME NEW r \in Reconcilers, ReconcileCommits(r)
       PROVE  TypeOK'
  BY <1>17 DEF ReconcileCommits, ReconcileWrites, Nothing, requestVars,
               providerVars, hookVars
<1>18. ASSUME NEW r \in Reconcilers, ReconcileDies(r)
       PROVE  TypeOK'
  BY <1>18 DEF ReconcileDies, Nothing, requestVars, providerVars, hookVars
<1>19. CASE UNCHANGED vars
  BY <1>19 DEF vars, requestVars, providerVars, hookVars, reconVars
<1> QED
  BY <1>1, <1>2, <1>3, <1>4, <1>5, <1>6, <1>7, <1>8, <1>9, <1>10, <1>11, <1>12,
     <1>13, <1>14, <1>15, <1>16, <1>17, <1>18, <1>19
     DEF Next, RequestNext, CreatePayment, RetryPayment, ProviderNext, HookNext,
         ReconcileNext

-------------------------------------------------------------------------------
(* Coherence.                                                              *)

(* Every step keeps request, row, link and intent of an attempt in accord. *)
LEMMA CoherentStep == TypeOK /\ Coherent /\ [Next]_vars => Coherent'
<1> SUFFICES ASSUME TypeOK, Coherent, [Next]_vars
             PROVE  Coherent'
  OBVIOUS
<1> USE NoneIsNoStatus DEF TypeOK, Coherent
<1>1. ASSUME NEW p \in Payments, NEW i \in Invoices, Begin(p, i)
      PROVE  Coherent'
  BY <1>1 DEF Begin, providerVars, hookVars, reconVars, Stages
<1>2. ASSUME NEW p \in Payments, ProviderCreatesIntent(p)
      PROVE  Coherent'
  BY <1>2 DEF ProviderCreatesIntent, hookVars, reconVars, Stages
<1>3. ASSUME NEW p \in Payments, ProviderRaises(p)
      PROVE  Coherent'
  BY <1>3 DEF ProviderRaises, hookVars, reconVars, PaymentStatus
<1>4. ASSUME NEW p \in Payments, CommitPayment(p)
      PROVE  Coherent'
  BY <1>4 DEF CommitPayment, providerVars, hookVars, reconVars, PaymentStatus
<1>5. ASSUME NEW p \in Payments, AbandonPayment(p)
      PROVE  Coherent'
  BY <1>5 DEF AbandonPayment, hookVars, reconVars
<1>6. ASSUME NEW p \in Payments,
             \/ CustomerConfirms(p)
             \/ IntentSucceeds(p)
             \/ IntentDeclined(p)
             \/ IntentCanceled(p)
      PROVE  Coherent'
  <2>1. /\ intent[p] # None
        /\ \A q \in Payments : intent'[q] = None <=> intent[q] = None
        /\ events \subseteq events'
        /\ UNCHANGED <<invoice, payment, requestVars, hookVars>>
    BY <1>6 DEF CustomerConfirms, IntentSucceeds, IntentDeclined, IntentCanceled,
                IntentStatus
  <2> QED
    BY <2>1 DEF requestVars, hookVars
<1>7. ASSUME NEW h \in Hooks, NEW e \in Events, HookLoadsPayment(h, e)
      PROVE  Coherent'
  BY <1>7 DEF HookLoadsPayment, Acceptable, requestVars, providerVars, reconVars
<1>8. ASSUME NEW h \in Hooks, HookLoadsInvoice(h)
      PROVE  Coherent'
  <2>1. hook[h] \in Sessions
    BY <1>8 DEF HookLoadsInvoice, Idle
  <2>2. /\ hook'[h] # Idle => hook'[h].event = hook[h].event
        /\ hook[h] # Idle
        /\ \A g \in Hooks \ {h} : hook'[g] = hook[g]
    BY <1>8, <2>1 DEF HookLoadsInvoice, Idle, Sessions
  <2> QED
    BY <1>8, <2>2 DEF HookLoadsInvoice, requestVars, providerVars, reconVars
<1>9. ASSUME NEW h \in Hooks, HookCommits(h)
      PROVE  Coherent'
  <2>1. hook[h] \in Sessions
    BY <1>9 DEF HookCommits, Idle
  <2>2. EventTarget(hook[h].event) # None
    BY <2>1, EventTargetFact DEF Sessions, PaymentStatus
  <2> QED
    BY <1>9, <2>2 DEF HookCommits, HookWrites, requestVars, providerVars, reconVars
<1>10. ASSUME NEW h \in Hooks, HookRollsBack(h)
       PROVE  Coherent'
  BY <1>10 DEF HookRollsBack, requestVars, providerVars, reconVars
<1>11. ASSUME NEW r \in Reconcilers, ReconcileCommits(r)
       PROVE  Coherent'
  BY <1>11 DEF ReconcileCommits, ReconcileWrites, requestVars, providerVars, hookVars
<1>12. ASSUME NEW r \in Reconcilers,
              \/ ReconcileLoads(r)
              \/ \E p \in Payments : ReconcileQueries(r, p) \/ ReconcileQueryFails(r, p)
              \/ ReconcileDies(r)
       PROVE  Coherent'
  BY <1>12 DEF ReconcileLoads, ReconcileQueries, ReconcileQueryFails, ReconcileDies,
               requestVars, providerVars, hookVars
<1>13. CASE UNCHANGED vars
  BY <1>13 DEF vars, requestVars, providerVars, hookVars, reconVars
<1> QED
  BY <1>1, <1>2, <1>3, <1>4, <1>5, <1>6, <1>7, <1>8, <1>9, <1>10, <1>11, <1>12, <1>13
     DEF Next, RequestNext, CreatePayment, RetryPayment, ProviderNext, HookNext,
         ReconcileNext

-------------------------------------------------------------------------------
(* Claims about money.                                                     *)

(* An intent that has ended stays as it is, and an attempt that has an     *)
(* intent stays with its invoice.                                          *)
LEMMA EndedIntentsStay ==
    ASSUME TypeOK, Coherent, [Next]_vars, NEW p \in Payments
    PROVE  /\ intent[p] \in {"succeeded", "canceled"} => intent'[p] = intent[p]
           /\ intent[p] # None => invoice_id'[p] = invoice_id[p]
           /\ p \in linked => p \in linked' /\ invoice_id'[p] = invoice_id[p]
<1> USE NoneIsNoStatus DEF TypeOK, Coherent
<1>1. CASE RequestNext
  <2>1. ASSUME NEW q \in Payments, NEW i \in Invoices, Begin(q, i)
        PROVE  /\ intent' = intent /\ linked' = linked
               /\ request[p] # "unused" => invoice_id'[p] = invoice_id[p]
    BY <2>1 DEF Begin, providerVars
  <2>2. ASSUME NEW q \in Payments,
               \/ ProviderCreatesIntent(q)
               \/ ProviderRaises(q)
               \/ CommitPayment(q)
               \/ AbandonPayment(q)
        PROVE  /\ invoice_id' = invoice_id /\ linked \subseteq linked'
               /\ intent[p] \in {"succeeded", "canceled"} => intent'[p] = intent[p]
    <3>1. CASE ProviderCreatesIntent(q)
      BY <3>1 DEF ProviderCreatesIntent, IntentStatus
    <3>2. CASE ProviderRaises(q)
      BY <3>2 DEF ProviderRaises, IntentStatus
    <3>3. CASE CommitPayment(q)
      BY <3>3 DEF CommitPayment, providerVars
    <3>4. CASE AbandonPayment(q)
      BY <3>4 DEF AbandonPayment, IntentStatus
    <3> QED
      BY <2>2, <3>1, <3>2, <3>3, <3>4
  <2> QED
    BY <1>1, <2>1, <2>2 DEF RequestNext, CreatePayment, RetryPayment
<1>2. CASE ProviderNext
  BY <1>2 DEF ProviderNext, CustomerConfirms, IntentSucceeds, IntentDeclined,
              IntentCanceled, requestVars
<1>3. CASE HookNext
  BY <1>3 DEF HookNext, HookLoadsPayment, HookLoadsInvoice, HookCommits,
              HookRollsBack, requestVars, providerVars
<1>4. CASE ReconcileNext
  BY <1>4 DEF ReconcileNext, ReconcileLoads, ReconcileQueries, ReconcileQueryFails,
              ReconcileCommits, ReconcileDies, requestVars, providerVars
<1>5. CASE UNCHANGED vars
  BY <1>5 DEF vars, requestVars, providerVars
<1> QED
  BY <1>1, <1>2, <1>3, <1>4, <1>5 DEF Next

(* No claim that is committed or on its way is ever false.                 *)
LEMMA ClaimsStep ==
    ASSUME TypeOK, Coherent, PendingClaims, StatusTellsTruth, [Next]_vars
    PROVE  PendingClaims' /\ StatusTellsTruth'
<1> USE NoneIsNoStatus DEF TypeOK, Coherent, IntentStatus
<1>a. \A p \in Payments :
         intent[p] \in {"succeeded", "canceled"} => intent'[p] = intent[p]
  BY EndedIntentsStay
<1>b. \A e \in events : e.payment \in Payments
  BY DEF Events
(* A step that adds no claim keeps the pending ones.                       *)
<1>c. ASSUME events' = events, change' = change, hook' = hook
      PROVE  PendingClaims'
  BY <1>a, <1>b, <1>c DEF PendingClaims, ClaimsTrue
(* A step that writes no row keeps the committed ones.                     *)
<1>d. ASSUME invoice' = invoice, payment' = payment
      PROVE  StatusTellsTruth'
  <2>1. ASSUME NEW i \in Invoices, invoice'[i] = "paid"
        PROVE  \E p \in Payments : invoice_id'[p] = i /\ intent'[p] = "succeeded"
    <3>1. PICK p \in Payments : invoice_id[p] = i /\ intent[p] = "succeeded"
      BY <1>d, <2>1 DEF StatusTellsTruth
    <3> QED
      BY <3>1, EndedIntentsStay
  <2> QED
    BY <1>a, <1>d, <2>1 DEF StatusTellsTruth
<1>1. CASE RequestNext
  <2>1. /\ events' = events /\ change' = change /\ hook' = hook
        /\ \A p \in Payments :
              payment'[p] \in {payment[p], "failed", "initiated"}
        /\ \A i \in Invoices : invoice'[i] \in {invoice[i], "pending"}
    <3>1. ASSUME NEW q \in Payments, CommitPayment(q)
          PROVE  \A i \in Invoices : invoice'[i] \in {invoice[i], "pending"}
      BY <3>1 DEF CommitPayment, InvoiceWrite
    <3> QED
      BY <1>1, <3>1 DEF RequestNext, CreatePayment, RetryPayment, Begin,
         ProviderCreatesIntent, ProviderRaises, CommitPayment, AbandonPayment,
         providerVars, hookVars, reconVars
  <2>2. ASSUME NEW i \in Invoices, invoice'[i] = "paid"
        PROVE  \E p \in Payments : invoice_id'[p] = i /\ intent'[p] = "succeeded"
    <3>1. PICK p \in Payments : invoice_id[p] = i /\ intent[p] = "succeeded"
      BY <2>1, <2>2 DEF StatusTellsTruth
    <3> QED
      BY <3>1, EndedIntentsStay
  <2> QED
    BY <1>a, <1>c, <2>1, <2>2 DEF StatusTellsTruth
<1>2. CASE ProviderNext
  <2>1. /\ change' = change /\ hook' = hook
        /\ invoice' = invoice /\ payment' = payment
    BY <1>2 DEF ProviderNext, CustomerConfirms, IntentSucceeds, IntentDeclined,
       IntentCanceled, requestVars, hookVars, reconVars
  <2>2. ASSUME NEW e \in events'
        PROVE  ClaimsTrue(EventTarget(e), e.payment)'
    <3>1. CASE e \in events
      BY <1>a, <1>b, <3>1 DEF PendingClaims, ClaimsTrue
    <3>2. ASSUME NEW p \in Payments, IntentSucceeds(p), e \notin events
          PROVE  ClaimsTrue(EventTarget(e), e.payment)'
      BY <3>2 DEF IntentSucceeds, Event, EventTarget, ClaimsTrue
    <3>3. ASSUME NEW p \in Payments, IntentDeclined(p), e \notin events
          PROVE  ClaimsTrue(EventTarget(e), e.payment)'
      BY <3>3 DEF IntentDeclined, Event, EventTarget, ClaimsTrue
    <3>4. ASSUME NEW p \in Payments, IntentCanceled(p), e \notin events
          PROVE  ClaimsTrue(EventTarget(e), e.payment)'
      BY <3>4 DEF IntentCanceled, Event, EventTarget, ClaimsTrue
    <3>5. ASSUME NEW p \in Payments, CustomerConfirms(p)
          PROVE  e \in events
      BY <3>5 DEF CustomerConfirms
    <3> QED
      BY <1>2, <3>1, <3>2, <3>3, <3>4, <3>5 DEF ProviderNext
  <2>3. PendingClaims'
    BY <1>a, <2>1, <2>2 DEF PendingClaims, ClaimsTrue
  <2> QED
    BY <1>d, <2>1, <2>3
<1>3. CASE HookNext
  <2>1. ASSUME NEW h \in Hooks, NEW e \in Events, HookLoadsPayment(h, e)
        PROVE  PendingClaims' /\ StatusTellsTruth'
    <3>1. \A g \in Hooks \ {h} : hook'[g] = hook[g]
      BY <2>1 DEF HookLoadsPayment
    <3>2. /\ hook'[h].invoice = None
          /\ hook'[h].step = "invoice" => EventTarget(hook'[h].event) = "succeeded"
      BY <2>1 DEF HookLoadsPayment
    <3>3. events' = events /\ change' = change /\ invoice' = invoice /\ payment' = payment
      BY <2>1 DEF HookLoadsPayment, providerVars, reconVars
    <3>4. PendingClaims'
      BY <1>a, <1>b, <3>1, <3>2, <3>3 DEF PendingClaims, ClaimsTrue
    <3> QED
      BY <1>d, <3>3, <3>4
  <2>2. ASSUME NEW h \in Hooks, HookLoadsInvoice(h)
        PROVE  PendingClaims' /\ StatusTellsTruth'
    <3>1. \A g \in Hooks \ {h} : hook'[g] = hook[g]
      BY <2>2 DEF HookLoadsInvoice
    <3>2. hook[h] \in Sessions
      BY <2>2 DEF HookLoadsInvoice, Idle
    <3>3. hook'[h] # Idle => hook'[h].event = hook[h].event
      BY <2>2, <3>2 DEF HookLoadsInvoice, Sessions
    <3>4. EventTarget(hook[h].event) = "succeeded"
      BY <2>2, <3>2 DEF HookLoadsInvoice, PendingClaims, Idle
    <3>5. events' = events /\ change' = change /\ invoice' = invoice /\ payment' = payment
      BY <2>2 DEF HookLoadsInvoice, providerVars, reconVars
    <3>6. PendingClaims'
      BY <1>a, <1>b, <3>1, <3>3, <3>4, <3>5 DEF PendingClaims, ClaimsTrue
    <3> QED
      BY <1>d, <3>5, <3>6
  <2>3. ASSUME NEW h \in Hooks, HookCommits(h)
        PROVE  PendingClaims' /\ StatusTellsTruth'
    <3> DEFINE e == hook[h].event
    <3>1. hook[h] \in Sessions /\ hook[h] # Idle
      BY <2>3 DEF HookCommits, Idle
    <3>2. /\ events' = events /\ change' = change /\ intent' = intent
          /\ invoice_id' = invoice_id
          /\ hook' = [hook EXCEPT ![h] = Idle]
          /\ HookWrites(hook[h])
      BY <2>3 DEF HookCommits, requestVars, providerVars, reconVars
    <3>3. PendingClaims'
      BY <3>2 DEF PendingClaims, ClaimsTrue
    <3>4. ASSUME NEW p \in Payments
          PROVE  /\ payment'[p] = "succeeded" => intent'[p] = "succeeded"
                 /\ payment'[p] = "cancelled" => intent'[p] = "canceled"
      <4>1. payment'[p] \in {payment[p]}
               \cup (IF p = e.payment THEN {EventTarget(e)} ELSE {})
        BY <3>1, <3>2 DEF HookWrites, Sessions
      <4>2. ClaimsTrue(EventTarget(e), e.payment)
        BY <3>1 DEF PendingClaims
      <4> QED
        BY <3>2, <4>1, <4>2 DEF ClaimsTrue, StatusTellsTruth
    <3>5. ASSUME NEW i \in Invoices, invoice'[i] = "paid"
          PROVE  \E p \in Payments : invoice_id'[p] = i /\ intent'[p] = "succeeded"
      <4>1. CASE invoice[i] = "paid"
        BY <3>2, <4>1 DEF StatusTellsTruth
      <4>2. CASE invoice[i] # "paid"
        <5>1. i = invoice_id[e.payment] /\ hook[h].invoice # None
          BY <3>2, <3>5, <4>2 DEF HookWrites
        <5>2. EventTarget(e) = "succeeded" /\ e \in events
          BY <3>1, <5>1 DEF PendingClaims
        <5>3. e.payment \in Payments /\ intent[e.payment] = "succeeded"
          BY <1>b, <5>2 DEF PendingClaims, ClaimsTrue
        <5> QED
          BY <3>2, <5>1, <5>3
      <4> QED
        BY <4>1, <4>2
    <3> QED
      BY <3>3, <3>4, <3>5 DEF StatusTellsTruth
  <2>4. ASSUME NEW h \in Hooks, HookRollsBack(h)
        PROVE  PendingClaims' /\ StatusTellsTruth'
    <3>1. events' = events /\ change' = change /\ invoice' = invoice /\ payment' = payment
      BY <2>4 DEF HookRollsBack, providerVars, reconVars
    <3>2. PendingClaims'
      BY <1>a, <1>b, <2>4, <3>1 DEF HookRollsBack, PendingClaims, ClaimsTrue
    <3> QED
      BY <1>d, <3>1, <3>2
  <2> QED
    BY <1>3, <2>1, <2>2, <2>3, <2>4 DEF HookNext
<1>4. CASE ReconcileNext
  <2>1. events' = events /\ hook' = hook /\ invoice' = invoice
    BY <1>4 DEF ReconcileNext, ReconcileLoads, ReconcileQueries,
       ReconcileQueryFails, ReconcileCommits, ReconcileDies, providerVars, hookVars
  <2>2. ASSUME NEW r \in Reconcilers, NEW p \in Payments, ReconcileQueries(r, p)
        PROVE  PendingClaims' /\ StatusTellsTruth'
    <3>1. \A s \in Reconcilers, q \in Payments :
             change'[s][q] \in {change[s][q], None}
                 \cup (IF q = p THEN {ProviderPaymentStatus(intent[p])} ELSE {})
      BY <2>2 DEF ReconcileQueries
    <3>2. ClaimsTrue(ProviderPaymentStatus(intent[p]), p)
      BY ProviderStatusFact DEF ClaimsTrue
    <3>3. ASSUME NEW s \in Reconcilers, NEW q \in Payments
          PROVE  ClaimsTrue(change[s][q], q)'
      BY <1>a, <3>1, <3>2, PaymentStatusNames DEF PendingClaims, ClaimsTrue
    <3>4. PendingClaims'
      BY <1>a, <1>b, <2>1, <3>3 DEF PendingClaims, ClaimsTrue
    <3>5. payment' = payment
      BY <2>2 DEF ReconcileQueries
    <3> QED
      BY <1>d, <2>1, <3>4, <3>5
  <2>3. ASSUME NEW r \in Reconcilers,
               \/ ReconcileLoads(r)
               \/ \E p \in Payments : ReconcileQueryFails(r, p)
               \/ ReconcileDies(r)
        PROVE  PendingClaims' /\ StatusTellsTruth'
    <3>1. \A s \in Reconcilers, q \in Payments : change'[s][q] \in {change[s][q], None}
      <4>1. CASE ReconcileDies(r)
        <5>1. change' = [change EXCEPT ![r] = Nothing]
          BY <4>1 DEF ReconcileDies
        <5> QED
          BY <5>1 DEF Nothing
      <4>2. CASE ReconcileLoads(r) \/ \E p \in Payments : ReconcileQueryFails(r, p)
        <5>1. change' = change
          BY <4>2 DEF ReconcileLoads, ReconcileQueryFails
        <5> QED
          BY <5>1
      <4> QED
        BY <2>3, <4>1, <4>2
    <3>2. PendingClaims'
      BY <1>a, <1>b, <2>1, <3>1, PaymentStatusNames DEF PendingClaims, ClaimsTrue
    <3>3. payment' = payment
      BY <2>3 DEF ReconcileLoads, ReconcileQueryFails, ReconcileDies
    <3> QED
      BY <1>d, <2>1, <3>2, <3>3
  <2>4. ASSUME NEW r \in Reconcilers, ReconcileCommits(r)
        PROVE  PendingClaims' /\ StatusTellsTruth'
    <3>1. /\ intent' = intent /\ invoice_id' = invoice_id
          /\ \A s \in Reconcilers, q \in Payments : change'[s][q] \in {change[s][q], None}
      BY <2>4 DEF ReconcileCommits, Nothing, requestVars, providerVars
    <3>2. \A p \in Payments : payment'[p] \in {payment[p], change[r][p]}
      BY <2>4 DEF ReconcileCommits, ReconcileWrites
    <3>3. PendingClaims'
      BY <1>a, <1>b, <2>1, <3>1, PaymentStatusNames DEF PendingClaims, ClaimsTrue
    <3>4. StatusTellsTruth'
      BY <2>1, <3>1, <3>2 DEF PendingClaims, ClaimsTrue, StatusTellsTruth
    <3> QED
      BY <3>3, <3>4
  <2> QED
    BY <1>4, <2>2, <2>3, <2>4 DEF ReconcileNext
<1>5. CASE UNCHANGED vars
  BY <1>5, <1>c, <1>d DEF vars, providerVars, hookVars, reconVars
<1> QED
  BY <1>1, <1>2, <1>3, <1>4, <1>5 DEF Next

-------------------------------------------------------------------------------
(* Charges and openings.                                                   *)

(* No step charges an attempt whose row is not committed.                  *)
LEMMA ChargedStep ==
    ASSUME TypeOK, Coherent, Coherent', ChargedPaymentIsKnown, [Next]_vars
    PROVE  ChargedPaymentIsKnown'
<1> USE NoneIsNoStatus DEF TypeOK, IntentStatus
<1> SUFFICES ASSUME NEW p \in Payments, intent'[p] \in {"processing", "succeeded"}
             PROVE  p \in linked'
  BY DEF ChargedPaymentIsKnown, Coherent
<1>1. CASE intent[p] \in {"processing", "succeeded"}
  BY <1>1, EndedIntentsStay DEF ChargedPaymentIsKnown
<1>2. CASE intent[p] \notin {"processing", "succeeded"}
  <2>1. CustomerConfirms(p)
    <3>1. ~RequestNext
      BY <1>2 DEF RequestNext, CreatePayment, RetryPayment, Begin,
         ProviderCreatesIntent, ProviderRaises, CommitPayment, AbandonPayment,
         providerVars
    <3>2. ASSUME NEW q \in Payments,
                 IntentSucceeds(q) \/ IntentDeclined(q) \/ IntentCanceled(q)
          PROVE  FALSE
      BY <1>2, <3>2 DEF IntentSucceeds, IntentDeclined, IntentCanceled
    <3>3. ASSUME NEW q \in Payments, CustomerConfirms(q)
          PROVE  q = p
      BY <1>2, <3>3 DEF CustomerConfirms
    <3>4. intent' # intent
      BY <1>2
    <3>5. ~HookNext
      BY <3>4 DEF HookNext, HookLoadsPayment, HookLoadsInvoice, HookCommits,
         HookRollsBack, providerVars
    <3>6. ~ReconcileNext
      BY <3>4 DEF ReconcileNext, ReconcileLoads, ReconcileQueries,
         ReconcileQueryFails, ReconcileCommits, ReconcileDies, providerVars
    <3>7. ~UNCHANGED vars
      BY <3>4 DEF vars, providerVars
    <3> QED
      BY <3>1, <3>2, <3>3, <3>5, <3>6, <3>7 DEF Next, ProviderNext
  <2> QED
    BY <2>1, EndedIntentsStay DEF CustomerConfirms, Coherent
<1> QED
  BY <1>1, <1>2

(* No commit, however old its snapshot, puts an invoice back to GENERATED. *)
LEMMA OpensStep ==
    ASSUME TypeOK, Coherent, OpenedBefore, AttemptOpensInvoice, [Next]_vars
    PROVE  OpenedBefore' /\ AttemptOpensInvoice'
<1> USE NoneIsNoStatus DEF TypeOK, Coherent, OpenedBefore, AttemptOpensInvoice
<1>1. ASSUME NEW p \in Payments, NEW i \in Invoices, Begin(p, i)
      PROVE  OpenedBefore' /\ AttemptOpensInvoice'
  BY <1>1 DEF Begin
<1>2. ASSUME NEW p \in Payments, CommitPayment(p)
      PROVE  OpenedBefore' /\ AttemptOpensInvoice'
  <2>1. \A i \in Invoices : /\ invoice'[i] = "generated" => invoice[i] = "generated"
                            /\ i = invoice_id[p] => invoice'[i] # "generated"
    BY <1>2 DEF CommitPayment, InvoiceWrite
  <2> QED
    BY <1>2, <2>1 DEF CommitPayment
<1>3. ASSUME NEW p \in Payments,
             ProviderCreatesIntent(p) \/ ProviderRaises(p) \/ AbandonPayment(p)
      PROVE  OpenedBefore' /\ AttemptOpensInvoice'
  <2>1. /\ invoice' = invoice /\ linked' = linked /\ invoice_id' = invoice_id
        /\ \A q \in Payments :
              request'[q] \in {"calling", "charged"} =>
                 request[q] \in {"calling", "charged"} /\ seen'[q] = seen[q]
    BY <1>3 DEF ProviderCreatesIntent, ProviderRaises, AbandonPayment
  <2> QED
    BY <2>1
<1>4. CASE ProviderNext \/ ReconcileNext \/ UNCHANGED vars
  <2>1. invoice' = invoice /\ UNCHANGED requestVars
    BY <1>4 DEF ProviderNext, CustomerConfirms, IntentSucceeds, IntentDeclined,
       IntentCanceled, ReconcileNext, ReconcileLoads, ReconcileQueries,
       ReconcileQueryFails, ReconcileCommits, ReconcileDies, vars
  <2> QED
    BY <2>1 DEF requestVars
<1>5. CASE HookNext
  <2>1. /\ UNCHANGED requestVars
        /\ \A i \in Invoices : invoice'[i] \in {invoice[i], "paid"}
    BY <1>5 DEF HookNext, HookLoadsPayment, HookLoadsInvoice, HookCommits,
       HookWrites, HookRollsBack
  <2> QED
    BY <2>1 DEF requestVars
<1> QED
  BY <1>1, <1>2, <1>3, <1>4, <1>5
     DEF Next, RequestNext, CreatePayment, RetryPayment

(* A session that will record a succeeded event will write its effect too. *)
LEMMA WillWriteStep ==
    ASSUME TypeOK, WillWrite, [Next]_vars
    PROVE  WillWrite'
<1> USE DEF TypeOK, WillWrite
<1>1. ASSUME NEW h \in Hooks, NEW e \in Events, HookLoadsPayment(h, e)
      PROVE  WillWrite'
  BY <1>1 DEF HookLoadsPayment, Acceptable
<1>2. ASSUME NEW h \in Hooks, HookLoadsInvoice(h)
      PROVE  WillWrite'
  <2>1. hook[h] \in Sessions
    BY <1>2 DEF HookLoadsInvoice, Idle
  <2>2. hook'[h] # Idle => hook'[h].event = hook[h].event /\ hook'[h].payment = hook[h].payment
    BY <1>2, <2>1 DEF HookLoadsInvoice, Sessions
  <2> QED
    BY <1>2, <2>1, <2>2 DEF HookLoadsInvoice, Sessions, Idle
<1>3. ASSUME NEW h \in Hooks, HookCommits(h) \/ HookRollsBack(h)
      PROVE  WillWrite'
  BY <1>3 DEF HookCommits, HookRollsBack
<1>4. CASE RequestNext \/ ProviderNext \/ ReconcileNext \/ UNCHANGED vars
  <2>1. hook' = hook
    BY <1>4 DEF RequestNext, CreatePayment, RetryPayment, Begin,
       ProviderCreatesIntent, ProviderRaises, CommitPayment, AbandonPayment,
       ProviderNext, CustomerConfirms, IntentSucceeds, IntentDeclined,
       IntentCanceled, ReconcileNext, ReconcileLoads, ReconcileQueries,
       ReconcileQueryFails, ReconcileCommits, ReconcileDies, vars, hookVars
  <2> QED
    BY <2>1
<1> QED
  BY <1>1, <1>2, <1>3, <1>4 DEF Next, HookNext

-------------------------------------------------------------------------------
(* The theorems.                                                           *)

(* The invariant holds initially.                                          *)
LEMMA IInvInit == Init => IInv
BY TypeInit, NoneIsNoStatus
   DEF Init, IInv, Coherent, PendingClaims, ClaimsTrue, StatusTellsTruth,
       ChargedPaymentIsKnown, OpenedBefore, AttemptOpensInvoice, WillWrite,
       Nothing, IntentStatus, PaymentStatus, InvoiceStatus, Idle

(* The invariant is inductive: the lemmas above, put together.             *)
LEMMA IInvStep == IInv /\ [Next]_vars => IInv'
BY TypeStep, CoherentStep, ClaimsStep, ChargedStep, OpensStep, WillWriteStep DEF IInv

(* The inductive invariant holds in every reachable state.                 *)
THEOREM Invariance == Spec => []IInv
BY IInvInit, IInvStep, PTL DEF Spec

(* The rows, sessions and batches always have the values their columns and *)
(* variables can hold.                                                     *)
THEOREM TypeCorrect == Spec => []TypeOK
<1>1. IInv => TypeOK
  BY DEF IInv
<1> QED
  BY Invariance, <1>1, PTL

(* No payment is SUCCEEDED or CANCELLED and no invoice PAID against what   *)
(* the provider knows, however webhooks, requests and overlapping runs of  *)
(* reconciliation interleave and whatever they had read before.            *)
THEOREM StatusTruth == Spec => []StatusTellsTruth
<1>1. IInv => StatusTellsTruth
  BY DEF IInv
<1> QED
  BY Invariance, <1>1, PTL

(* A charge always has a committed row that holds the provider's id, so    *)
(* that a webhook or reconciliation can find it.                           *)
THEOREM ChargesAreKnown == Spec => []ChargedPaymentIsKnown
<1>1. IInv => ChargedPaymentIsKnown
  BY DEF IInv
<1> QED
  BY Invariance, <1>1, PTL

(* The first commit of an attempt moves its invoice out of GENERATED, and  *)
(* no concurrent creation with an older snapshot puts it back.             *)
THEOREM AttemptsOpenInvoices == Spec => []AttemptOpensInvoice
<1>1. IInv => AttemptOpensInvoice
  BY DEF IInv
<1> QED
  BY Invariance, <1>1, PTL

(* The record of a succeeded event and its effect are one commit.          *)
THEOREM CollectionIsRecordedWithEffect == Spec => CollectionRecordedWithEffect
<1> DEFINE Effect ==
        \A e \in processed' \ processed :
            EventTarget(e) = "succeeded" => payment'[e.payment] = "succeeded"
<1>1. IInv /\ [Next]_vars => [Effect]_vars
  <2> SUFFICES ASSUME IInv, Next
               PROVE  Effect
    OBVIOUS
  <2>1. CASE RequestNext \/ ProviderNext \/ ReconcileNext
    <3>1. processed' = processed
      BY <2>1 DEF RequestNext, CreatePayment, RetryPayment, Begin,
         ProviderCreatesIntent, ProviderRaises, CommitPayment, AbandonPayment,
         ProviderNext, CustomerConfirms, IntentSucceeds, IntentDeclined,
         IntentCanceled, ReconcileNext, ReconcileLoads, ReconcileQueries,
         ReconcileQueryFails, ReconcileCommits, ReconcileDies, hookVars
    <3> QED
      BY <3>1
  <2>2. ASSUME NEW h \in Hooks, HookCommits(h)
        PROVE  Effect
    <3>1. hook[h] \in Sessions /\ hook[h] # Idle
      BY <2>2 DEF HookCommits, Idle, IInv, TypeOK
    <3>2. hook[h].event.payment \in Payments
      BY <3>1 DEF Sessions, Events
    <3> QED
      BY <2>2, <3>1, <3>2 DEF HookCommits, HookWrites, IInv, TypeOK, WillWrite
  <2>3. ASSUME NEW h \in Hooks,
               \/ \E e \in Events : HookLoadsPayment(h, e)
               \/ HookLoadsInvoice(h)
               \/ HookRollsBack(h)
        PROVE  Effect
    BY <2>3 DEF HookLoadsPayment, HookLoadsInvoice, HookRollsBack
  <2> QED
    BY <2>1, <2>2, <2>3 DEF Next, HookNext
<1> QED
  BY Invariance, <1>1, PTL DEF Spec, CollectionRecordedWithEffect

-------------------------------------------------------------------------------
(* One API process and no reconciliation: what an event has settled stays. *)

(* The condition under which the code keeps to its transitions.            *)
Alone == Reconcilers = {} /\ \A g, h \in Hooks : g = h

(* Only the handler at work changes a row that has been answered, so the   *)
(* status it read is the row's, and the step it will take is legal.        *)
HookHoldsRow ==
    \A h \in Hooks :
        hook[h] # Idle =>
           /\ hook[h].payment = payment[hook[h].event.payment]
           /\ PaymentMayBecome(hook[h].payment, EventTarget(hook[h].event))

(* There is no row before the request has ended, and what has been         *)
(* processed concerned a linked row.                                       *)
RowsAppearOnce ==
    /\ \A p \in Payments :
          request[p] \in {"unused", "calling", "charged"} => payment[p] = None
    /\ \A e \in processed : e.payment \in linked

AloneInv == IInv /\ HookHoldsRow /\ RowsAppearOnce /\ RecordedCollectionStays

(* Where an event may take a payment that has been collected: nowhere.     *)
LEMMA CollectedIsFinalForEvents ==
    ASSUME NEW e \in Events, PaymentMayBecome("succeeded", EventTarget(e))
    PROVE  EventTarget(e) = "succeeded"
BY EventTargetFact DEF PaymentMayBecome, PaymentTransitions, PaymentStatus

(* A step that is no commit of a webhook changes no row there is, and      *)
(* takes no link away.                                                     *)
LEMMA RowsStay ==
    ASSUME IInv, RowsAppearOnce, Alone, [Next]_vars,
           \A h \in Hooks : ~HookCommits(h)
    PROVE  /\ processed' = processed
           /\ linked \subseteq linked'
           /\ \A p \in Payments : payment[p] # None => payment'[p] = payment[p]
           /\ \A p \in Payments :
                 request'[p] \in {"unused", "calling", "charged"} => payment'[p] = None
<1> USE DEF IInv, TypeOK, RowsAppearOnce
<1>1. CASE RequestNext
  <2>1. ASSUME NEW q \in Payments, NEW i \in Invoices, Begin(q, i)
        PROVE  /\ UNCHANGED <<processed, payment, linked>>
               /\ \A p \in Payments \ {q} : request'[p] = request[p]
               /\ request[q] = "unused"
    BY <2>1 DEF Begin, hookVars
  <2>2. ASSUME NEW q \in Payments, ProviderCreatesIntent(q) \/ AbandonPayment(q)
        PROVE  /\ UNCHANGED <<processed, payment, linked>>
               /\ \A p \in Payments \ {q} : request'[p] = request[p]
               /\ request[q] \in {"calling", "charged"}
    BY <2>2 DEF ProviderCreatesIntent, AbandonPayment, hookVars
  <2>3. ASSUME NEW q \in Payments, ProviderRaises(q) \/ CommitPayment(q)
        PROVE  /\ processed' = processed
               /\ linked \subseteq linked'
               /\ \A p \in Payments \ {q} : /\ request'[p] = request[p]
                                              /\ payment'[p] = payment[p]
               /\ payment[q] = None
               /\ request'[q] \in {"ended", "answered"}
    BY <2>3 DEF ProviderRaises, CommitPayment, hookVars
  <2> QED
    BY <1>1, <2>1, <2>2, <2>3 DEF RequestNext, CreatePayment, RetryPayment
<1>2. CASE ProviderNext
  <2>1. UNCHANGED <<processed, payment, requestVars>>
    BY <1>2 DEF ProviderNext, CustomerConfirms, IntentSucceeds, IntentDeclined,
                IntentCanceled, hookVars
  <2> QED
    BY <2>1 DEF requestVars
<1>3. CASE HookNext
  <2>1. UNCHANGED <<processed, payment, requestVars>>
    BY <1>3 DEF HookNext, HookLoadsPayment, HookLoadsInvoice, HookRollsBack
  <2> QED
    BY <2>1 DEF requestVars
<1>4. ~ReconcileNext
  BY DEF ReconcileNext, Alone
<1>5. CASE UNCHANGED vars
  BY <1>5 DEF vars, requestVars, hookVars
<1> QED
  BY <1>1, <1>2, <1>3, <1>4, <1>5 DEF Next

(* What a webhook's commit does, given that it still holds its row: the    *)
(* row takes the event's target, by an edge of the graph.                  *)
LEMMA CommitIsLegal ==
    ASSUME IInv, HookHoldsRow, NEW h \in Hooks, HookCommits(h)
    PROVE  /\ hook[h].event \in Events
           /\ hook[h].event.payment \in linked
           /\ processed' = processed \cup {hook[h].event}
           /\ UNCHANGED requestVars
           /\ hook' = [hook EXCEPT ![h] = Idle]
           /\ PaymentMayBecome(payment[hook[h].event.payment], EventTarget(hook[h].event))
           /\ payment' = [payment EXCEPT ![hook[h].event.payment] =
                                              EventTarget(hook[h].event)]
<1> USE DEF IInv, TypeOK
<1>1. hook[h] \in Sessions /\ hook[h] # Idle
  BY DEF HookCommits, Idle
<1>2. /\ hook[h].event \in Events
      /\ hook[h].event.payment \in linked
      /\ hook[h].event.payment \in Payments
  BY <1>1 DEF Sessions, Events, Coherent
<1>3. /\ hook[h].payment = payment[hook[h].event.payment]
      /\ PaymentMayBecome(hook[h].payment, EventTarget(hook[h].event))
  BY <1>1 DEF HookHoldsRow
<1>4. payment' = [payment EXCEPT ![hook[h].event.payment] = EventTarget(hook[h].event)]
  BY <1>2, <1>3 DEF HookCommits, HookWrites
<1> QED
  BY <1>2, <1>3, <1>4 DEF HookCommits, HookWrites

(* Every step keeps the invariant.                                         *)
LEMMA AloneStep ==
    ASSUME Alone, AloneInv, [Next]_vars
    PROVE  AloneInv'
<1> USE DEF AloneInv
<1>0. IInv'
  BY IInvStep
<1>1. ASSUME NEW h \in Hooks, HookCommits(h)
      PROVE  HookHoldsRow' /\ RowsAppearOnce' /\ RecordedCollectionStays'
  <2> DEFINE f == hook[h].event
             q == hook[h].event.payment
  <2>1. /\ f \in Events /\ q \in linked /\ q \in Payments
        /\ processed' = processed \cup {f}
        /\ linked' = linked /\ request' = request
        /\ hook' = [hook EXCEPT ![h] = Idle]
        /\ PaymentMayBecome(payment[q], EventTarget(f))
        /\ payment' = [payment EXCEPT ![q] = EventTarget(f)]
    BY <1>1, CommitIsLegal DEF requestVars, IInv, TypeOK
  <2>2. HookHoldsRow'
    <3>1. \A g \in Hooks : hook'[g] = Idle
      BY <2>1 DEF Alone, IInv, TypeOK
    <3> QED
      BY <3>1 DEF HookHoldsRow
  <2>3. RowsAppearOnce'
    BY <2>1 DEF RowsAppearOnce, IInv, TypeOK, Coherent
  <2>4. ASSUME NEW e \in processed', EventTarget(e) = "succeeded"
        PROVE  payment'[e.payment] = "succeeded"
    <3>1. CASE e = f
      BY <2>1, <2>4, <3>1 DEF IInv, TypeOK
    <3>2. CASE e \in processed
      <4>1. payment[e.payment] = "succeeded" /\ e.payment \in Payments
        BY <2>4, <3>2 DEF RecordedCollectionStays, IInv, TypeOK, Events
      <4>2. e.payment = q => EventTarget(f) = "succeeded"
        BY <2>1, <4>1, CollectedIsFinalForEvents
      <4> QED
        BY <2>1, <4>1, <4>2 DEF IInv, TypeOK
    <3> QED
      BY <2>1, <3>1, <3>2
  <2> QED
    BY <2>2, <2>3, <2>4 DEF RecordedCollectionStays
<1>2. ASSUME \A h \in Hooks : ~HookCommits(h)
      PROVE  HookHoldsRow' /\ RowsAppearOnce' /\ RecordedCollectionStays'
  <2> DEFINE Goes(h) == /\ hook[h] # Idle
                        /\ hook'[h].event = hook[h].event
                        /\ hook'[h].payment = hook[h].payment
             Starts(h) ==
                /\ hook'[h].event.payment \in linked
                /\ hook'[h].payment = payment[hook'[h].event.payment]
                /\ PaymentMayBecome(hook'[h].payment, EventTarget(hook'[h].event))
  <2>1. /\ processed' = processed
        /\ linked \subseteq linked'
        /\ \A p \in Payments : payment[p] # None => payment'[p] = payment[p]
        /\ \A p \in Payments :
              request'[p] \in {"unused", "calling", "charged"} => payment'[p] = None
    BY <1>2, RowsStay
  <2>2. \A p \in linked : p \in Payments /\ payment[p] # None
    BY DEF IInv, TypeOK, Coherent
  <2>3. RowsAppearOnce' /\ RecordedCollectionStays'
    BY <2>1, <2>2 DEF RowsAppearOnce, RecordedCollectionStays
  <2>4. ASSUME NEW h \in Hooks, hook'[h] # Idle
        PROVE  Goes(h) \/ Starts(h)
    <3>1. CASE hook' = hook
      BY <2>4, <3>1
    <3>2. ASSUME NEW g \in Hooks, NEW e \in Events, HookLoadsPayment(g, e)
          PROVE  Goes(h) \/ Starts(h)
      BY <2>4, <3>2 DEF HookLoadsPayment, Acceptable, IInv, TypeOK
    <3>3. ASSUME NEW g \in Hooks, HookLoadsInvoice(g)
          PROVE  Goes(h) \/ Starts(h)
      <4>1. hook[g] \in Sessions /\ hook[g] # Idle
        BY <3>3 DEF HookLoadsInvoice, Idle, IInv, TypeOK
      <4> QED
        BY <2>4, <3>3, <4>1 DEF HookLoadsInvoice, Sessions, IInv, TypeOK
    <3>4. ASSUME NEW g \in Hooks, HookRollsBack(g)
          PROVE  Goes(h) \/ Starts(h)
      BY <2>4, <3>4 DEF HookRollsBack, IInv, TypeOK
    <3>5. hook' = hook \/ HookNext
      BY DEF Next, RequestNext, CreatePayment, RetryPayment, Begin,
         ProviderCreatesIntent, ProviderRaises, CommitPayment, AbandonPayment,
         ProviderNext, CustomerConfirms, IntentSucceeds, IntentDeclined,
         IntentCanceled, ReconcileNext, Alone, vars, hookVars
    <3> QED
      BY <1>2, <3>1, <3>2, <3>3, <3>4, <3>5 DEF HookNext
  <2>5. ASSUME NEW h \in Hooks, hook'[h] # Idle
        PROVE  /\ hook'[h].payment = payment'[hook'[h].event.payment]
               /\ PaymentMayBecome(hook'[h].payment, EventTarget(hook'[h].event))
    <3>1. CASE Goes(h)
      <4>1. hook[h].event.payment \in linked
        BY <3>1 DEF IInv, Coherent
      <4> QED
        BY <2>1, <2>2, <3>1, <4>1 DEF HookHoldsRow
    <3>2. CASE Starts(h)
      BY <2>1, <2>2, <3>2
    <3> QED
      BY <2>4, <2>5, <3>1, <3>2
  <2> QED
    BY <2>3, <2>5 DEF HookHoldsRow
<1> QED
  BY <1>0, <1>1, <1>2

(* With one API process and no reconciliation, no late, repeated or        *)
(* reordered event undoes a success that has been recorded.                *)
THEOREM RecordedCollectionsStay ==
    ASSUME Alone
    PROVE  Spec => []RecordedCollectionStays
<1>1. Init => AloneInv
  BY IInvInit DEF Init, AloneInv, HookHoldsRow, RowsAppearOnce,
     RecordedCollectionStays, Nothing
<1>2. AloneInv /\ [Next]_vars => AloneInv'
  BY AloneStep
<1>3. AloneInv => RecordedCollectionStays
  BY DEF AloneInv
<1> QED
  BY <1>1, <1>2, <1>3, PTL DEF Spec

(* And every committed change of a payment is an edge of                   *)
(* ALLOWED_TRANSITIONS, although the handler checks it against a row read  *)
(* in an earlier step.                                                     *)
THEOREM PaymentsMoveLegally ==
    ASSUME Alone
    PROVE  Spec => LegalPaymentTransitions
<1> DEFINE Legal ==
        \A p \in Payments :
            payment[p] # None => PaymentMayBecome(payment[p], payment'[p])
<1>1. Init => AloneInv
  BY IInvInit DEF Init, AloneInv, HookHoldsRow, RowsAppearOnce,
     RecordedCollectionStays, Nothing
<1>2. AloneInv /\ [Next]_vars => AloneInv'
  BY AloneStep
<1>3. AloneInv /\ [Next]_vars => [Legal]_vars
  <2> SUFFICES ASSUME AloneInv, [Next]_vars
               PROVE  Legal
    OBVIOUS
  <2>1. ASSUME NEW h \in Hooks, HookCommits(h)
        PROVE  Legal
    <3>1. /\ PaymentMayBecome(payment[hook[h].event.payment], EventTarget(hook[h].event))
          /\ payment' = [payment EXCEPT ![hook[h].event.payment] =
                                            EventTarget(hook[h].event)]
      BY <2>1, CommitIsLegal DEF AloneInv
    <3> QED
      BY <3>1 DEF AloneInv, IInv, TypeOK, PaymentMayBecome
  <2>2. ASSUME \A h \in Hooks : ~HookCommits(h)
        PROVE  Legal
    BY <2>2, RowsStay DEF AloneInv, PaymentMayBecome
  <2> QED
    BY <2>1, <2>2
<1> QED
  BY <1>1, <1>2, <1>3, PTL DEF Spec, LegalPaymentTransitions
===============================================================================
