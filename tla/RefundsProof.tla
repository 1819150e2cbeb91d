----------------------------- MODULE RefundsProof -----------------------------
(***************************************************************************)
(* The theorems about Refunds, for every set of payments, amounts, bounds, *)
(* webhook processes and reconciliation runs: what is recorded as refunded *)
(* was given back, a refund that covers its payment alone takes the        *)
(* payment with it, and payment and invoice move together when every       *)
(* invoice is PAID; and all of it implements RefundLedger.                 *)
(*                                                                         *)
(* The argument: what the provider has given back of a payment never       *)
(* shrinks (Forward), so what a session concluded from the rows it read is *)
(* still true when it commits, whoever committed in between.               *)
(***************************************************************************)
EXTENDS Refunds, Sums

(* What the provider has given back covers the payment.                    *)
Repaid(p) == Returned(p) >= Amount[p]

(* A row, a payment id and a provider's refund appear in this order.       *)
Ordered ==
    \A x \in Refunds :
        /\ request[x] # "unused" => payment_id[x] \in Payments
        /\ request[x] \in {"unused", "calling"} => stripe[x] = None
        /\ refund[x] # None => request[x] = "ended"

Collected == \A p \in Payments : payment[p] \in {"succeeded", "refunded"}

EventsTrue == \A e \in events : e.status \in Ended => stripe[e.refund] = e.status

(* A webhook session concludes only what is so at the provider, and one    *)
(* that completes a refund which covers its payment takes the payment too. *)
HookTrue(s) ==
    /\ s.event \in events
    /\ s.event.status \in {"succeeded", "failed"}
    /\ refund[s.event.refund] # None
    /\ s.step = "cascade" => s.writes = {} /\ s.event.status = "succeeded"
    /\ \A p \in Payments : p = payment_id[s.event.refund] =>
          /\ s.writes # {} => Repaid(p)
          /\ /\ s.step = "commit" /\ s.event.status = "succeeded"
             /\ s.refund # "succeeded" /\ amount[s.event.refund] >= Amount[p]
             => "payment" \in s.writes \/ payment[p] = "refunded"

HooksTrue == \A h \in Hooks : hook[h] # Idle => HookTrue(hook[h])

(* The same for a reconciliation run: what it has loaded, what it has not  *)
(* asked about, the payments and the invoices it will write.               *)
RunTrue(m, t, f, c) ==
    /\ \A x \in t : refund[x] # None
    /\ \A x \in Refunds : m[x] # None =>
          /\ refund[x] # None
          /\ m[x] # "pending" => m[x] = ProviderRefundStatus(stripe[x])
          /\ \A p \in Payments :
                p = payment_id[x] /\ m[x] = "succeeded" /\ amount[x] >= Amount[p]
                    => p \in f \/ payment[p] = "refunded"
    /\ \A p \in f \cup c : Repaid(p)

RunsTrue ==
    \A r \in Reconcilers : RunTrue(memory[r], todo[r], refunding[r], closing[r])

RowsTrue ==
    /\ \A x \in Refunds :
          refund[x] \notin {None, "created", "pending"} =>
              refund[x] = ProviderRefundStatus(stripe[x])
    /\ \A p \in Payments : payment[p] = "refunded" \/ invoice[p] = "refunded" => Repaid(p)

(* WholeRefundCascades, whether a session is at work or not.               *)
WholeCascades ==
    \A x \in Refunds : \A p \in Payments :
        p = payment_id[x] /\ refund[x] = "succeeded" /\ amount[x] >= Amount[p] =>
            payment[p] = "refunded"

IInv ==
    /\ TypeOK
    /\ Ordered
    /\ Collected
    /\ EventsTrue
    /\ HooksTrue
    /\ RunsTrue
    /\ RowsTrue
    /\ WholeCascades

(* What no step takes back.                                                *)
ClaimsStay ==
    \A x \in Refunds : request[x] # "unused" =>
        /\ request'[x] # "unused"
        /\ payment_id'[x] = payment_id[x]
        /\ amount'[x] = amount[x]

ProviderStays ==
    /\ \A x \in Refunds : stripe[x] \in Ended => stripe'[x] = stripe[x]
    /\ events \subseteq events'

RowsStay ==
    /\ \A x \in Refunds : refund[x] # None => refund'[x] # None
    /\ \A p \in Payments : payment[p] = "refunded" => payment'[p] = "refunded"

Forward ==
    /\ ClaimsStay
    /\ ProviderStays
    /\ RowsStay
    /\ \A p \in Payments : Repaid(p) => Repaid(p)'

ForwardProperty == [][Forward]_vars

-------------------------------------------------------------------------------
(* Sums of refunds.                                                        *)

(* There are finitely many refund requests.                                *)
LEMMA RefundsFinite == IsFiniteSet(Refunds)
<1>1. 1 \in Int /\ MaxRefunds \in Int
  BY BoundsAreNatural
<1> QED BY <1>1, FS_Interval DEF Refunds

(* Sums of amounts are natural numbers, not less than the sum over a part  *)
(* and not less than any amount summed.                                    *)
LEMMA SumFacts ==
    ASSUME NEW f \in [Refunds -> Nat], NEW S \in SUBSET Refunds
    PROVE  /\ SumFunctionOnSet(f, S) \in Nat
           /\ \A T \in SUBSET S : SumFunctionOnSet(f, T) <= SumFunctionOnSet(f, S)
           /\ \A x \in S : f[x] <= SumFunctionOnSet(f, S)
<1>1. IsFiniteSet(S) /\ \A x \in S : f[x] \in Nat
  BY RefundsFinite, FS_Subset
<1> QED BY <1>1, SumType, SumMonotone, SumMember

(* The refunds of p that are completed in a view of the rows.              *)
Done(ids, view, p) == {x \in Refunds : ids[x] = p /\ view[x] = "succeeded"}

(* What was given back is the sum over the refunds completed at the        *)
(* provider.                                                               *)
LEMMA ReturnedIsSum ==
    ASSUME NEW p
    PROVE  Returned(p) = SumFunctionOnSet(amount, Done(payment_id, stripe, p))
BY DEF Returned, Total, Done

(* Whether a view of the rows covers a payment is a sum over the refunds   *)
(* completed in that view.                                                 *)
LEMMA CoveredIsSum ==
    ASSUME NEW view, NEW p
    PROVE  Covered(view, p) <=> SumFunctionOnSet(amount, Done(payment_id, view, p)) >= Amount[p]
<1>1. Having(view, p, {"succeeded"}) = Done(payment_id, view, p)
  BY DEF Having, Done
<1>2. Total(Done(payment_id, view, p)) = SumFunctionOnSet(amount, Done(payment_id, view, p))
  BY DEF Total
<1> QED BY <1>1, <1>2 DEF Covered

(* A view in which more refunds are completed covers no less.              *)
LEMMA CoveredGrows ==
    ASSUME TypeOK, NEW p \in Payments, NEW u, NEW v,
           \A x \in Refunds : payment_id[x] = p /\ u[x] = "succeeded" => v[x] = "succeeded",
           Covered(u, p)
    PROVE  Covered(v, p)
<1>1. PICK T \in SUBSET Refunds : T = Done(payment_id, v, p)
  BY DEF Done
<1>2. PICK S \in SUBSET T : S = Done(payment_id, u, p)
  BY <1>1 DEF Done
<1>3. amount \in [Refunds -> Nat] /\ Amount[p] \in Nat
  BY AmountIsPositive DEF TypeOK
<1>4. PICK a \in Nat : a = SumFunctionOnSet(amount, T)
  BY <1>3, SumFacts
<1>5. PICK b \in Nat : b = SumFunctionOnSet(amount, S)
  BY <1>3, SumFacts
<1>6. b <= a
  BY <1>3, <1>4, <1>5, SumFacts
<1>7. b >= Amount[p]
  BY <1>2, <1>5, CoveredIsSum
<1> QED BY <1>1, <1>3, <1>4, <1>6, <1>7, CoveredIsSum

(* Refunds that a session sees as completed and that are completed at the  *)
(* provider cover a payment only if it has been given back.                *)
LEMMA CoveredIsRepaid ==
    ASSUME TypeOK, NEW p \in Payments, NEW view,
           \A x \in Refunds : view[x] = "succeeded" => stripe[x] = "succeeded",
           Covered(view, p)
    PROVE  Repaid(p)
<1>1. Covered(stripe, p)
  BY CoveredGrows
<1> QED BY <1>1, CoveredIsSum, ReturnedIsSum DEF Repaid

(* A completed refund of the whole payment covers it alone.                *)
LEMMA AloneCovers ==
    ASSUME TypeOK, NEW p \in Payments, NEW view, NEW x \in Refunds,
           payment_id[x] = p, view[x] = "succeeded", amount[x] >= Amount[p]
    PROVE  Covered(view, p)
<1>1. x \in Done(payment_id, view, p) /\ Done(payment_id, view, p) \in SUBSET Refunds
  BY DEF Done
<1>2. amount \in [Refunds -> Nat] /\ Amount[p] \in Nat /\ amount[x] \in Nat
  BY AmountIsPositive DEF TypeOK
<1>3. PICK b \in Nat : b = SumFunctionOnSet(amount, Done(payment_id, view, p))
  BY <1>1, <1>2, SumFacts
<1>4. amount[x] <= b
  BY <1>1, <1>2, <1>3, SumFacts
<1> QED BY <1>2, <1>3, <1>4, CoveredIsSum

(* Two sums over the completed refunds of a payment are equal when they    *)
(* count the same refunds at the same amounts.                             *)
LEMMA SameDone ==
    ASSUME NEW a, NEW b, NEW i, NEW j, NEW u, NEW v, NEW p,
           \A x \in Refunds :
              /\ i[x] = p /\ u[x] = "succeeded" <=> j[x] = p /\ v[x] = "succeeded"
              /\ i[x] = p /\ u[x] = "succeeded" => a[x] = b[x]
    PROVE  SumFunctionOnSet(a, Done(i, u, p)) = SumFunctionOnSet(b, Done(j, v, p))
<1>1. PICK S \in SUBSET Refunds : S = Done(i, u, p) /\ S = Done(j, v, p)
  BY DEF Done
<1>2. IsFiniteSet(S) /\ \A x \in S : a[x] = b[x]
  BY <1>1, RefundsFinite, FS_Subset DEF Done
<1> QED BY <1>1, <1>2, SumSame

-------------------------------------------------------------------------------
(* Types.                                                                  *)

(* None is no status and no payment, and an idle handler is no session.    *)
LEMMA Distinct ==
    /\ None \notin RefundStatus /\ None \notin StripeStatus /\ None \notin Payments
    /\ Idle \notin Sessions /\ Idle.step = "idle"
    /\ \A s \in Sessions : s.step \in {"cascade", "commit"}
BY NoneIsNoStatus DEF Idle, Sessions

(* The initial state has the types.                                        *)
LEMMA InitType == Init => TypeOK
<1> SUFFICES ASSUME Init PROVE TypeOK
  OBVIOUS
<1>1. invoice \in [Payments -> InvoiceStatus]
  BY PaidStatusesReachable DEF Init, InvoiceStatus
<1>2. payment \in [Payments -> PaymentStatus]
  BY DEF Init, PaymentStatus
<1>3. /\ refund \in [Refunds -> RefundStatus \cup {None}]
      /\ payment_id \in [Refunds -> Payments \cup {None}]
      /\ stripe \in [Refunds -> StripeStatus \cup {None}]
      /\ memory \in [Reconcilers -> [Refunds -> RefundStatus \cup {None}]]
  BY DEF Init, Nothing
<1>4. /\ amount \in [Refunds -> Nat]
      /\ request \in [Refunds -> Stages]
      /\ faults \in 0 .. MaxFaults
  BY BoundsAreNatural DEF Init, Stages
<1>5. /\ events \in SUBSET Events /\ processed \in SUBSET Events
      /\ hook \in [Hooks -> Sessions \cup {Idle}]
      /\ todo \in [Reconcilers -> SUBSET Refunds]
      /\ refunding \in [Reconcilers -> SUBSET Payments]
      /\ closing \in [Reconcilers -> SUBSET Payments]
  BY DEF Init
<1> QED BY <1>1, <1>2, <1>3, <1>4, <1>5 DEF TypeOK

(* The translation of the provider's status is a refund status, and it     *)
(* claims an end only of a refund that has ended.                          *)
LEMMA ProviderRefundStatusType ==
    \A s : /\ ProviderRefundStatus(s) \in RefundStatus
           /\ ProviderRefundStatus(s) = "succeeded" => s = "succeeded"
           /\ ProviderRefundStatus(s) # "pending" => s \in Ended
BY DEF ProviderRefundStatus, RefundStatus, Ended

(* The steps of a refund request keep the types.                           *)
LEMMA RequestType ==
    ASSUME TypeOK, Ordered, RequestNext
    PROVE  TypeOK'
<1>1. ASSUME NEW x \in Refunds, NEW p \in Payments, NEW a \in 0 .. Amount[p],
             CreateRefund(x, p, a)
      PROVE  TypeOK'
  <2>1. PICK b : amount' = [amount EXCEPT ![x] = b] /\ b > 0
                 /\ b = (IF a = 0 THEN Amount[p] - Spent(p) ELSE a)
                 /\ b <= Amount[p] - Spent(p)
    BY <1>1 DEF CreateRefund
  <2>2. b \in Nat
    <3>1. Having(refund, p, Counted) \in SUBSET Refunds /\ amount \in [Refunds -> Nat]
      BY DEF Having, TypeOK
    <3>2. Spent(p) = SumFunctionOnSet(amount, Having(refund, p, Counted))
      BY DEF Spent, Total
    <3>3. Spent(p) \in Nat /\ Amount[p] \in Nat /\ Spent(p) <= Amount[p]
      BY <1>1, <3>1, <3>2, SumFacts, AmountIsPositive DEF CreateRefund
    <3> QED BY <2>1, <3>3
  <2>3. amount' \in [Refunds -> Nat]
    BY <2>1, <2>2 DEF TypeOK
  <2> QED BY <1>1, <2>3 DEF CreateRefund, TypeOK, Stages, rowVars, hookVars, reconVars
<1>2. ASSUME NEW x \in Refunds, ProviderRefunds(x) PROVE TypeOK'
  BY <1>2 DEF ProviderRefunds, TypeOK, Stages, StripeStatus, rowVars, hookVars, reconVars
<1>3. ASSUME NEW x \in Refunds, AbandonRefund(x) PROVE TypeOK'
  BY <1>3 DEF AbandonRefund, TypeOK, Stages, StripeStatus, rowVars, hookVars, reconVars
<1>4. ASSUME NEW x \in Refunds, CommitRefund(x) PROVE TypeOK'
  BY <1>4 DEF CommitRefund, TypeOK, Stages, RefundStatus, hookVars, reconVars
<1> QED BY <1>1, <1>2, <1>3, <1>4 DEF RequestNext

(* The provider's steps keep the types.                                    *)
LEMMA StripeType ==
    ASSUME TypeOK, NEW x \in Refunds, NEW s \in StripeStatus, StripeMoves(x, s)
    PROVE  TypeOK'
<1>1. [refund |-> x, status |-> s] \in Events
  BY DEF Events
<1> QED BY <1>1 DEF StripeMoves, TypeOK, rowVars, requestVars, hookVars, reconVars

(* The cascade writes the payment's column, the invoice's, both or none.   *)
LEMMA WritesType == \A view, p : CascadeWrites(view, p) \in SUBSET Columns
BY DEF CascadeWrites

(* The steps of webhook handlers keep the types.                           *)
LEMMA HookType ==
    ASSUME TypeOK, Ordered, HooksTrue, HookNext
    PROVE  TypeOK'
<1>1. ASSUME NEW h \in Hooks, NEW e \in Events, HookLoadsRefund(h, e) PROVE TypeOK'
  <2>1. refund[e.refund] \in RefundStatus
    BY <1>1 DEF HookLoadsRefund, TypeOK, Events
  <2>2. [step |-> IF e.status = "succeeded" /\ refund[e.refund] # "succeeded"
                  THEN "cascade" ELSE "commit",
         event |-> e, writes |-> {}, refund |-> refund[e.refund]] \in Sessions
    BY <2>1 DEF Sessions
  <2>3. hook' \in [Hooks -> Sessions \cup {Idle}]
    BY <1>1, <2>2 DEF HookLoadsRefund, TypeOK
  <2> QED BY <1>1, <2>3 DEF HookLoadsRefund, TypeOK, rowVars, requestVars, reconVars
<1>2. ASSUME NEW h \in Hooks, HookCascades(h) PROVE TypeOK'
  <2>1. hook[h] \in Sessions
    BY <1>2, Distinct DEF HookCascades, TypeOK
  <2>2. PICK x, view : hook' = [hook EXCEPT ![h] =
                      IF CascadeRaises(view, payment_id[x]) THEN Idle
                      ELSE [@ EXCEPT !.step = "commit",
                                     !.writes = CascadeWrites(view, payment_id[x])]]
    BY <1>2 DEF HookCascades
  <2>3. PICK w \in SUBSET Columns : w = CascadeWrites(view, payment_id[x])
    BY WritesType
  <2>4. [hook[h] EXCEPT !.step = "commit", !.writes = w] \in Sessions
    BY <2>1 DEF Sessions
  <2>5. hook' \in [Hooks -> Sessions \cup {Idle}]
    BY <2>2, <2>3, <2>4 DEF TypeOK
  <2> QED BY <1>2, <2>5 DEF HookCascades, TypeOK, rowVars, requestVars, reconVars
<1>3. ASSUME NEW h \in Hooks, HookCommits(h) PROVE TypeOK'
  <2>1. hook[h] \in Sessions
    BY <1>3, Distinct DEF HookCommits, TypeOK
  <2>2. PICK e \in Events : e = hook[h].event
    BY <2>1 DEF Sessions
  <2>3. e.status \in {"succeeded", "failed"}
    BY <2>1, <2>2, Distinct DEF HooksTrue, HookTrue
  <2>4. refund' \in [Refunds -> RefundStatus \cup {None}]
    BY <1>3, <2>2, <2>3 DEF HookCommits, TypeOK, RefundStatus
  <2>5. payment' \in [Payments -> PaymentStatus] /\ invoice' \in [Payments -> InvoiceStatus]
    BY <1>3 DEF HookCommits, TypeOK, PaymentStatus, InvoiceStatus
  <2>6. processed' \in SUBSET Events /\ hook' \in [Hooks -> Sessions \cup {Idle}]
    BY <1>3, <2>2 DEF HookCommits, TypeOK
  <2> QED BY <1>3, <2>4, <2>5, <2>6 DEF HookCommits, TypeOK, requestVars, reconVars
<1>4. ASSUME NEW h \in Hooks, HookRollsBack(h) PROVE TypeOK'
  BY <1>4 DEF HookRollsBack, TypeOK, rowVars, requestVars, reconVars
<1> QED BY <1>1, <1>2, <1>3, <1>4 DEF HookNext

(* The steps of reconciliation keep the types.                             *)
LEMMA ReconcileType ==
    ASSUME TypeOK, Ordered, RunsTrue, ReconcileNext
    PROVE  TypeOK'
<1>1. ASSUME NEW r \in Reconcilers, ReconcileLoads(r) PROVE TypeOK'
  <2>1. [x \in Refunds |-> IF refund[x] = "pending" THEN "pending" ELSE None]
            \in [Refunds -> RefundStatus \cup {None}]
    BY DEF RefundStatus
  <2>2. memory' \in [Reconcilers -> [Refunds -> RefundStatus \cup {None}]]
        /\ todo' \in [Reconcilers -> SUBSET Refunds]
    BY <1>1, <2>1 DEF ReconcileLoads, TypeOK
  <2> QED BY <1>1, <2>2 DEF ReconcileLoads, TypeOK, rowVars, requestVars, hookVars
<1>2. ASSUME NEW r \in Reconcilers, NEW x \in Refunds, ReconcileQueries(r, x) PROVE TypeOK'
  <2>1. PICK s \in RefundStatus : memory' = [memory EXCEPT ![r][x] = s]
    BY <1>2, ProviderRefundStatusType DEF ReconcileQueries
  <2>2. memory' \in [Reconcilers -> [Refunds -> RefundStatus \cup {None}]]
    BY <2>1 DEF TypeOK
  <2>3. payment_id[x] \in Payments
    BY <1>2, Distinct DEF ReconcileQueries, RunsTrue, RunTrue, Ordered, TypeOK, Stages
  <2>4. /\ todo' \in [Reconcilers -> SUBSET Refunds]
        /\ refunding' \in [Reconcilers -> SUBSET Payments]
        /\ closing' \in [Reconcilers -> SUBSET Payments]
    BY <1>2, <2>3 DEF ReconcileQueries, TypeOK
  <2> QED BY <1>2, <2>2, <2>4 DEF ReconcileQueries, TypeOK, rowVars, requestVars, hookVars
<1>3. ASSUME NEW r \in Reconcilers, NEW x \in Refunds, ReconcileQueryFails(r, x) PROVE TypeOK'
  <2>1. faults' \in 0 .. MaxFaults
    BY <1>3, BoundsAreNatural DEF ReconcileQueryFails, TypeOK
  <2> QED BY <1>3, <2>1 DEF ReconcileQueryFails, TypeOK, rowVars, requestVars, hookVars
<1>4. ASSUME NEW r \in Reconcilers, ResetRun(r)
      PROVE  /\ memory' \in [Reconcilers -> [Refunds -> RefundStatus \cup {None}]]
             /\ todo' \in [Reconcilers -> SUBSET Refunds]
             /\ refunding' \in [Reconcilers -> SUBSET Payments]
             /\ closing' \in [Reconcilers -> SUBSET Payments]
  BY <1>4 DEF ResetRun, TypeOK, Nothing
<1>5. ASSUME NEW r \in Reconcilers, ReconcileCommits(r) PROVE TypeOK'
  <2>1. refund' \in [Refunds -> RefundStatus \cup {None}]
    BY <1>5 DEF ReconcileCommits, TypeOK
  <2>2. payment' \in [Payments -> PaymentStatus] /\ invoice' \in [Payments -> InvoiceStatus]
    BY <1>5 DEF ReconcileCommits, TypeOK, PaymentStatus, InvoiceStatus
  <2> QED BY <1>4, <1>5, <2>1, <2>2 DEF ReconcileCommits, TypeOK, requestVars, hookVars
<1>6. ASSUME NEW r \in Reconcilers, ReconcileDies(r) PROVE TypeOK'
  <2>1. faults' \in 0 .. MaxFaults
    BY <1>6, BoundsAreNatural DEF ReconcileDies, TypeOK
  <2> QED BY <1>4, <1>6, <2>1 DEF ReconcileDies, TypeOK, rowVars, requestVars, hookVars
<1> QED BY <1>1, <1>2, <1>3, <1>5, <1>6 DEF ReconcileNext

(* Every step keeps the types.                                             *)
LEMMA StepType ==
    ASSUME IInv, [Next]_vars
    PROVE  TypeOK'
<1>1. CASE UNCHANGED vars
  BY <1>1 DEF IInv, TypeOK, vars, rowVars, requestVars, hookVars, reconVars
<1> QED BY <1>1, RequestType, StripeType, HookType, ReconcileType DEF IInv, Next

-------------------------------------------------------------------------------
(* What no step takes back.                                                *)

(* A completed refund keeps its payment and its amount, and no other       *)
(* refund of it is undone: what is given back only grows.                  *)
LEMMA RepaidStays ==
    ASSUME TypeOK, TypeOK', NEW p \in Payments, Repaid(p),
           \A x \in Refunds : stripe[x] = "succeeded" =>
              /\ stripe'[x] = "succeeded"
              /\ payment_id'[x] = payment_id[x]
              /\ amount'[x] = amount[x]
    PROVE  Repaid(p)'
<1>1. PICK S \in SUBSET Refunds : S = Done(payment_id, stripe, p)
  BY DEF Done
<1>2. PICK T \in SUBSET Refunds : T = Done(payment_id', stripe', p)
  BY DEF Done
<1>3. PICK a : a = amount
  OBVIOUS
<1>4. PICK b : b = amount'
  OBVIOUS
<1>5. a \in [Refunds -> Nat] /\ b \in [Refunds -> Nat] /\ Amount[p] \in Nat
  BY <1>3, <1>4, AmountIsPositive DEF TypeOK
<1>6. S \subseteq T /\ \A x \in S : a[x] = b[x]
  BY <1>1, <1>2, <1>3, <1>4 DEF Done
<1>7. SumFunctionOnSet(a, S) = SumFunctionOnSet(b, S)
  BY <1>6, SumSame, RefundsFinite, FS_Subset
<1>8. /\ SumFunctionOnSet(b, S) <= SumFunctionOnSet(b, T)
      /\ SumFunctionOnSet(b, T) \in Nat /\ SumFunctionOnSet(b, S) \in Nat
  BY <1>5, <1>6, SumFacts
<1>9. SumFunctionOnSet(a, S) >= Amount[p]
  BY <1>1, <1>3, ReturnedIsSum DEF Repaid
<1>10. Returned(p)' = SumFunctionOnSet(b, T)
  <2>1. Returned(p)' = SumFunctionOnSet(amount', Done(payment_id', stripe', p))
    BY DEF Returned, Total, Done
  <2> QED BY <1>2, <1>4, <2>1
<1> QED BY <1>5, <1>7, <1>8, <1>9, <1>10 DEF Repaid

(* No step changes the payment or the amount of a request that has begun.  *)
LEMMA StepClaims ==
    ASSUME IInv, [Next]_vars
    PROVE  ClaimsStay
<1>1. ASSUME NEW x \in Refunds, NEW p \in Payments, NEW a \in 0 .. Amount[p],
             CreateRefund(x, p, a)
      PROVE  ClaimsStay
  BY <1>1 DEF CreateRefund, ClaimsStay, IInv, TypeOK
<1>2. ASSUME NEW x \in Refunds, ProviderRefunds(x) \/ AbandonRefund(x) \/ CommitRefund(x)
      PROVE  ClaimsStay
  BY <1>2 DEF ProviderRefunds, AbandonRefund, CommitRefund, ClaimsStay, IInv, TypeOK
<1>3. CASE UNCHANGED requestVars
  BY <1>3 DEF ClaimsStay, requestVars
<1>4. ASSUME NEW x \in Refunds, NEW s \in StripeStatus, StripeMoves(x, s)
      PROVE  UNCHANGED requestVars
  BY <1>4 DEF StripeMoves
<1>5. HookNext => UNCHANGED requestVars
  BY DEF HookNext, HookLoadsRefund, HookCascades, HookCommits, HookRollsBack
<1>6. ReconcileNext => UNCHANGED requestVars
  BY DEF ReconcileNext, ReconcileLoads, ReconcileQueries, ReconcileQueryFails,
         ReconcileCommits, ReconcileDies
<1>7. UNCHANGED vars => UNCHANGED requestVars
  BY DEF vars
<1> QED BY <1>1, <1>2, <1>3, <1>4, <1>5, <1>6, <1>7 DEF Next, RequestNext

(* No step reopens a refund that has ended at the provider or takes an     *)
(* event back.                                                             *)
LEMMA StepProvider ==
    ASSUME IInv, [Next]_vars
    PROVE  ProviderStays
<1>1. ASSUME NEW x \in Refunds, ProviderRefunds(x) \/ AbandonRefund(x)
      PROVE  ProviderStays
  <2>1. request[x] = "calling" => stripe[x] = None
    BY DEF IInv, Ordered
  <2>2. stripe[x] \in Ended => stripe'[x] = stripe[x]
    <3>1. None \notin Ended
      BY Distinct DEF Ended, StripeStatus
    <3> QED BY <1>1, <2>1, <3>1 DEF ProviderRefunds, AbandonRefund, IInv, TypeOK
  <2> QED BY <1>1, <2>2 DEF ProviderRefunds, AbandonRefund, ProviderStays, IInv, TypeOK
<1>2. ASSUME NEW x \in Refunds, NEW s \in StripeStatus, StripeMoves(x, s)
      PROVE  ProviderStays
  BY <1>2 DEF StripeMoves, ProviderStays, IInv, TypeOK
<1>3. CASE UNCHANGED <<stripe, events>>
  BY <1>3 DEF ProviderStays
<1>4. ASSUME NEW x \in Refunds, NEW p \in Payments, NEW a \in 0 .. Amount[p],
             CreateRefund(x, p, a)
      PROVE  UNCHANGED <<stripe, events>>
  BY <1>4 DEF CreateRefund
<1>5. ASSUME NEW x \in Refunds, CommitRefund(x) PROVE UNCHANGED <<stripe, events>>
  BY <1>5 DEF CommitRefund
<1>6. HookNext => UNCHANGED <<stripe, events>>
  BY DEF HookNext, HookLoadsRefund, HookCascades, HookCommits, HookRollsBack
<1>7. ReconcileNext => UNCHANGED <<stripe, events>>
  BY DEF ReconcileNext, ReconcileLoads, ReconcileQueries, ReconcileQueryFails,
         ReconcileCommits, ReconcileDies
<1>8. UNCHANGED vars => UNCHANGED <<stripe, events>>
  BY DEF vars
<1> QED BY <1>1, <1>2, <1>3, <1>4, <1>5, <1>6, <1>7, <1>8 DEF Next, RequestNext

(* No step deletes a refund's row or takes REFUNDED from a payment.        *)
LEMMA StepRows ==
    ASSUME IInv, [Next]_vars
    PROVE  RowsStay
<1>1. ASSUME NEW x \in Refunds, CommitRefund(x)
      PROVE  RowsStay
  BY <1>1, Distinct DEF CommitRefund, RowsStay, RefundStatus, IInv, TypeOK
<1>2. ASSUME NEW h \in Hooks, HookCommits(h)
      PROVE  RowsStay
  <2>1. PICK e \in Events : e = hook[h].event /\ e.status \in {"succeeded", "failed"}
    BY <1>2, Distinct DEF HookCommits, IInv, TypeOK, HooksTrue, HookTrue, Sessions
  <2> QED BY <1>2, <2>1, Distinct DEF HookCommits, RowsStay, RefundStatus, IInv, TypeOK
<1>3. ASSUME NEW r \in Reconcilers, ReconcileCommits(r)
      PROVE  RowsStay
  BY <1>3 DEF ReconcileCommits, Moved, RowsStay, IInv, TypeOK
<1>4. CASE UNCHANGED rowVars
  BY <1>4 DEF RowsStay, rowVars
<1>5. ASSUME NEW x \in Refunds, NEW p \in Payments, NEW a \in 0 .. Amount[p],
             CreateRefund(x, p, a)
      PROVE  UNCHANGED rowVars
  BY <1>5 DEF CreateRefund
<1>6. ASSUME NEW x \in Refunds, ProviderRefunds(x) \/ AbandonRefund(x) PROVE UNCHANGED rowVars
  BY <1>6 DEF ProviderRefunds, AbandonRefund
<1>7. ASSUME NEW x \in Refunds, NEW s \in StripeStatus, StripeMoves(x, s)
      PROVE  UNCHANGED rowVars
  BY <1>7 DEF StripeMoves
<1>8. ASSUME NEW h \in Hooks,
             (\E e \in Events : HookLoadsRefund(h, e)) \/ HookCascades(h) \/ HookRollsBack(h)
      PROVE  UNCHANGED rowVars
  BY <1>8 DEF HookLoadsRefund, HookCascades, HookRollsBack
<1>9. ASSUME NEW r \in Reconcilers,
             \/ ReconcileLoads(r) \/ ReconcileDies(r)
             \/ \E x \in Refunds : ReconcileQueries(r, x) \/ ReconcileQueryFails(r, x)
      PROVE  UNCHANGED rowVars
  BY <1>9 DEF ReconcileLoads, ReconcileQueries, ReconcileQueryFails, ReconcileDies
<1>10. UNCHANGED vars => UNCHANGED rowVars
  BY DEF vars
<1> QED BY <1>1, <1>2, <1>3, <1>4, <1>5, <1>6, <1>7, <1>8, <1>9, <1>10
        DEF Next, RequestNext, HookNext, ReconcileNext

(* No step takes back any of this, nor money that was given back.          *)
LEMMA StepForward ==
    ASSUME IInv, [Next]_vars
    PROVE  Forward
<1>1. ClaimsStay /\ ProviderStays /\ RowsStay
  BY StepClaims, StepProvider, StepRows
<1>2. TypeOK /\ TypeOK'
  BY StepType DEF IInv
<1>3. ASSUME NEW x \in Refunds, stripe[x] = "succeeded"
      PROVE  /\ stripe'[x] = "succeeded"
             /\ payment_id'[x] = payment_id[x]
             /\ amount'[x] = amount[x]
  <2>1. stripe[x] # None
    BY <1>3, Distinct DEF StripeStatus
  <2>2. request[x] # "unused"
    BY <2>1 DEF IInv, Ordered
  <2> QED BY <1>1, <1>3, <2>2 DEF ClaimsStay, ProviderStays, Ended
<1>4. ASSUME NEW p \in Payments, Repaid(p) PROVE Repaid(p)'
  BY <1>2, <1>3, <1>4, RepaidStays
<1> QED BY <1>1, <1>4 DEF Forward

-------------------------------------------------------------------------------
(* A refund that is completed here is completed at the provider.           *)
LEMMA CompletedAtProvider ==
    ASSUME RowsTrue, NEW x \in Refunds, refund[x] = "succeeded"
    PROVE  stripe[x] = "succeeded"
<1>1. refund[x] \notin {None, "created", "pending"}
  BY Distinct DEF RefundStatus
<1>2. ProviderRefundStatus(stripe[x]) = "succeeded"
  BY <1>1 DEF RowsTrue
<1> QED BY <1>2, ProviderRefundStatusType

-------------------------------------------------------------------------------
(* The rows.                                                               *)

(* The session about to commit is one of the sessions.                     *)
LEMMA SessionFacts ==
    ASSUME TypeOK, HooksTrue, NEW h \in Hooks, hook[h].step \in {"cascade", "commit"}
    PROVE  hook[h] \in Sessions /\ hook[h] # Idle /\ HookTrue(hook[h])
BY Distinct DEF TypeOK, HooksTrue

(* Every step keeps request, row and the provider's refund in order.       *)
LEMMA StepOrdered ==
    ASSUME IInv, [Next]_vars
    PROVE  Ordered'
<1>1. ClaimsStay
  BY StepClaims
<1>2. ASSUME NEW x \in Refunds, NEW p \in Payments, NEW a \in 0 .. Amount[p],
             CreateRefund(x, p, a)
      PROVE  Ordered'
  BY <1>2 DEF CreateRefund, Ordered, rowVars, IInv, TypeOK
<1>3. ASSUME NEW x \in Refunds, ProviderRefunds(x) \/ AbandonRefund(x) \/ CommitRefund(x)
      PROVE  Ordered'
  BY <1>3 DEF ProviderRefunds, AbandonRefund, CommitRefund, Ordered, rowVars, IInv, TypeOK
<1>4. ASSUME NEW x \in Refunds, NEW s \in StripeStatus, StripeMoves(x, s)
      PROVE  Ordered'
  BY <1>4, Distinct DEF StripeMoves, Ordered, rowVars, requestVars, IInv, TypeOK
<1>5. ASSUME UNCHANGED requestVars, UNCHANGED stripe,
             \A x \in Refunds : refund'[x] # None => refund[x] # None
      PROVE  Ordered'
  BY <1>5 DEF Ordered, requestVars, IInv
<1>6. ASSUME NEW h \in Hooks, HookCommits(h)
      PROVE  /\ UNCHANGED requestVars /\ UNCHANGED stripe
             /\ \A x \in Refunds : refund'[x] # None => refund[x] # None
  <2>1. HookTrue(hook[h]) /\ hook[h] \in Sessions
    BY <1>6, SessionFacts DEF HookCommits, IInv
  <2> QED BY <1>6, <2>1 DEF HookCommits, HookTrue, Sessions, Events, IInv, TypeOK
<1>7. ASSUME NEW h \in Hooks,
             (\E e \in Events : HookLoadsRefund(h, e)) \/ HookCascades(h) \/ HookRollsBack(h)
      PROVE  UNCHANGED <<requestVars, stripe, refund>>
  BY <1>7 DEF HookLoadsRefund, HookCascades, HookRollsBack, rowVars
<1>8. ASSUME NEW r \in Reconcilers, ReconcileCommits(r)
      PROVE  /\ UNCHANGED requestVars /\ UNCHANGED stripe
             /\ \A x \in Refunds : refund'[x] # None => refund[x] # None
  BY <1>8 DEF ReconcileCommits, Moved, RunsTrue, RunTrue, IInv
<1>9. ASSUME NEW r \in Reconcilers,
             \/ ReconcileLoads(r) \/ ReconcileDies(r)
             \/ \E x \in Refunds : ReconcileQueries(r, x) \/ ReconcileQueryFails(r, x)
      PROVE  UNCHANGED <<requestVars, stripe, refund>>
  BY <1>9 DEF ReconcileLoads, ReconcileQueries, ReconcileQueryFails, ReconcileDies, rowVars
<1>10. UNCHANGED vars => UNCHANGED <<requestVars, stripe, refund>>
  BY DEF vars, rowVars
<1>11. HookNext => Ordered'
  BY <1>5, <1>6, <1>7 DEF HookNext
<1>12. ReconcileNext => Ordered'
  BY <1>5, <1>8, <1>9 DEF ReconcileNext
<1> QED BY <1>2, <1>3, <1>4, <1>5, <1>10, <1>11, <1>12 DEF Next, RequestNext

(* Every way the committed rows change.                                    *)
RefundsMove ==
    \A x \in Refunds :
        \/ refund'[x] \in {refund[x], "pending"}
        \/ /\ refund[x] # None
           /\ refund'[x] = ProviderRefundStatus(stripe[x])
           /\ \A p \in Payments :
                /\ p = payment_id[x]
                /\ refund'[x] = "succeeded"
                /\ amount[x] >= Amount[p]
                => payment'[p] = "refunded"

CollectionsMove ==
    \A p \in Payments :
        /\ payment'[p] # payment[p] => payment'[p] = "refunded" /\ Repaid(p)
        /\ invoice'[p] # invoice[p] => invoice'[p] = "refunded" /\ Repaid(p)

(* A webhook's commit moves rows only to what is so at the provider.       *)
LEMMA HookMoves ==
    ASSUME IInv, NEW h \in Hooks, HookCommits(h)
    PROVE  RefundsMove /\ CollectionsMove
<1>1. PICK s \in Sessions : s = hook[h] /\ HookTrue(s) /\ s.step = "commit"
  BY SessionFacts DEF HookCommits, IInv
<1>2. PICK e \in Events : e = s.event
  BY <1>1 DEF Sessions
<1>3. e \in events /\ e.status \in {"succeeded", "failed"} /\ refund[e.refund] # None
  BY <1>1, <1>2 DEF HookTrue
<1>4. PICK x \in Refunds : x = e.refund
  BY DEF Events
<1>5. stripe[x] = e.status /\ e.status = ProviderRefundStatus(stripe[x])
  BY <1>3, <1>4 DEF IInv, EventsTrue, Ended, ProviderRefundStatus
<1>6. PICK p \in Payments : p = payment_id[x]
  BY <1>3, <1>4 DEF IInv, Ordered, TypeOK
<1>7. /\ s.writes # {} => Repaid(p)
      /\ /\ e.status = "succeeded" /\ s.refund # "succeeded" /\ amount[x] >= Amount[p]
         => "payment" \in s.writes \/ payment[p] = "refunded"
  BY <1>1, <1>2, <1>4, <1>6 DEF HookTrue
<1>8. /\ refund' = [refund EXCEPT ![x] = IF s.refund = e.status THEN @ ELSE e.status]
      /\ payment' = [payment EXCEPT ![p] = IF "payment" \in s.writes THEN "refunded" ELSE @]
      /\ invoice' = [invoice EXCEPT ![p] = IF "invoice" \in s.writes THEN "refunded" ELSE @]
  BY <1>1, <1>2, <1>4, <1>6 DEF HookCommits
<1>9. RefundsMove
  BY <1>3, <1>4, <1>5, <1>6, <1>7, <1>8 DEF RefundsMove, IInv, TypeOK
<1>10. CollectionsMove
  BY <1>7, <1>8 DEF CollectionsMove, IInv, TypeOK
<1> QED BY <1>9, <1>10

(* So does the commit of a reconciliation run, however long ago it has     *)
(* loaded its refunds.                                                     *)
LEMMA RunMoves ==
    ASSUME IInv, NEW r \in Reconcilers, ReconcileCommits(r)
    PROVE  RefundsMove /\ CollectionsMove
<1>1. RunTrue(memory[r], todo[r], refunding[r], closing[r])
  BY DEF IInv, RunsTrue
<1>2. RefundsMove
  BY <1>1 DEF RunTrue, ReconcileCommits, Moved, RefundsMove, IInv, TypeOK
<1>3. CollectionsMove
  BY <1>1 DEF RunTrue, ReconcileCommits, CollectionsMove, IInv, TypeOK
<1> QED BY <1>2, <1>3

(* So does every step.                                                     *)
LEMMA StepMoves ==
    ASSUME IInv, [Next]_vars
    PROVE  RefundsMove /\ CollectionsMove
<1>1. CASE UNCHANGED rowVars
  BY <1>1 DEF rowVars, RefundsMove, CollectionsMove
<1>2. ASSUME NEW x \in Refunds, CommitRefund(x)
      PROVE  RefundsMove /\ CollectionsMove
  BY <1>2 DEF CommitRefund, IInv, TypeOK, RefundsMove, CollectionsMove
<1>3. ASSUME NEW x \in Refunds,
             \/ \E p \in Payments : \E a \in 0 .. Amount[p] : CreateRefund(x, p, a)
             \/ ProviderRefunds(x) \/ AbandonRefund(x)
      PROVE  UNCHANGED rowVars
  BY <1>3 DEF CreateRefund, ProviderRefunds, AbandonRefund
<1>4. ASSUME NEW x \in Refunds, NEW s \in StripeStatus, StripeMoves(x, s)
      PROVE  UNCHANGED rowVars
  BY <1>4 DEF StripeMoves
<1>5. ASSUME NEW h \in Hooks,
             (\E e \in Events : HookLoadsRefund(h, e)) \/ HookCascades(h) \/ HookRollsBack(h)
      PROVE  UNCHANGED rowVars
  BY <1>5 DEF HookLoadsRefund, HookCascades, HookRollsBack
<1>6. ASSUME NEW r \in Reconcilers,
             \/ ReconcileLoads(r) \/ ReconcileDies(r)
             \/ \E x \in Refunds : ReconcileQueries(r, x) \/ ReconcileQueryFails(r, x)
      PROVE  UNCHANGED rowVars
  BY <1>6 DEF ReconcileLoads, ReconcileQueries, ReconcileQueryFails, ReconcileDies
<1>7. UNCHANGED vars => UNCHANGED rowVars
  BY DEF vars
<1>8. HookNext => RefundsMove /\ CollectionsMove
  BY <1>1, <1>5, HookMoves DEF HookNext
<1>9. ReconcileNext => RefundsMove /\ CollectionsMove
  BY <1>1, <1>6, RunMoves DEF ReconcileNext
<1> QED BY <1>1, <1>2, <1>3, <1>4, <1>7, <1>8, <1>9 DEF Next, RequestNext

(* So they stay true.                                                      *)
LEMMA StepRowsTrue ==
    ASSUME IInv, [Next]_vars
    PROVE  Collected' /\ RowsTrue' /\ WholeCascades'
<1>1. RefundsMove /\ CollectionsMove /\ Forward
  BY StepMoves, StepForward
<1>2. Collected'
  BY <1>1 DEF CollectionsMove, Collected, IInv
<1>3. ASSUME NEW x \in Refunds, refund'[x] \notin {None, "created", "pending"}
      PROVE  refund'[x] = ProviderRefundStatus(stripe'[x])
  <2>1. refund'[x] = ProviderRefundStatus(stripe[x])
    BY <1>1, <1>3 DEF RefundsMove, RowsTrue, IInv
  <2>2. stripe[x] \in Ended
    BY <1>3, <2>1, ProviderRefundStatusType
  <2> QED BY <1>1, <2>1, <2>2 DEF Forward, ProviderStays
<1>4. ASSUME NEW p \in Payments, payment'[p] = "refunded" \/ invoice'[p] = "refunded"
      PROVE  Repaid(p)'
  <2>1. Repaid(p)
    BY <1>1, <1>4 DEF CollectionsMove, RowsTrue, IInv
  <2> QED BY <1>1, <2>1 DEF Forward
<1>5. RowsTrue'
  BY <1>3, <1>4 DEF RowsTrue
<1>6. ASSUME NEW x \in Refunds, NEW p \in Payments,
             p = payment_id'[x], refund'[x] = "succeeded", amount'[x] >= Amount[p]
      PROVE  payment'[p] = "refunded"
  <2>1. refund[x] # None
    BY <1>1, <1>6, Distinct DEF RefundsMove, RefundStatus
  <2>2. p = payment_id[x] /\ amount[x] >= Amount[p]
    BY <1>1, <1>6, <2>1 DEF Forward, ClaimsStay, IInv, Ordered
  <2>3. CASE refund[x] = "succeeded"
    BY <1>1, <2>2, <2>3 DEF Forward, RowsStay, WholeCascades, IInv
  <2>4. CASE refund[x] # "succeeded"
    BY <1>1, <1>6, <2>2, <2>4 DEF RefundsMove
  <2> QED BY <2>3, <2>4
<1>7. WholeCascades'
  BY <1>6 DEF WholeCascades
<1> QED BY <1>2, <1>5, <1>7

-------------------------------------------------------------------------------
(* The provider, the webhooks' sessions and the runs.                      *)

(* The provider's last word on a refund stays true: a refund ends once.    *)
LEMMA StepEvents ==
    ASSUME IInv, [Next]_vars
    PROVE  EventsTrue'
<1>1. ProviderStays
  BY StepProvider
<1>2. CASE events' = events
  BY <1>1, <1>2 DEF ProviderStays, EventsTrue, IInv, TypeOK, Events
<1>3. ASSUME NEW x \in Refunds, NEW s \in StripeStatus, StripeMoves(x, s)
      PROVE  EventsTrue'
  BY <1>1, <1>3 DEF StripeMoves, ProviderStays, EventsTrue, IInv, TypeOK, Events
<1>4. ASSUME NEW x \in Refunds,
             \/ \E p \in Payments : \E a \in 0 .. Amount[p] : CreateRefund(x, p, a)
             \/ ProviderRefunds(x) \/ AbandonRefund(x) \/ CommitRefund(x)
      PROVE  events' = events
  BY <1>4 DEF CreateRefund, ProviderRefunds, AbandonRefund, CommitRefund
<1>5. HookNext => events' = events
  BY DEF HookNext, HookLoadsRefund, HookCascades, HookCommits, HookRollsBack
<1>6. ReconcileNext => events' = events
  BY DEF ReconcileNext, ReconcileLoads, ReconcileQueries, ReconcileQueryFails,
         ReconcileCommits, ReconcileDies
<1>7. UNCHANGED vars => events' = events
  BY DEF vars
<1> QED BY <1>2, <1>3, <1>4, <1>5, <1>6, <1>7 DEF Next, RequestNext

(* What a webhook session has concluded stays true, whatever others do.    *)
LEMMA HookTrueStays ==
    ASSUME IInv, Forward, NEW s \in Sessions, HookTrue(s)
    PROVE  HookTrue(s)'
<1>1. PICK x \in Refunds : x = s.event.refund
  BY DEF Sessions, Events
<1>2. refund[x] # None /\ refund'[x] # None
  BY <1>1 DEF HookTrue, Forward, RowsStay
<1>3. payment_id'[x] = payment_id[x] /\ amount'[x] = amount[x]
  BY <1>2 DEF Forward, ClaimsStay, IInv, Ordered
<1> QED BY <1>1, <1>2, <1>3 DEF HookTrue, Forward, ProviderStays, RowsStay

(* A session begins with a conclusion that is true of the row it reads.    *)
LEMMA HookLoadsTrue ==
    ASSUME IInv, NEW h \in Hooks, NEW e \in Events, HookLoadsRefund(h, e)
    PROVE  \E s \in Sessions : hook' = [hook EXCEPT ![h] = s] /\ HookTrue(s)
<1>1. PICK c : c = refund[e.refund]
  OBVIOUS
<1>2. c \in RefundStatus
  BY <1>1 DEF HookLoadsRefund, IInv, TypeOK, Events
<1>3. PICK step : step = IF e.status = "succeeded" /\ c # "succeeded" THEN "cascade" ELSE "commit"
  OBVIOUS
<1>4. PICK s : s = [step |-> step, event |-> e, writes |-> {}, refund |-> c]
  OBVIOUS
<1>5. s \in Sessions
  BY <1>2, <1>3, <1>4 DEF Sessions
<1>6. hook' = [hook EXCEPT ![h] = s]
  BY <1>1, <1>3, <1>4 DEF HookLoadsRefund
<1>7. e.status \in {"succeeded", "failed"} /\ e \in events /\ c # None
  BY <1>1 DEF HookLoadsRefund, HandledStatus, Events, StripeStatus
<1>8. HookTrue(s)
  BY <1>1, <1>3, <1>4, <1>7 DEF HookTrue
<1> QED BY <1>5, <1>6, <1>8

(* The cascade of a webhook, run over its own view of the refunds, writes  *)
(* only to payments that were given back; or the session is rolled back.   *)
LEMMA HookCascadesTrue ==
    ASSUME IInv, NEW h \in Hooks, HookCascades(h)
    PROVE  \/ hook' = [hook EXCEPT ![h] = Idle]
           \/ \E s \in Sessions : hook' = [hook EXCEPT ![h] = s] /\ HookTrue(s)
<1>1. PICK s \in Sessions : s = hook[h] /\ HookTrue(s) /\ s.step = "cascade"
  BY SessionFacts DEF HookCascades, IInv
<1>2. PICK x \in Refunds : x = s.event.refund
  BY DEF Sessions, Events
<1>3. /\ s.event \in events /\ s.event.status = "succeeded" /\ s.event \in Events
      /\ refund[x] # None
  BY <1>1, <1>2 DEF HookTrue, Sessions
<1>4. stripe[x] = "succeeded"
  BY <1>2, <1>3 DEF IInv, EventsTrue, Ended
<1>5. PICK p \in Payments : p = payment_id[x]
  BY <1>3 DEF IInv, Ordered, TypeOK
<1>6. PICK view : view = [refund EXCEPT ![x] = "succeeded"]
  OBVIOUS
<1>7. /\ view[x] = "succeeded"
      /\ \A y \in Refunds : view[y] = "succeeded" => stripe[y] = "succeeded"
  <2>1. view[x] = "succeeded"
    BY <1>6 DEF IInv, TypeOK
  <2>2. ASSUME NEW y \in Refunds, y # x, view[y] = "succeeded" PROVE stripe[y] = "succeeded"
    BY <1>6, <2>2, CompletedAtProvider DEF IInv, TypeOK
  <2> QED BY <1>4, <2>1, <2>2
<1>8. PICK w \in SUBSET Columns : w = CascadeWrites(view, p)
  BY WritesType
<1>9. w # {} => Repaid(p)
  <2>1. w # {} => Covered(view, p)
    BY <1>8 DEF CascadeWrites
  <2> QED BY <1>7, <2>1, CoveredIsRepaid DEF IInv
<1>10. amount[x] >= Amount[p] => "payment" \in w \/ payment[p] = "refunded"
  <2>1. amount[x] >= Amount[p] => Covered(view, p)
    BY <1>5, <1>7, AloneCovers DEF IInv
  <2>2. PaymentMayBecome(payment[p], "refunded")
    BY DEF PaymentMayBecome, PaymentTransitions, PaymentStatus, IInv, Collected
  <2> QED BY <1>8, <2>1, <2>2 DEF CascadeWrites, Columns
<1>11. PICK t : t = [s EXCEPT !.step = "commit", !.writes = w]
  OBVIOUS
<1>12. t \in Sessions /\ t.event = s.event /\ t.step = "commit" /\ t.writes = w
  BY <1>11 DEF Sessions
<1>13. HookTrue(t)
  BY <1>1, <1>2, <1>3, <1>5, <1>9, <1>10, <1>12 DEF HookTrue
<1>14. hook' = [hook EXCEPT ![h] = Idle] \/ hook' = [hook EXCEPT ![h] = t]
  BY <1>1, <1>2, <1>5, <1>6, <1>8, <1>11 DEF HookCascades
<1> QED BY <1>12, <1>13, <1>14

(* What the webhook sessions have concluded stays true in every step.      *)
LEMMA StepHooks ==
    ASSUME IInv, [Next]_vars
    PROVE  HooksTrue'
<1>1. Forward
  BY StepForward
<1>2. ASSUME NEW h \in Hooks, NEW s \in Sessions \cup {Idle}, hook' = [hook EXCEPT ![h] = s],
             s \in Sessions => HookTrue(s)
      PROVE  HooksTrue'
  <2> SUFFICES ASSUME NEW g \in Hooks, hook'[g] # Idle PROVE HookTrue(hook[g])'
    BY DEF HooksTrue
  <2>1. PICK t \in Sessions : t = hook'[g] /\ HookTrue(t)
    BY <1>2, Distinct DEF IInv, TypeOK, HooksTrue
  <2>2. HookTrue(t)'
    BY <1>1, <2>1, HookTrueStays
  <2> QED BY <2>1, <2>2 DEF HookTrue
<1>3. CASE UNCHANGED hook
  <2> SUFFICES ASSUME NEW g \in Hooks, hook'[g] # Idle PROVE HookTrue(hook[g])'
    BY DEF HooksTrue
  <2>1. PICK t \in Sessions : t = hook'[g] /\ HookTrue(t)
    BY <1>3, Distinct DEF IInv, TypeOK, HooksTrue
  <2>2. HookTrue(t)'
    BY <1>1, <2>1, HookTrueStays
  <2> QED BY <2>1, <2>2 DEF HookTrue
<1>4. ASSUME NEW h \in Hooks, NEW e \in Events, HookLoadsRefund(h, e) PROVE HooksTrue'
  BY <1>2, <1>4, HookLoadsTrue
<1>5. ASSUME NEW h \in Hooks, HookCascades(h) PROVE HooksTrue'
  BY <1>2, <1>5, HookCascadesTrue, Distinct
<1>6. ASSUME NEW h \in Hooks, HookCommits(h) \/ HookRollsBack(h) PROVE HooksTrue'
  <2>1. hook' = [hook EXCEPT ![h] = Idle]
    BY <1>6 DEF HookCommits, HookRollsBack
  <2> QED BY <1>2, <2>1, Distinct
<1>7. RequestNext => UNCHANGED hook
  BY DEF RequestNext, CreateRefund, ProviderRefunds, AbandonRefund, CommitRefund, hookVars
<1>8. ASSUME NEW x \in Refunds, NEW s \in StripeStatus, StripeMoves(x, s) PROVE UNCHANGED hook
  BY <1>8 DEF StripeMoves, hookVars
<1>9. ReconcileNext => UNCHANGED hook
  BY DEF ReconcileNext, ReconcileLoads, ReconcileQueries, ReconcileQueryFails,
         ReconcileCommits, ReconcileDies, hookVars
<1>10. UNCHANGED vars => UNCHANGED hook
  BY DEF vars, hookVars
<1> QED BY <1>3, <1>4, <1>5, <1>6, <1>7, <1>8, <1>9, <1>10 DEF Next, HookNext

(* What a reconciliation run has concluded stays true as well.             *)
LEMMA RunTrueStays ==
    ASSUME IInv, Forward, NEW m, NEW t \in SUBSET Refunds, NEW f \in SUBSET Payments,
           NEW c \in SUBSET Payments, RunTrue(m, t, f, c)
    PROVE  RunTrue(m, t, f, c)'
<1>1. \A x \in t : refund'[x] # None
  BY DEF RunTrue, Forward, RowsStay
<1>2. ASSUME NEW x \in Refunds, m[x] # None
      PROVE  /\ refund'[x] # None
             /\ m[x] # "pending" => m[x] = ProviderRefundStatus(stripe'[x])
             /\ payment_id'[x] = payment_id[x] /\ amount'[x] = amount[x]
  <2>1. refund[x] # None
    BY <1>2 DEF RunTrue
  <2>2. m[x] # "pending" => stripe'[x] = stripe[x]
    BY <1>2, ProviderRefundStatusType DEF RunTrue, Forward, ProviderStays
  <2> QED BY <1>2, <2>1, <2>2 DEF RunTrue, Forward, RowsStay, ClaimsStay, IInv, Ordered
<1>3. \A p \in f \cup c : Repaid(p)'
  BY DEF RunTrue, Forward
<1>4. ASSUME NEW x \in Refunds, m[x] # None, NEW p \in Payments,
             p = payment_id'[x], m[x] = "succeeded", amount'[x] >= Amount[p]
      PROVE  p \in f \/ payment'[p] = "refunded"
  BY <1>2, <1>4 DEF RunTrue, Forward, RowsStay
<1> QED BY <1>1, <1>2, <1>3, <1>4 DEF RunTrue

(* A run that has loaded nothing claims nothing.                           *)
LEMMA NothingIsTrue == RunTrue(Nothing, {}, {}, {})
BY DEF RunTrue, Nothing

(* What a run has just loaded are PENDING rows, of which it claims         *)
(* nothing.                                                                *)
LEMMA LoadedIsTrue ==
    ASSUME IInv, NEW r \in Reconcilers, ReconcileLoads(r)
    PROVE  RunTrue(memory'[r], todo'[r], refunding'[r], closing'[r])
<1>1. PICK m : m = [x \in Refunds |-> IF refund[x] = "pending" THEN "pending" ELSE None]
  OBVIOUS
<1>2. PICK t \in SUBSET Refunds : t = {x \in Refunds : refund[x] = "pending"}
  OBVIOUS
<1>3. /\ memory'[r] = m /\ todo'[r] = t
      /\ refunding'[r] = refunding[r] /\ closing'[r] = closing[r]
  BY <1>1, <1>2 DEF ReconcileLoads, IInv, TypeOK
<1>4. None # "pending"
  BY Distinct DEF RefundStatus
<1>5. \A p \in refunding[r] \cup closing[r] : Repaid(p)
  BY DEF IInv, RunsTrue, RunTrue
<1>6. RunTrue(m, t, refunding[r], closing[r])
  BY <1>1, <1>2, <1>4, <1>5 DEF RunTrue
<1> QED BY <1>3, <1>6

(* The provider's answer and the cascade after it, over the rows as the    *)
(* run's session sees them, keep what the run will write true.             *)
LEMMA QueriedIsTrue ==
    ASSUME IInv, NEW r \in Reconcilers, NEW x \in Refunds, ReconcileQueries(r, x)
    PROVE  RunTrue(memory'[r], todo'[r], refunding'[r], closing'[r])
<1>1. PICK m : m = memory[r]
  OBVIOUS
<1>2. PICK t \in SUBSET Refunds : t = todo[r]
  BY DEF IInv, TypeOK
<1>3. PICK f \in SUBSET Payments : f = refunding[r]
  BY DEF IInv, TypeOK
<1>4. PICK c \in SUBSET Payments : c = closing[r]
  BY DEF IInv, TypeOK
<1>5. RunTrue(m, t, f, c) /\ x \in t /\ m \in [Refunds -> RefundStatus \cup {None}]
  BY <1>1, <1>2, <1>3, <1>4 DEF IInv, TypeOK, RunsTrue, ReconcileQueries
<1>6. refund[x] # None
  BY <1>5 DEF RunTrue
<1>7. PICK p \in Payments : p = payment_id[x]
  BY <1>6 DEF IInv, Ordered
<1>8. PICK s \in RefundStatus : s = ProviderRefundStatus(stripe[x])
  BY ProviderRefundStatusType
<1>9. PICK view : view = Overlay(r, x, s)
  OBVIOUS
<1>10. PICK w \in SUBSET Columns :
          w = IF s = "succeeded" /\ p \notin f THEN CascadeWrites(view, p) ELSE {}
  BY WritesType
<1>11. /\ memory'[r] = [m EXCEPT ![x] = s]
       /\ todo'[r] = t \ {x}
       /\ refunding'[r] = IF "payment" \in w THEN f \cup {p} ELSE f
       /\ closing'[r] = IF "invoice" \in w THEN c \cup {p} ELSE c
  BY <1>1, <1>2, <1>3, <1>4, <1>7, <1>8, <1>9, <1>10 DEF ReconcileQueries, IInv, TypeOK
<1>12. /\ s = "succeeded" => view[x] = "succeeded"
       /\ s = "succeeded" => \A y \in Refunds : view[y] = "succeeded" => stripe[y] = "succeeded"
  <2>1. view[x] = s
    BY <1>9 DEF Overlay
  <2>2. s = "succeeded" => stripe[x] = "succeeded"
    BY <1>8, ProviderRefundStatusType
  <2>3. ASSUME NEW y \in Refunds, y # x, view[y] = "succeeded" PROVE stripe[y] = "succeeded"
    <3>1. CASE m[y] # None
      <4>1. m[y] = "succeeded"
        BY <1>1, <1>9, <2>3, <3>1 DEF Overlay
      <4>2. ProviderRefundStatus(stripe[y]) = "succeeded"
        BY <1>5, <3>1, <4>1 DEF RunTrue
      <4> QED BY <4>2, ProviderRefundStatusType
    <3>2. CASE m[y] = None
      <4>1. refund[y] = "succeeded"
        BY <1>1, <1>9, <2>3, <3>2 DEF Overlay
      <4> QED BY <4>1, CompletedAtProvider DEF IInv
    <3> QED BY <3>1, <3>2
  <2> QED BY <2>1, <2>2, <2>3
<1>13. w # {} => Repaid(p)
  <2>1. w # {} => s = "succeeded" /\ Covered(view, p)
    BY <1>10 DEF CascadeWrites
  <2> QED BY <1>12, <2>1, CoveredIsRepaid DEF IInv
<1>14. s = "succeeded" /\ amount[x] >= Amount[p] /\ p \notin f =>
          "payment" \in w \/ payment[p] = "refunded"
  <2>1. s = "succeeded" /\ amount[x] >= Amount[p] => Covered(view, p)
    BY <1>7, <1>12, AloneCovers DEF IInv
  <2>2. PaymentMayBecome(payment[p], "refunded")
    BY DEF PaymentMayBecome, PaymentTransitions, PaymentStatus, IInv, Collected
  <2> QED BY <1>10, <2>1, <2>2 DEF CascadeWrites, Columns
<1>15. PICK m2 : m2 = [m EXCEPT ![x] = s]
  OBVIOUS
<1>16. PICK f2 \in SUBSET Payments : f2 = IF "payment" \in w THEN f \cup {p} ELSE f
  OBVIOUS
<1>17. PICK c2 \in SUBSET Payments : c2 = IF "invoice" \in w THEN c \cup {p} ELSE c
  OBVIOUS
<1>18. \A y \in t \ {x} : refund[y] # None
  BY <1>5 DEF RunTrue
<1>19. \A q \in f2 \cup c2 : Repaid(q)
  BY <1>5, <1>13, <1>16, <1>17 DEF RunTrue
<1>20. ASSUME NEW y \in Refunds, m2[y] # None
       PROVE  /\ refund[y] # None
              /\ m2[y] # "pending" => m2[y] = ProviderRefundStatus(stripe[y])
              /\ \A q \in Payments :
                    q = payment_id[y] /\ m2[y] = "succeeded" /\ amount[y] >= Amount[q]
                        => q \in f2 \/ payment[q] = "refunded"
  <2>1. CASE y = x
    BY <1>5, <1>6, <1>7, <1>8, <1>14, <1>15, <1>16, <2>1
  <2>2. CASE y # x
    <3>1. m2[y] = m[y] /\ f \subseteq f2
      BY <1>5, <1>15, <1>16, <2>2
    <3> QED BY <1>5, <1>20, <3>1 DEF RunTrue
  <2> QED BY <2>1, <2>2
<1>21. RunTrue(m2, t \ {x}, f2, c2)
  BY <1>18, <1>19, <1>20 DEF RunTrue
<1> QED BY <1>11, <1>15, <1>16, <1>17, <1>21

(* No other run is touched.                                                *)
RunUnchanged(r) ==
    /\ memory'[r] = memory[r] /\ todo'[r] = todo[r]
    /\ refunding'[r] = refunding[r] /\ closing'[r] = closing[r]

(* The steps of reconciliation keep what every run will write true.        *)
LEMMA ReconcileTrue ==
    ASSUME IInv, ReconcileNext
    PROVE  \A q \in Reconcilers : RunTrue(memory'[q], todo'[q], refunding'[q], closing'[q])
<1>1. \A q \in Reconcilers : RunTrue(memory[q], todo[q], refunding[q], closing[q])
  BY DEF IInv, RunsTrue
<1>2. ASSUME NEW q \in Reconcilers, RunUnchanged(q)
      PROVE  RunTrue(memory'[q], todo'[q], refunding'[q], closing'[q])
  BY <1>1, <1>2 DEF RunUnchanged
<1>3. ASSUME NEW r \in Reconcilers, ReconcileLoads(r)
      PROVE  \A q \in Reconcilers \ {r} : RunUnchanged(q)
  BY <1>3 DEF ReconcileLoads, RunUnchanged, IInv, TypeOK
<1>4. ASSUME NEW r \in Reconcilers, NEW x \in Refunds, ReconcileQueries(r, x)
      PROVE  \A q \in Reconcilers \ {r} : RunUnchanged(q)
  <2>1. PICK a, b, d : /\ memory' = [memory EXCEPT ![r] = a]
                       /\ refunding' = [refunding EXCEPT ![r] = b]
                       /\ closing' = [closing EXCEPT ![r] = d]
    BY <1>4 DEF ReconcileQueries
  <2> QED BY <1>4, <2>1 DEF ReconcileQueries, RunUnchanged, IInv, TypeOK
<1>5. ASSUME NEW r \in Reconcilers, NEW x \in Refunds, ReconcileQueryFails(r, x)
      PROVE  /\ \A q \in Reconcilers \ {r} : RunUnchanged(q)
             /\ RunTrue(memory'[r], todo'[r], refunding'[r], closing'[r])
  <2>1. /\ \A q \in Reconcilers \ {r} : RunUnchanged(q)
        /\ memory'[r] = memory[r] /\ todo'[r] = todo[r] \ {x}
        /\ refunding'[r] = refunding[r] /\ closing'[r] = closing[r]
    BY <1>5 DEF ReconcileQueryFails, RunUnchanged, IInv, TypeOK
  <2>2. RunTrue(memory[r], todo[r] \ {x}, refunding[r], closing[r])
    BY <1>1 DEF RunTrue
  <2> QED BY <2>1, <2>2
<1>6. ASSUME NEW r \in Reconcilers, ReconcileCommits(r) \/ ReconcileDies(r)
      PROVE  /\ \A q \in Reconcilers \ {r} : RunUnchanged(q)
             /\ RunTrue(memory'[r], todo'[r], refunding'[r], closing'[r])
  <2>1. /\ \A q \in Reconcilers \ {r} : RunUnchanged(q)
        /\ memory'[r] = Nothing /\ todo'[r] = {} /\ refunding'[r] = {} /\ closing'[r] = {}
    BY <1>6 DEF ReconcileCommits, ReconcileDies, ResetRun, RunUnchanged, IInv, TypeOK
  <2> QED BY <2>1, NothingIsTrue
<1> QED BY <1>2, <1>3, <1>4, <1>5, <1>6, LoadedIsTrue, QueriedIsTrue DEF ReconcileNext

(* So does every step: no commit of another session falsifies it.          *)
LEMMA StepRuns ==
    ASSUME IInv, [Next]_vars
    PROVE  RunsTrue'
<1>1. Forward /\ TypeOK'
  BY StepForward, StepType
<1>2. ASSUME \A r \in Reconcilers : RunTrue(memory'[r], todo'[r], refunding'[r], closing'[r])
      PROVE  RunsTrue'
  <2> SUFFICES ASSUME NEW r \in Reconcilers
               PROVE  RunTrue(memory[r], todo[r], refunding[r], closing[r])'
    BY DEF RunsTrue
  <2>1. PICK m : m = memory'[r]
    OBVIOUS
  <2>2. PICK t \in SUBSET Refunds : t = todo'[r]
    BY <1>1 DEF TypeOK
  <2>3. PICK f \in SUBSET Payments : f = refunding'[r]
    BY <1>1 DEF TypeOK
  <2>4. PICK c \in SUBSET Payments : c = closing'[r]
    BY <1>1 DEF TypeOK
  <2>5. RunTrue(m, t, f, c)
    BY <1>2, <2>1, <2>2, <2>3, <2>4
  <2>6. RunTrue(m, t, f, c)'
    BY <1>1, <2>5, RunTrueStays
  <2> QED BY <2>1, <2>2, <2>3, <2>4, <2>6 DEF RunTrue
<1>3. CASE UNCHANGED reconVars
  <2>1. \A r \in Reconcilers : RunTrue(memory'[r], todo'[r], refunding'[r], closing'[r])
    BY <1>3 DEF IInv, RunsTrue, reconVars
  <2> QED BY <1>2, <2>1
<1>4. CASE ReconcileNext
  BY <1>2, <1>4, ReconcileTrue
<1>5. RequestNext => UNCHANGED reconVars
  BY DEF RequestNext, CreateRefund, ProviderRefunds, AbandonRefund, CommitRefund
<1>6. ASSUME NEW x \in Refunds, NEW s \in StripeStatus, StripeMoves(x, s) PROVE UNCHANGED reconVars
  BY <1>6 DEF StripeMoves
<1>7. HookNext => UNCHANGED reconVars
  BY DEF HookNext, HookLoadsRefund, HookCascades, HookCommits, HookRollsBack
<1>8. UNCHANGED vars => UNCHANGED reconVars
  BY DEF vars
<1> QED BY <1>3, <1>4, <1>5, <1>6, <1>7, <1>8 DEF Next

-------------------------------------------------------------------------------
(* The theorems.                                                           *)

(* The invariant holds initially.                                          *)
LEMMA InitHolds == Init => IInv
<1> SUFFICES ASSUME Init PROVE IInv
  OBVIOUS
<1>1. TypeOK
  BY InitType
<1>2. Ordered /\ Collected /\ EventsTrue
  BY DEF Init, Nothing, Ordered, Collected, EventsTrue
<1>3. HooksTrue
  BY DEF Init, HooksTrue
<1>4. RunsTrue
  BY NothingIsTrue DEF Init, RunsTrue
<1>5. RowsTrue /\ WholeCascades
  BY PaidStatusesReachable, Distinct DEF Init, Nothing, RowsTrue, WholeCascades, RefundStatus
<1> QED BY <1>1, <1>2, <1>3, <1>4, <1>5 DEF IInv

(* The invariant is inductive: the lemmas above, put together.             *)
LEMMA StepHolds == IInv /\ [Next]_vars => IInv'
<1> SUFFICES ASSUME IInv, [Next]_vars PROVE IInv'
  OBVIOUS
<1> QED BY StepType, StepOrdered, StepRowsTrue, StepEvents, StepHooks, StepRuns DEF IInv

(* The inductive invariant holds of every behaviour: every session and     *)
(* every reconciliation run has concluded, from rows that others may have  *)
(* changed since, only what is true at the provider.                       *)
THEOREM Invariance == Spec => []IInv
<1>1. Init => IInv
  BY InitHolds
<1>2. IInv /\ [Next]_vars => IInv'
  BY StepHolds
<1> QED BY <1>1, <1>2, PTL DEF Spec

(* The rows, the sessions and the runs keep to their types.                *)
THEOREM TypeCorrect == Spec => []TypeOK
<1>1. IInv => TypeOK
  BY DEF IInv
<1> QED BY <1>1, Invariance, PTL

(* handle_refund_updated, reconcile_refunds and the cascade record nothing *)
(* as refunded, failed or cancelled that is not so at the provider, in     *)
(* whatever order they read and commit.                                    *)
THEOREM RecordsAreTrue == Spec => []RefundTruth
<1>1. IInv => RefundTruth
  BY DEF IInv, RowsTrue, Repaid, RefundTruth
<1> QED BY <1>1, Invariance, PTL

(* mark_refunded_if_fully_refunded is never lost for a refund that covers  *)
(* its payment alone: not to another session's commit, nor to a run's.     *)
THEOREM WholeRefundsCascade == Spec => []WholeRefundCascades
<1>1. IInv => WholeRefundCascades
  <2> SUFFICES ASSUME IInv, NEW x \in Refunds, refund[x] = "succeeded",
                      amount[x] >= Amount[payment_id[x]]
               PROVE  payment[payment_id[x]] = "refunded"
    BY DEF WholeRefundCascades
  <2>1. refund[x] # None
    BY Distinct DEF RefundStatus
  <2>2. payment_id[x] \in Payments
    BY <2>1 DEF IInv, Ordered
  <2> QED BY <2>2 DEF IInv, WholeCascades
<1> QED BY <1>1, Invariance, PTL

(* What a payment has had given back never shrinks, a refund that has      *)
(* ended stays as it ended, and no row disappears: the reason that a       *)
(* session may conclude from rows it no longer holds.                      *)
THEOREM NothingIsTakenBack == Spec => ForwardProperty
<1>1. IInv /\ [Next]_vars => [Forward]_vars
  BY StepForward
<1> QED BY <1>1, Invariance, PTL DEF Spec, ForwardProperty

-------------------------------------------------------------------------------
(* Payment and invoice together.                                           *)

Together ==
    /\ IInv
    /\ \A p \in Payments : invoice[p] \in {"paid", "refunded"}
    /\ \A h \in Hooks : hook[h] # Idle => hook[h].writes \in {{}, Columns}
    /\ \A r \in Reconcilers : refunding[r] = closing[r]
    /\ RefundedTogether

(* When payment and invoice have moved together so far, the cascade moves  *)
(* both or neither.                                                        *)
LEMMA WritesTogether ==
    ASSUME Together, NEW view, NEW p \in Payments
    PROVE  CascadeWrites(view, p) \in {{}, Columns}
<1>1. payment[p] = "refunded" <=> invoice[p] = "refunded"
  BY DEF Together, RefundedTogether
<1>2. payment[p] \in {"succeeded", "refunded"} /\ invoice[p] \in {"paid", "refunded"}
  BY DEF Together, IInv, Collected
<1>3. invoice[p] = "paid" => InvoiceMayBecome(invoice[p], "refunded")
  BY DEF InvoiceMayBecome, InvoiceTransitions, InvoiceStatus
<1>4. PaymentMayBecome(payment[p], "refunded")
  BY <1>2 DEF PaymentMayBecome, PaymentTransitions, PaymentStatus
<1>5. CASE Covered(view, p) /\ payment[p] = "succeeded"
  <2>1. \A c \in Columns : c \in CascadeWrites(view, p)
    BY <1>1, <1>2, <1>3, <1>4, <1>5 DEF CascadeWrites, Columns
  <2> QED BY <2>1, WritesType
<1>6. CASE ~ (Covered(view, p) /\ payment[p] = "succeeded")
  <2>1. CascadeWrites(view, p) = {}
    BY <1>1, <1>2, <1>6 DEF CascadeWrites, Columns
  <2> QED BY <2>1
<1> QED BY <1>5, <1>6

(* The steps of webhook handlers keep payment and invoice together.        *)
LEMMA HookTogether ==
    ASSUME Together, NEW h \in Hooks,
           \/ \E e \in Events : HookLoadsRefund(h, e)
           \/ HookCascades(h) \/ HookCommits(h) \/ HookRollsBack(h)
    PROVE  /\ \A g \in Hooks : hook'[g] # Idle => hook'[g].writes \in {{}, Columns}
           /\ RefundedTogether'
           /\ \A p \in Payments : invoice'[p] \in {"paid", "refunded"}
<1>1. ASSUME NEW s, hook' = [hook EXCEPT ![h] = s], s # Idle => s.writes \in {{}, Columns}
      PROVE  \A g \in Hooks : hook'[g] # Idle => hook'[g].writes \in {{}, Columns}
  BY <1>1 DEF Together, IInv, TypeOK
<1>2. CASE \E e \in Events : HookLoadsRefund(h, e)
  <2>1. \E s : hook' = [hook EXCEPT ![h] = s] /\ s.writes = {}
    <3>1. PICK e \in Events : HookLoadsRefund(h, e)
      BY <1>2
    <3>2. PICK s \in Sessions : hook' = [hook EXCEPT ![h] = s] /\ s = hook'[h]
      BY <3>1, HookLoadsTrue DEF Together, IInv, TypeOK
    <3>3. s.writes = {}
      BY <3>1, <3>2 DEF HookLoadsRefund, Together, IInv, TypeOK
    <3> QED BY <3>2, <3>3
  <2>2. UNCHANGED <<payment, invoice>>
    BY <1>2 DEF HookLoadsRefund, rowVars
  <2> QED BY <1>1, <2>1, <2>2 DEF Together, RefundedTogether
<1>3. CASE HookCascades(h)
  <2>1. hook[h] \in Sessions /\ HookTrue(hook[h])
    BY <1>3, SessionFacts DEF HookCascades, Together, IInv
  <2>2. PICK x \in Refunds : x = hook[h].event.refund
    BY <2>1 DEF Sessions, Events
  <2>3. PICK p \in Payments : p = payment_id[x]
    BY <2>1, <2>2 DEF HookTrue, Together, IInv, Ordered
  <2>4. PICK view : hook' = [hook EXCEPT ![h] =
                        IF CascadeRaises(view, p) THEN Idle
                        ELSE [@ EXCEPT !.step = "commit", !.writes = CascadeWrites(view, p)]]
    BY <1>3, <2>2, <2>3 DEF HookCascades
  <2>5. PICK w \in {{}, Columns} : w = CascadeWrites(view, p)
    BY WritesTogether
  <2>6. PICK s : s = [hook[h] EXCEPT !.step = "commit", !.writes = w]
    OBVIOUS
  <2>7. s.writes = w
    BY <2>1, <2>6 DEF Sessions
  <2>8. hook' = [hook EXCEPT ![h] = Idle] \/ hook' = [hook EXCEPT ![h] = s]
    BY <2>4, <2>5, <2>6
  <2>9. UNCHANGED <<payment, invoice>>
    BY <1>3 DEF HookCascades, rowVars
  <2> QED BY <1>1, <2>7, <2>8, <2>9 DEF Together, RefundedTogether
<1>4. CASE HookCommits(h)
  <2>1. PICK w \in {{}, Columns} : w = hook[h].writes
    BY <1>4, SessionFacts DEF HookCommits, Together, IInv
  <2>2. PICK p : /\ payment' = [payment EXCEPT ![p] = IF "payment" \in w THEN "refunded" ELSE @]
                 /\ invoice' = [invoice EXCEPT ![p] = IF "invoice" \in w THEN "refunded" ELSE @]
    BY <1>4, <2>1 DEF HookCommits
  <2>3. hook' = [hook EXCEPT ![h] = Idle]
    BY <1>4 DEF HookCommits
  <2>4. "payment" \in w <=> "invoice" \in w
    BY <2>1 DEF Columns
  <2>5. RefundedTogether' /\ \A q \in Payments : invoice'[q] \in {"paid", "refunded"}
    BY <2>2, <2>4 DEF Together, RefundedTogether, IInv, TypeOK
  <2> QED BY <1>1, <2>3, <2>5
<1>5. CASE HookRollsBack(h)
  <2>1. hook' = [hook EXCEPT ![h] = Idle] /\ UNCHANGED <<payment, invoice>>
    BY <1>5 DEF HookRollsBack, rowVars
  <2> QED BY <1>1, <2>1 DEF Together, RefundedTogether
<1> QED BY <1>2, <1>3, <1>4, <1>5

(* So do the steps of reconciliation.                                      *)
LEMMA RunTogether ==
    ASSUME Together, ReconcileNext
    PROVE  /\ \A r \in Reconcilers : refunding'[r] = closing'[r]
           /\ RefundedTogether'
           /\ \A p \in Payments : invoice'[p] \in {"paid", "refunded"}
<1>1. ASSUME NEW r \in Reconcilers, ReconcileCommits(r)
      PROVE  /\ RefundedTogether'
             /\ \A p \in Payments : invoice'[p] \in {"paid", "refunded"}
  BY <1>1 DEF ReconcileCommits, Together, RefundedTogether
<1>2. ASSUME NEW r \in Reconcilers, ReconcileCommits(r) \/ ReconcileDies(r)
      PROVE  \A q \in Reconcilers : refunding'[q] = closing'[q]
  <2>1. ResetRun(r)
    BY <1>2 DEF ReconcileCommits, ReconcileDies
  <2>2. /\ refunding' = [refunding EXCEPT ![r] = {}]
        /\ closing' = [closing EXCEPT ![r] = {}]
    BY <2>1 DEF ResetRun
  <2> QED BY <2>2 DEF Together, IInv, TypeOK
<1>3. ASSUME NEW r \in Reconcilers, NEW x \in Refunds, ReconcileQueries(r, x)
      PROVE  \A q \in Reconcilers : refunding'[q] = closing'[q]
  <2>1. refund[x] # None
    BY <1>3 DEF ReconcileQueries, Together, IInv, RunsTrue, RunTrue
  <2>2. PICK p \in Payments : p = payment_id[x]
    BY <2>1 DEF Together, IInv, Ordered
  <2>3. PICK w \in {{}, Columns} :
            /\ refunding' = [refunding EXCEPT ![r] = IF "payment" \in w THEN @ \cup {p} ELSE @]
            /\ closing' = [closing EXCEPT ![r] = IF "invoice" \in w THEN @ \cup {p} ELSE @]
    BY <1>3, <2>2, WritesTogether DEF ReconcileQueries
  <2>4. "payment" \in w <=> "invoice" \in w
    BY DEF Columns
  <2> QED BY <2>3, <2>4 DEF Together, IInv, TypeOK
<1>4. ASSUME NEW r \in Reconcilers,
             ReconcileLoads(r) \/ \E x \in Refunds : ReconcileQueryFails(r, x)
      PROVE  UNCHANGED <<refunding, closing>>
  BY <1>4 DEF ReconcileLoads, ReconcileQueryFails
<1>5. ASSUME NEW r \in Reconcilers,
             \/ ReconcileLoads(r) \/ ReconcileDies(r)
             \/ \E x \in Refunds : ReconcileQueries(r, x) \/ ReconcileQueryFails(r, x)
      PROVE  UNCHANGED <<payment, invoice>>
  BY <1>5 DEF ReconcileLoads, ReconcileDies, ReconcileQueries, ReconcileQueryFails, rowVars
<1>6. UNCHANGED <<refunding, closing>> => \A r \in Reconcilers : refunding'[r] = closing'[r]
  BY DEF Together
<1>7. UNCHANGED <<payment, invoice>> =>
          /\ RefundedTogether'
          /\ \A p \in Payments : invoice'[p] \in {"paid", "refunded"}
  BY DEF Together, RefundedTogether
<1> QED BY <1>1, <1>2, <1>3, <1>4, <1>5, <1>6, <1>7 DEF ReconcileNext

(* So does every step.                                                     *)
LEMMA StepTogether == Together /\ [Next]_vars => Together'
<1> SUFFICES ASSUME Together, [Next]_vars PROVE Together'
  OBVIOUS
<1>1. IInv'
  BY StepHolds DEF Together
<1>2. CASE HookNext
  <2>1. UNCHANGED <<refunding, closing>>
    BY <1>2 DEF HookNext, HookLoadsRefund, HookCascades, HookCommits, HookRollsBack, reconVars
  <2> QED BY <1>1, <1>2, <2>1, HookTogether DEF HookNext, Together
<1>3. CASE ReconcileNext
  <2>1. UNCHANGED hook
    BY <1>3 DEF ReconcileNext, ReconcileLoads, ReconcileQueries, ReconcileQueryFails,
                ReconcileCommits, ReconcileDies, hookVars
  <2> QED BY <1>1, <1>3, <2>1, RunTogether DEF Together
<1>4. CASE UNCHANGED <<payment, invoice, hook, refunding, closing>>
  BY <1>1, <1>4 DEF Together, RefundedTogether
<1>5. RequestNext => UNCHANGED <<payment, invoice, hook, refunding, closing>>
  BY DEF RequestNext, CreateRefund, ProviderRefunds, AbandonRefund, CommitRefund,
         rowVars, hookVars, reconVars
<1>6. ASSUME NEW x \in Refunds, NEW s \in StripeStatus, StripeMoves(x, s)
      PROVE  UNCHANGED <<payment, invoice, hook, refunding, closing>>
  BY <1>6 DEF StripeMoves, rowVars, hookVars, reconVars
<1>7. UNCHANGED vars => UNCHANGED <<payment, invoice, hook, refunding, closing>>
  BY DEF vars, rowVars, hookVars, reconVars
<1> QED BY <1>2, <1>3, <1>4, <1>5, <1>6, <1>7 DEF Next

(* When every collected payment was recorded by a webhook, which pays its  *)
(* invoice, the cascade moves payment and invoice in one commit, and no    *)
(* session or run ever leaves one without the other.                       *)
THEOREM MovedTogether ==
    ASSUME PaidStatuses \subseteq {"paid"}
    PROVE  Spec => []RefundedTogether
<1>1. Init => Together
  BY InitHolds DEF Init, Together, RefundedTogether
<1>2. Together /\ [Next]_vars => Together'
  BY StepTogether
<1>3. Together => RefundedTogether
  BY DEF Together
<1> QED BY <1>1, <1>2, <1>3, PTL DEF Spec

-------------------------------------------------------------------------------
(* The ledger.                                                             *)

(* A session or a run writes an invoice only with its payment, unless the  *)
(* payment is refunded already.                                            *)
HookFollows(s) ==
    \A p \in Payments :
        p = payment_id[s.event.refund] /\ "invoice" \in s.writes =>
            "payment" \in s.writes \/ payment[p] = "refunded"

RunFollows(f, c) == \A p \in c : p \in f \/ payment[p] = "refunded"

InvoicesFollow == \A p \in Payments : invoice[p] = "refunded" => payment[p] = "refunded"

LedgerInv ==
    /\ IInv
    /\ \A x \in Refunds : request[x] = "unused" => payment_id[x] = None
    /\ \A x \in Refunds : refund[x] # "created"
    /\ InvoicesFollow
    /\ \A h \in Hooks : hook[h] # Idle => HookFollows(hook[h])
    /\ \A r \in Reconcilers : RunFollows(refunding[r], closing[r])

(* The cascade writes an invoice only with its payment.                    *)
LEMMA CascadeFollows ==
    \A view, p : "invoice" \in CascadeWrites(view, p) =>
        "payment" \in CascadeWrites(view, p) \/ payment[p] = "refunded"
BY DEF CascadeWrites, Columns

(* What a session has concluded about an invoice stays so.                 *)
LEMMA HookFollowsStays ==
    ASSUME IInv, Forward, NEW s \in Sessions, HookTrue(s), HookFollows(s)
    PROVE  HookFollows(s)'
<1>1. PICK x \in Refunds : x = s.event.refund
  BY DEF Sessions, Events
<1>2. payment_id'[x] = payment_id[x]
  BY <1>1 DEF HookTrue, Forward, ClaimsStay, IInv, Ordered
<1> QED BY <1>1, <1>2 DEF HookFollows, Forward, RowsStay

(* So does what a run has.                                                 *)
LEMMA RunFollowsStays ==
    ASSUME Forward, NEW f, NEW c \in SUBSET Payments, RunFollows(f, c)
    PROVE  RunFollows(f, c)'
BY DEF RunFollows, Forward, RowsStay

(* The steps of a webhook handler leave it idle or with a session that     *)
(* writes an invoice only with its payment.                                *)
LEMMA HookConcludesFollow ==
    ASSUME LedgerInv, NEW h \in Hooks,
           \/ \E e \in Events : HookLoadsRefund(h, e)
           \/ HookCascades(h) \/ HookCommits(h) \/ HookRollsBack(h)
    PROVE  \E s \in Sessions \cup {Idle} :
              hook' = [hook EXCEPT ![h] = s] /\ (s # Idle => HookTrue(s) /\ HookFollows(s))
<1>1. ASSUME NEW e \in Events, HookLoadsRefund(h, e)
      PROVE  \E s \in Sessions : hook' = [hook EXCEPT ![h] = s] /\ HookTrue(s) /\ HookFollows(s)
  <2>1. PICK s \in Sessions : hook' = [hook EXCEPT ![h] = s] /\ HookTrue(s) /\ s = hook'[h]
    BY <1>1, HookLoadsTrue DEF LedgerInv, IInv, TypeOK
  <2>2. s.writes = {}
    BY <1>1, <2>1 DEF HookLoadsRefund, LedgerInv, IInv, TypeOK
  <2> QED BY <2>1, <2>2 DEF HookFollows
<1>2. ASSUME HookCascades(h), hook' # [hook EXCEPT ![h] = Idle]
      PROVE  \E s \in Sessions : hook' = [hook EXCEPT ![h] = s] /\ HookTrue(s) /\ HookFollows(s)
  <2>1. PICK s \in Sessions : hook' = [hook EXCEPT ![h] = s] /\ HookTrue(s) /\ s = hook'[h]
    BY <1>2, HookCascadesTrue DEF LedgerInv, IInv, TypeOK
  <2>2. PICK o \in Sessions : o = hook[h] /\ o.event.refund \in Refunds
    BY <1>2, SessionFacts DEF HookCascades, LedgerInv, IInv, Sessions, Events
  <2>3. PICK x \in Refunds : x = o.event.refund
    BY <2>2
  <2>4. PICK view : view = [refund EXCEPT ![x] = "succeeded"]
    OBVIOUS
  <2>5. PICK w : w = CascadeWrites(view, payment_id[x])
    OBVIOUS
  <2>6. hook' = [hook EXCEPT ![h] = [o EXCEPT !.step = "commit", !.writes = w]]
    BY <1>2, <2>2, <2>3, <2>4, <2>5 DEF HookCascades
  <2>7. s.event = o.event /\ s.writes = w
    <3>1. s = [o EXCEPT !.step = "commit", !.writes = w]
      BY <2>1, <2>6 DEF LedgerInv, IInv, TypeOK
    <3> QED BY <2>2, <3>1 DEF Sessions
  <2>8. "invoice" \in w => "payment" \in w \/ payment[payment_id[x]] = "refunded"
    BY <2>5, CascadeFollows
  <2> QED BY <2>1, <2>3, <2>7, <2>8 DEF HookFollows
<1>3. HookCommits(h) \/ HookRollsBack(h) => hook' = [hook EXCEPT ![h] = Idle]
  BY DEF HookCommits, HookRollsBack
<1> QED BY <1>1, <1>2, <1>3

(* Every step keeps the sessions so.                                       *)
LEMMA StepHooksFollow ==
    ASSUME LedgerInv, [Next]_vars
    PROVE  \A h \in Hooks : hook'[h] # Idle => HookFollows(hook[h])'
<1>1. IInv /\ Forward /\ TypeOK /\ TypeOK'
  BY StepForward, StepType DEF LedgerInv, IInv
<1> SUFFICES ASSUME NEW h \in Hooks, hook'[h] # Idle
             PROVE  HookFollows(hook[h])'
  OBVIOUS
<1>2. PICK s \in Sessions : s = hook'[h]
  BY <1>1 DEF TypeOK
<1>3. HookTrue(s) /\ HookFollows(s)
  <2>1. CASE hook' = hook
    BY <1>2, <2>1 DEF LedgerInv, IInv, HooksTrue
  <2>2. ASSUME NEW g \in Hooks,
               \/ \E e \in Events : HookLoadsRefund(g, e)
               \/ HookCascades(g) \/ HookCommits(g) \/ HookRollsBack(g)
        PROVE  HookTrue(s) /\ HookFollows(s)
    <3>1. PICK o \in Sessions \cup {Idle} :
             hook' = [hook EXCEPT ![g] = o] /\ (o # Idle => HookTrue(o) /\ HookFollows(o))
      BY <2>2, HookConcludesFollow
    <3>2. CASE h = g
      BY <1>1, <1>2, <3>1, <3>2 DEF TypeOK
    <3>3. CASE h # g
      BY <1>1, <1>2, <3>1, <3>3 DEF TypeOK, LedgerInv, IInv, HooksTrue
    <3> QED BY <3>2, <3>3
  <2>3. RequestNext => hook' = hook
    BY DEF RequestNext, CreateRefund, ProviderRefunds, AbandonRefund, CommitRefund, hookVars
  <2>4. ASSUME NEW x \in Refunds, NEW t \in StripeStatus, StripeMoves(x, t) PROVE hook' = hook
    BY <2>4 DEF StripeMoves, hookVars
  <2>5. ReconcileNext => hook' = hook
    BY DEF ReconcileNext, ReconcileLoads, ReconcileQueries, ReconcileQueryFails,
           ReconcileCommits, ReconcileDies, hookVars
  <2>6. UNCHANGED vars => hook' = hook
    BY DEF vars, hookVars
  <2> QED BY <2>1, <2>2, <2>3, <2>4, <2>5, <2>6 DEF Next, HookNext
<1>4. HookFollows(s)'
  BY <1>1, <1>3, HookFollowsStays
<1> QED BY <1>2, <1>4 DEF HookFollows

(* And the runs.                                                           *)
LEMMA StepRunsFollow ==
    ASSUME LedgerInv, [Next]_vars
    PROVE  \A r \in Reconcilers : RunFollows(refunding[r], closing[r])'
<1>1. IInv /\ Forward /\ TypeOK /\ TypeOK'
  BY StepForward, StepType DEF LedgerInv, IInv
<1>2. \A r \in Reconcilers : RunFollows(refunding'[r], closing'[r])
  <2>1. CASE UNCHANGED <<refunding, closing>>
    BY <2>1 DEF LedgerInv
  <2>2. ASSUME NEW r \in Reconcilers, ResetRun(r)
        PROVE  \A q \in Reconcilers : RunFollows(refunding'[q], closing'[q])
    <3>1. /\ refunding' = [refunding EXCEPT ![r] = {}]
          /\ closing' = [closing EXCEPT ![r] = {}]
      BY <2>2 DEF ResetRun
    <3> QED BY <1>1, <3>1 DEF LedgerInv, RunFollows, TypeOK
  <2>3. ASSUME NEW r \in Reconcilers, NEW x \in Refunds, ReconcileQueries(r, x)
        PROVE  \A q \in Reconcilers : RunFollows(refunding'[q], closing'[q])
    <3>1. PICK view, w :
            /\ w = CascadeWrites(view, payment_id[x]) \/ w = {}
            /\ refunding' = [refunding EXCEPT ![r] =
                                IF "payment" \in w THEN @ \cup {payment_id[x]} ELSE @]
            /\ closing' = [closing EXCEPT ![r] =
                                IF "invoice" \in w THEN @ \cup {payment_id[x]} ELSE @]
      BY <2>3 DEF ReconcileQueries
    <3>2. "invoice" \in w => "payment" \in w \/ payment[payment_id[x]] = "refunded"
      BY <3>1, CascadeFollows
    <3> QED BY <1>1, <3>1, <3>2 DEF LedgerInv, RunFollows, TypeOK
  <2>4. RequestNext \/ HookNext => UNCHANGED <<refunding, closing>>
    <3>1. RequestNext => UNCHANGED reconVars
      BY DEF RequestNext, CreateRefund, ProviderRefunds, AbandonRefund, CommitRefund
    <3>2. HookNext => UNCHANGED reconVars
      BY DEF HookNext, HookLoadsRefund, HookCascades, HookCommits, HookRollsBack
    <3> QED BY <3>1, <3>2 DEF reconVars
  <2>5. ASSUME NEW x \in Refunds, NEW s \in StripeStatus, StripeMoves(x, s)
        PROVE  UNCHANGED <<refunding, closing>>
    BY <2>5 DEF StripeMoves, reconVars
  <2>6. ASSUME NEW r \in Reconcilers,
               ReconcileLoads(r) \/ \E x \in Refunds : ReconcileQueryFails(r, x)
        PROVE  UNCHANGED <<refunding, closing>>
    BY <2>6 DEF ReconcileLoads, ReconcileQueryFails
  <2>7. UNCHANGED vars => UNCHANGED <<refunding, closing>>
    BY DEF vars, reconVars
  <2>8. ReconcileNext => \/ UNCHANGED <<refunding, closing>>
                         \/ \E r \in Reconcilers :
                               ResetRun(r) \/ \E x \in Refunds : ReconcileQueries(r, x)
    BY <2>6 DEF ReconcileNext, ReconcileCommits, ReconcileDies
  <2> QED BY <2>1, <2>2, <2>3, <2>4, <2>5, <2>7, <2>8 DEF Next
<1> SUFFICES ASSUME NEW r \in Reconcilers
             PROVE  RunFollows(refunding[r], closing[r])'
  OBVIOUS
<1>3. PICK f \in SUBSET Payments : f = refunding'[r]
  BY <1>1 DEF TypeOK
<1>4. PICK c \in SUBSET Payments : c = closing'[r]
  BY <1>1 DEF TypeOK
<1>5. RunFollows(f, c)'
  BY <1>1, <1>2, <1>3, <1>4, RunFollowsStays
<1> QED BY <1>3, <1>4, <1>5 DEF RunFollows

(* Every step keeps an invoice behind its payment, and a request that has  *)
(* not begun without one.                                                  *)
LEMMA StepLedgerRows ==
    ASSUME LedgerInv, [Next]_vars
    PROVE  /\ \A x \in Refunds : request'[x] = "unused" => payment_id'[x] = None
           /\ \A x \in Refunds : refund'[x] # "created"
           /\ InvoicesFollow'
<1>1. IInv /\ Forward /\ RefundsMove /\ CollectionsMove /\ TypeOK
  BY StepForward, StepMoves DEF LedgerInv, IInv
<1>2. \A x \in Refunds : request'[x] = "unused" => payment_id'[x] = None
  <2>1. ASSUME NEW x \in Refunds, NEW p \in Payments, NEW a \in 0 .. Amount[p],
               CreateRefund(x, p, a)
        PROVE  \A y \in Refunds : request'[y] = "unused" => payment_id'[y] = None
    BY <1>1, <2>1 DEF CreateRefund, LedgerInv, TypeOK
  <2>2. ASSUME NEW x \in Refunds, ProviderRefunds(x) \/ AbandonRefund(x) \/ CommitRefund(x)
        PROVE  \A y \in Refunds : request'[y] = "unused" => payment_id'[y] = None
    BY <1>1, <2>2 DEF ProviderRefunds, AbandonRefund, CommitRefund, LedgerInv, TypeOK
  <2>3. CASE UNCHANGED requestVars
    BY <2>3 DEF LedgerInv, requestVars
  <2>4. ASSUME NEW x \in Refunds, NEW s \in StripeStatus, StripeMoves(x, s)
        PROVE  UNCHANGED requestVars
    BY <2>4 DEF StripeMoves
  <2>5. HookNext \/ ReconcileNext => UNCHANGED requestVars
    BY DEF HookNext, HookLoadsRefund, HookCascades, HookCommits, HookRollsBack,
           ReconcileNext, ReconcileLoads, ReconcileQueries, ReconcileQueryFails,
           ReconcileCommits, ReconcileDies
  <2>6. UNCHANGED vars => UNCHANGED requestVars
    BY DEF vars
  <2> QED BY <2>1, <2>2, <2>3, <2>4, <2>5, <2>6 DEF Next, RequestNext
<1>3. \A x \in Refunds : refund'[x] # "created"
  BY <1>1 DEF RefundsMove, LedgerInv, ProviderRefundStatus
<1>4. InvoicesFollow'
  <2>1. ASSUME NEW h \in Hooks, HookCommits(h)
        PROVE  InvoicesFollow'
    <3>1. PICK s \in Sessions : s = hook[h] /\ HookTrue(s) /\ HookFollows(s)
      BY <1>1, <2>1, SessionFacts DEF HookCommits, LedgerInv, IInv
    <3>2. PICK x \in Refunds : x = s.event.refund
      BY DEF Sessions, Events
    <3>3. /\ payment' = [payment EXCEPT ![payment_id[x]] =
                            IF "payment" \in s.writes THEN "refunded" ELSE @]
          /\ invoice' = [invoice EXCEPT ![payment_id[x]] =
                            IF "invoice" \in s.writes THEN "refunded" ELSE @]
      BY <2>1, <3>1, <3>2 DEF HookCommits
    <3> QED BY <1>1, <3>1, <3>2, <3>3 DEF HookFollows, InvoicesFollow, LedgerInv, TypeOK
  <2>2. ASSUME NEW r \in Reconcilers, ReconcileCommits(r)
        PROVE  InvoicesFollow'
    BY <2>2 DEF ReconcileCommits, RunFollows, InvoicesFollow, LedgerInv
  <2>3. CASE UNCHANGED <<payment, invoice>>
    BY <2>3 DEF InvoicesFollow, LedgerInv
  <2>4. RequestNext => UNCHANGED <<payment, invoice>>
    BY DEF RequestNext, CreateRefund, ProviderRefunds, AbandonRefund, CommitRefund, rowVars
  <2>5. ASSUME NEW x \in Refunds, NEW s \in StripeStatus, StripeMoves(x, s)
        PROVE  UNCHANGED <<payment, invoice>>
    BY <2>5 DEF StripeMoves, rowVars
  <2>6. ASSUME NEW h \in Hooks,
               (\E e \in Events : HookLoadsRefund(h, e)) \/ HookCascades(h) \/ HookRollsBack(h)
        PROVE  UNCHANGED <<payment, invoice>>
    BY <2>6 DEF HookLoadsRefund, HookCascades, HookRollsBack, rowVars
  <2>7. ASSUME NEW r \in Reconcilers,
               \/ ReconcileLoads(r) \/ ReconcileDies(r)
               \/ \E x \in Refunds : ReconcileQueries(r, x) \/ ReconcileQueryFails(r, x)
        PROVE  UNCHANGED <<payment, invoice>>
    BY <2>7 DEF ReconcileLoads, ReconcileQueries, ReconcileQueryFails, ReconcileDies, rowVars
  <2>8. UNCHANGED vars => UNCHANGED <<payment, invoice>>
    BY DEF vars, rowVars
  <2> QED BY <2>1, <2>2, <2>3, <2>4, <2>5, <2>6, <2>7, <2>8
          DEF Next, HookNext, ReconcileNext
<1> QED BY <1>2, <1>3, <1>4

(* The invariant of the refinement is inductive.                           *)
LEMMA StepLedger == LedgerInv /\ [Next]_vars => LedgerInv'
<1> SUFFICES ASSUME LedgerInv, [Next]_vars PROVE LedgerInv'
  OBVIOUS
<1>1. IInv'
  BY StepHolds DEF LedgerInv
<1> QED BY <1>1, StepLedgerRows, StepHooksFollow, StepRunsFollow DEF LedgerInv

(* How the provider's refunds ended: the ledger's `outcome'.               *)
Outcome == [x \in Refunds |-> IF stripe[x] \in Ended
                              THEN ProviderRefundStatus(stripe[x]) ELSE None]

(* What was given back of a payment is the same when the same refunds are  *)
(* completed at the provider, at the same amounts.                         *)
LEMMA ReturnedStays ==
    ASSUME NEW p \in Payments,
           \A x \in Refunds :
              /\ stripe[x] = "succeeded" <=> stripe'[x] = "succeeded"
              /\ stripe[x] = "succeeded" =>
                    payment_id'[x] = payment_id[x] /\ amount'[x] = amount[x]
    PROVE  Returned(p)' = Returned(p)
<1>1. PICK a, i, u : a = amount /\ i = payment_id /\ u = stripe
  OBVIOUS
<1>2. PICK b, j, v : b = amount' /\ j = payment_id' /\ v = stripe'
  OBVIOUS
<1>3. SumFunctionOnSet(a, Done(i, u, p)) = SumFunctionOnSet(b, Done(j, v, p))
  BY <1>1, <1>2, SameDone
<1>4. Returned(p) = SumFunctionOnSet(a, Done(i, u, p))
  BY <1>1, ReturnedIsSum
<1>5. Returned(p)' = SumFunctionOnSet(b, Done(j, v, p))
  BY <1>2 DEF Returned, Total, Done
<1> QED BY <1>3, <1>4, <1>5

(* A refund that completes adds its amount to what was given back of its   *)
(* payment, and to nothing else.                                           *)
LEMMA EndReturns ==
    ASSUME IInv, NEW x \in Refunds, StripeMoves(x, "succeeded"), NEW p \in Payments
    PROVE  Returned(p)' = IF p = payment_id[x] THEN Returned(p) + amount[x] ELSE Returned(p)
<1>1. stripe' = [stripe EXCEPT ![x] = "succeeded"] /\ stripe[x] # "succeeded"
  BY DEF StripeMoves, Ended
<1>2. payment_id' = payment_id /\ amount' = amount
  BY DEF StripeMoves, requestVars
<1>3. PICK T \in SUBSET Refunds : T = Done(payment_id, stripe', p)
  BY DEF Done
<1>4. Returned(p)' = SumFunctionOnSet(amount, T)
  BY <1>2, <1>3 DEF Returned, Total, Done
<1>5. CASE p = payment_id[x]
  <2>1. x \in T /\ T \ {x} = Done(payment_id, stripe, p)
    BY <1>1, <1>3, <1>5 DEF Done, IInv, TypeOK
  <2>2. IsFiniteSet(T) /\ \A y \in T : amount[y] \in Nat
    BY RefundsFinite, FS_Subset DEF IInv, TypeOK
  <2>3. PICK m \in Nat : m = amount[x]
    BY <2>1, <2>2
  <2>4. PICK n \in Nat : n = SumFunctionOnSet(amount, T \ {x})
    BY SumFacts DEF IInv, TypeOK
  <2>5. SumFunctionOnSet(amount, T) = m + n
    BY <2>1, <2>2, <2>3, <2>4, SumRemove
  <2>6. Returned(p) = n
    BY <2>1, <2>4, ReturnedIsSum
  <2> QED BY <1>4, <1>5, <2>3, <2>5, <2>6
<1>6. CASE p # payment_id[x]
  <2>1. T = Done(payment_id, stripe, p)
    BY <1>1, <1>3, <1>6 DEF Done, IInv, TypeOK
  <2> QED BY <1>4, <1>6, <2>1, ReturnedIsSum
<1> QED BY <1>5, <1>6

(* A step that is none of the provider's ends no refund and gives nothing  *)
(* back.                                                                   *)
LEMMA OthersGiveNothing ==
    ASSUME IInv, [Next]_vars,
           \A x \in Refunds, s \in StripeStatus : ~StripeMoves(x, s)
    PROVE  /\ Outcome' = Outcome
           /\ \A p \in Payments : Returned(p)' = Returned(p)
<1>1. Forward /\ TypeOK
  BY StepForward DEF IInv
<1>2. ASSUME NEW x \in Refunds
      PROVE  stripe'[x] \in Ended => stripe'[x] = stripe[x]
  <2>1. CASE UNCHANGED stripe
    BY <2>1
  <2>2. ASSUME NEW y \in Refunds, ProviderRefunds(y) \/ AbandonRefund(y)
        PROVE  stripe'[x] \in Ended => stripe'[x] = stripe[x]
    <3>1. "pending" \notin Ended /\ None \notin Ended
      BY Distinct DEF Ended, StripeStatus
    <3> QED BY <1>1, <2>2, <3>1 DEF ProviderRefunds, AbandonRefund, TypeOK
  <2>3. ASSUME NEW y \in Refunds,
               \/ \E p \in Payments : \E a \in 0 .. Amount[p] : CreateRefund(y, p, a)
               \/ CommitRefund(y)
        PROVE  UNCHANGED stripe
    BY <2>3 DEF CreateRefund, CommitRefund
  <2>4. HookNext \/ ReconcileNext => UNCHANGED stripe
    BY DEF HookNext, HookLoadsRefund, HookCascades, HookCommits, HookRollsBack,
           ReconcileNext, ReconcileLoads, ReconcileQueries, ReconcileQueryFails,
           ReconcileCommits, ReconcileDies
  <2>5. UNCHANGED vars => UNCHANGED stripe
    BY DEF vars
  <2> QED BY <2>1, <2>2, <2>3, <2>4, <2>5 DEF Next, RequestNext
<1>3. \A x \in Refunds : stripe[x] \in Ended => stripe'[x] = stripe[x]
  BY <1>1 DEF Forward, ProviderStays
<1>4. Outcome' = Outcome
  BY <1>2, <1>3 DEF Outcome
<1>5. ASSUME NEW x \in Refunds
      PROVE  /\ stripe[x] = "succeeded" <=> stripe'[x] = "succeeded"
             /\ stripe[x] = "succeeded" =>
                   payment_id'[x] = payment_id[x] /\ amount'[x] = amount[x]
  <2>1. stripe[x] = "succeeded" => request[x] # "unused"
    BY Distinct DEF IInv, Ordered, StripeStatus
  <2> QED BY <1>1, <1>2, <1>3, <2>1 DEF Forward, ClaimsStay, Ended
<1> QED BY <1>4, <1>5, ReturnedStays

(* The commits of webhooks and of runs settle refunds as they ended.       *)
LEMMA CommitsSettle ==
    ASSUME LedgerInv,
           \/ \E h \in Hooks : HookCommits(h)
           \/ \E r \in Reconcilers : ReconcileCommits(r)
    PROVE  /\ \A x \in Refunds : refund'[x] # refund[x] => refund'[x] # "pending"
           /\ UNCHANGED <<payment_id, amount>>
<1>1. ASSUME NEW h \in Hooks, HookCommits(h)
      PROVE  \A x \in Refunds : refund'[x] # refund[x] => refund'[x] # "pending"
  <2>1. hook[h].event.status \in {"succeeded", "failed"}
    BY <1>1, SessionFacts DEF HookCommits, HookTrue, LedgerInv, IInv
  <2> QED BY <1>1, <2>1 DEF HookCommits, LedgerInv, IInv, TypeOK
<1>2. ASSUME NEW r \in Reconcilers, ReconcileCommits(r)
      PROVE  \A x \in Refunds : refund'[x] # refund[x] => refund'[x] # "pending"
  BY <1>2 DEF ReconcileCommits, Moved
<1> QED BY <1>1, <1>2 DEF HookCommits, ReconcileCommits, requestVars

(* So they are settlements of the ledger.                                  *)
LEMMA CommitRefines ==
    ASSUME LedgerInv, [Next]_vars,
           \/ \E h \in Hooks : HookCommits(h)
           \/ \E r \in Reconcilers : ReconcileCommits(r)
    PROVE  Ledger!Next
<1>1. /\ IInv /\ TypeOK /\ TypeOK' /\ Forward /\ RefundsMove /\ CollectionsMove
      /\ LedgerInv'
  BY StepForward, StepMoves, StepType, StepLedger DEF LedgerInv, IInv
<1>2. /\ \A x \in Refunds : refund'[x] # refund[x] => refund'[x] # "pending"
      /\ UNCHANGED <<payment_id, amount>>
  BY CommitsSettle
<1>3. Outcome' = Outcome /\ \A p \in Payments : Returned(p)' = Returned(p)
  <2>1. \A x \in Refunds, s \in StripeStatus : ~StripeMoves(x, s)
    <3>1. stripe' = stripe
      BY DEF HookCommits, ReconcileCommits
    <3> QED BY <1>1, <3>1 DEF StripeMoves, TypeOK
  <2> QED BY <1>1, <2>1, OthersGiveNothing
<1>4. PICK S \in SUBSET Refunds : S = {x \in Refunds : refund'[x] # refund[x]}
  OBVIOUS
<1>5. PICK P \in SUBSET Payments : P = {p \in Payments : payment'[p] # payment[p]}
  OBVIOUS
<1>6. PICK I \in SUBSET Payments : I = {p \in Payments : invoice'[p] # invoice[p]}
  OBVIOUS
<1>7. PICK o : o = Outcome
  OBVIOUS
<1>8. ASSUME NEW x \in S
      PROVE  /\ refund[x] = "pending" /\ o[x] # None /\ refund'[x] = o[x]
             /\ o[x] = "succeeded" /\ amount[x] >= Amount[payment_id[x]] =>
                   payment'[payment_id[x]] = "refunded"
             /\ payment_id[x] \in Payments
  <2>1. /\ refund[x] # None /\ refund'[x] = ProviderRefundStatus(stripe[x])
        /\ \A p \in Payments :
             p = payment_id[x] /\ refund'[x] = "succeeded" /\ amount[x] >= Amount[p]
                => payment'[p] = "refunded"
    BY <1>1, <1>2, <1>4, <1>8 DEF RefundsMove
  <2>2. stripe[x] \in Ended
    BY <1>2, <1>4, <1>8, <2>1, ProviderRefundStatusType
  <2>3. o[x] = refund'[x] /\ o[x] # None
    BY <1>7, <2>1, <2>2, ProviderRefundStatusType, Distinct DEF Outcome
  <2>4. refund[x] = "pending"
    BY <1>1, <1>4, <1>8, <2>1 DEF IInv, RowsTrue, LedgerInv
  <2>5. payment_id[x] \in Payments
    BY <1>8, <2>1 DEF LedgerInv, IInv, Ordered
  <2> QED BY <2>1, <2>3, <2>4, <2>5
<1>9. refund' = [x \in Refunds |-> IF x \in S THEN o[x] ELSE refund[x]]
  BY <1>1, <1>4, <1>8 DEF TypeOK
<1>10. ASSUME NEW p \in P \cup I
       PROVE  Repaid(p)
  BY <1>1, <1>5, <1>6 DEF CollectionsMove
<1>11. {p \in Payments : payment'[p] = "refunded"} =
       {p \in Payments : payment[p] = "refunded"} \cup P
  BY <1>1, <1>5 DEF CollectionsMove, Forward, RowsStay
<1>12. {p \in Payments : invoice'[p] = "refunded"} =
       {p \in Payments : invoice[p] = "refunded"} \cup I
  BY <1>1, <1>6 DEF CollectionsMove
<1>13. I \subseteq {p \in Payments : payment'[p] = "refunded"}
  BY <1>1, <1>6 DEF CollectionsMove, LedgerInv, InvoicesFollow
<1>14. \A x \in S : o[x] = "succeeded" /\ amount[x] >= Amount[payment_id[x]] =>
          payment_id[x] \in {p \in Payments : payment'[p] = "refunded"}
  BY <1>8
<1>15. Ledger!Settle(S, P, I)
  <2> DEFINE returned == [p \in Payments |-> Returned(p)]
             refunded == {p \in Payments : payment[p] = "refunded"}
             closed   == {p \in Payments : invoice[p] = "refunded"}
  <2>1. \A x \in S : refund[x] = "pending" /\ Outcome[x] # None
    BY <1>7, <1>8
  <2>2. \A p \in P \cup I : returned[p] >= Amount[p]
    BY <1>10 DEF Repaid
  <2>3. \A x \in S : Outcome[x] = "succeeded" /\ amount[x] >= Amount[payment_id[x]] =>
           payment_id[x] \in refunded \cup P
    BY <1>7, <1>11, <1>14
  <2>4. I \subseteq refunded \cup P
    BY <1>11, <1>13
  <2>5. refund' = [x \in Refunds |-> IF x \in S THEN Outcome[x] ELSE refund[x]]
    BY <1>7, <1>9
  <2>6. refunded' = refunded \cup P /\ closed' = closed \cup I
    BY <1>11, <1>12
  <2>7. returned' = returned
    BY <1>3
  <2> QED BY <1>2, <1>3, <2>1, <2>2, <2>3, <2>4, <2>5, <2>6, <2>7 DEF Ledger!Settle, Outcome
<1> QED BY <1>15 DEF Ledger!Next

(* A request that passes validation claims its refund in the ledger.       *)
LEMMA CreateRefines ==
    ASSUME LedgerInv, [Next]_vars, NEW x \in Refunds, NEW p \in Payments,
           NEW a \in 0 .. Amount[p], CreateRefund(x, p, a)
    PROVE  Ledger!Next
<1>1. Outcome' = Outcome /\ \A q \in Payments : Returned(q)' = Returned(q)
  <2>1. \A y \in Refunds, s \in StripeStatus : ~StripeMoves(y, s)
    BY DEF StripeMoves, CreateRefund, Ended, LedgerInv, IInv, TypeOK
  <2> QED BY <2>1, OthersGiveNothing DEF LedgerInv
<1>2. Spent(p) \in Nat /\ Amount[p] \in Nat
  <2>1. Having(refund, p, Counted) \in SUBSET Refunds /\ amount \in [Refunds -> Nat]
    BY DEF Having, LedgerInv, IInv, TypeOK
  <2>2. Spent(p) = SumFunctionOnSet(amount, Having(refund, p, Counted))
    BY DEF Spent, Total
  <2> QED BY <2>1, <2>2, SumFacts, AmountIsPositive
<1>3. PICK b \in 1 .. Amount[p] : amount' = [amount EXCEPT ![x] = b]
  <2>1. PICK b : /\ amount' = [amount EXCEPT ![x] = b]
                 /\ b = (IF a = 0 THEN Amount[p] - Spent(p) ELSE a)
                 /\ b > 0 /\ b <= Amount[p] - Spent(p)
    BY DEF CreateRefund
  <2>2. b \in 1 .. Amount[p]
    BY <1>2, <2>1
  <2> QED BY <2>1, <2>2
<1>4. /\ payment_id[x] = None
      /\ p \notin {q \in Payments : payment[q] = "refunded"}
      /\ payment_id' = [payment_id EXCEPT ![x] = p]
      /\ UNCHANGED <<refund, payment, invoice>>
  BY DEF CreateRefund, LedgerInv, rowVars
<1>5. Ledger!Claim(x, p, b)
  BY <1>1, <1>3, <1>4 DEF Ledger!Claim, Outcome
<1> QED BY <1>3, <1>5 DEF Ledger!Next

(* The commit of a request enters its refund.                              *)
LEMMA EnterRefines ==
    ASSUME LedgerInv, [Next]_vars, NEW x \in Refunds, CommitRefund(x)
    PROVE  Ledger!Next
<1>1. Outcome' = Outcome /\ \A q \in Payments : Returned(q)' = Returned(q)
  <2>1. \A y \in Refunds, s \in StripeStatus : ~StripeMoves(y, s)
    BY DEF StripeMoves, CommitRefund, Ended, LedgerInv, IInv, TypeOK
  <2> QED BY <2>1, OthersGiveNothing DEF LedgerInv
<1>2. /\ payment_id[x] # None
      /\ refund[x] = None
      /\ refund' = [refund EXCEPT ![x] = "pending"]
      /\ UNCHANGED <<payment_id, amount, payment, invoice>>
  BY Distinct DEF CommitRefund, LedgerInv, IInv, Ordered
<1>3. Ledger!Enter(x)
  BY <1>1, <1>2 DEF Ledger!Enter, Outcome
<1> QED BY <1>3 DEF Ledger!Next

(* A refund that ends at the provider ends in the ledger; one that only    *)
(* asks for an action does not.                                            *)
LEMMA ProviderRefines ==
    ASSUME LedgerInv, [Next]_vars, NEW x \in Refunds, NEW s \in StripeStatus, StripeMoves(x, s)
    PROVE  Ledger!Next \/ UNCHANGED Ledger!vars
<1>1. /\ stripe' = [stripe EXCEPT ![x] = s]
      /\ stripe[x] \in StripeStatus \ Ended /\ s # "pending"
      /\ UNCHANGED <<payment_id, amount, refund, payment, invoice>>
  BY DEF StripeMoves, rowVars, requestVars
<1>2. payment_id[x] # None
  BY <1>1, Distinct DEF LedgerInv, IInv, Ordered
<1>3. IInv /\ stripe \in [Refunds -> StripeStatus \cup {None}]
  BY DEF LedgerInv, IInv, TypeOK
<1>4. \A p \in Payments :
        Returned(p)' = IF s = "succeeded" /\ p = payment_id[x]
                       THEN Returned(p) + amount[x] ELSE Returned(p)
  <2>1. CASE s = "succeeded"
    BY <1>3, <2>1, EndReturns
  <2>2. CASE s # "succeeded"
    <3>1. ASSUME NEW y \in Refunds
          PROVE  /\ stripe[y] = "succeeded" <=> stripe'[y] = "succeeded"
                 /\ payment_id'[y] = payment_id[y] /\ amount'[y] = amount[y]
      BY <1>1, <1>3, <2>2 DEF Ended
    <3> QED BY <2>2, <3>1, ReturnedStays
  <2> QED BY <2>1, <2>2
<1>5. CASE s \in Ended
  <2>1. PICK o \in {"succeeded", "failed", "cancelled"} :
           o = ProviderRefundStatus(s) /\ (o = "succeeded" <=> s = "succeeded")
    BY <1>5 DEF Ended, ProviderRefundStatus
  <2>2. Outcome[x] = None /\ Outcome' = [Outcome EXCEPT ![x] = o]
    BY <1>1, <1>3, <1>5, <2>1 DEF Outcome
  <2>3. [p \in Payments |-> Returned(p)]' =
        [p \in Payments |-> IF o = "succeeded" /\ p = payment_id[x]
                            THEN Returned(p) + amount[x] ELSE Returned(p)]
    BY <1>4, <2>1
  <2>4. Ledger!End(x, o)
    BY <1>1, <1>2, <2>2, <2>3 DEF Ledger!End, Outcome
  <2> QED BY <2>4 DEF Ledger!Next, Ledger!Outcomes
<1>6. CASE s \notin Ended
  <2>1. Outcome' = Outcome
    BY <1>1, <1>3, <1>6 DEF Outcome
  <2>2. \A p \in Payments : Returned(p)' = Returned(p)
    BY <1>4, <1>6 DEF Ended
  <2> QED BY <1>1, <2>1, <2>2 DEF Ledger!vars, Outcome
<1> QED BY <1>5, <1>6

(* Nothing else is a step of the ledger.                                   *)
LEMMA OthersAreHidden ==
    ASSUME LedgerInv, [Next]_vars,
           \A x \in Refunds, s \in StripeStatus : ~StripeMoves(x, s),
           UNCHANGED <<payment_id, amount, refund, payment, invoice>>
    PROVE  UNCHANGED Ledger!vars
<1>1. Outcome' = Outcome /\ \A q \in Payments : Returned(q)' = Returned(q)
  BY OthersGiveNothing DEF LedgerInv
<1> QED BY <1>1 DEF Ledger!vars, Outcome

(* Every step is a step of the ledger or hidden from it.                   *)
LEMMA StepRefines ==
    ASSUME LedgerInv, [Next]_vars
    PROVE  Ledger!Next \/ UNCHANGED Ledger!vars
<1> DEFINE Hidden == UNCHANGED <<payment_id, amount, refund, payment, invoice>>
<1>1. CASE \E x \in Refunds : \E p \in Payments : \E a \in 0 .. Amount[p] : CreateRefund(x, p, a)
  BY <1>1, CreateRefines
<1>2. CASE \E x \in Refunds : CommitRefund(x)
  BY <1>2, EnterRefines
<1>3. CASE \E x \in Refunds, s \in StripeStatus : StripeMoves(x, s)
  BY <1>3, ProviderRefines
<1>4. CASE \/ \E h \in Hooks : HookCommits(h)
           \/ \E r \in Reconcilers : ReconcileCommits(r)
  BY <1>4, CommitRefines
<1>5. ASSUME NEW x \in Refunds, ProviderRefunds(x) \/ AbandonRefund(x)
      PROVE  Hidden
  BY <1>5 DEF ProviderRefunds, AbandonRefund, rowVars
<1>6. ASSUME NEW h \in Hooks,
             (\E e \in Events : HookLoadsRefund(h, e)) \/ HookCascades(h) \/ HookRollsBack(h)
      PROVE  Hidden
  BY <1>6 DEF HookLoadsRefund, HookCascades, HookRollsBack, rowVars, requestVars
<1>7. ASSUME NEW r \in Reconcilers,
             \/ ReconcileLoads(r) \/ ReconcileDies(r)
             \/ \E x \in Refunds : ReconcileQueries(r, x) \/ ReconcileQueryFails(r, x)
      PROVE  Hidden
  BY <1>7 DEF ReconcileLoads, ReconcileQueries, ReconcileQueryFails, ReconcileDies, rowVars,
              requestVars
<1>8. UNCHANGED vars => Hidden
  BY DEF vars, rowVars, requestVars
<1>9. CASE /\ Hidden
           /\ \A x \in Refunds, s \in StripeStatus : ~StripeMoves(x, s)
  BY <1>9, OthersAreHidden
<1> QED BY <1>1, <1>2, <1>3, <1>4, <1>5, <1>6, <1>7, <1>8, <1>9
        DEF Next, RequestNext, HookNext, ReconcileNext

(* The initial state is the ledger's, with nothing entered.                *)
LEMMA InitRefines ==
    ASSUME Init
    PROVE  LedgerInv /\ Ledger!Init
<1>1. IInv
  BY InitHolds
<1>2. LedgerInv
  BY <1>1, PaidStatusesReachable, Distinct
     DEF Init, Nothing, LedgerInv, InvoicesFollow, RunFollows, RefundStatus
<1>3. Outcome = [x \in Refunds |-> None]
  BY Distinct DEF Init, Nothing, Outcome, Ended, StripeStatus
<1>4. [p \in Payments |-> Returned(p)] = [p \in Payments |-> 0]
  <2>1. ASSUME NEW p \in Payments
        PROVE  Returned(p) = 0
    <3>1. Done(payment_id, stripe, p) = {}
      BY Distinct DEF Init, Nothing, Done, StripeStatus
    <3> QED BY <3>1, ReturnedIsSum, SumEmpty
  <2> QED BY <2>1
<1>5. /\ {p \in Payments : payment[p] = "refunded"} = {}
      /\ {p \in Payments : invoice[p] = "refunded"} = {}
  BY PaidStatusesReachable DEF Init
<1>6. Ledger!Init
  BY <1>3, <1>4, <1>5 DEF Init, Nothing, Ledger!Init, Outcome
<1> QED BY <1>2, <1>6

(* create_refund, handle_refund_updated, reconcile_refunds and the cascade *)
(* implement the ledger: what overlapping sessions and runs commit, from   *)
(* rows that changed since they were read, is one settlement after         *)
(* another.                                                                *)
THEOREM LedgerRefinement == Spec => ImplementsLedger
<1>1. Init => LedgerInv /\ Ledger!Init
  BY InitRefines
<1>2. LedgerInv /\ [Next]_vars => LedgerInv'
  BY StepLedger
<1>3. LedgerInv /\ [Next]_vars => [Ledger!Next]_(Ledger!vars)
  BY StepRefines
<1> QED BY <1>1, <1>2, <1>3, PTL DEF Spec, ImplementsLedger, Ledger!Spec

-------------------------------------------------------------------------------
(* One API process and no reconciliation: refunds that cover a payment     *)
(* together.                                                               *)

(* One webhook at a time, and nothing else that completes refunds.         *)
Alone == Reconcilers = {} /\ \A g, h \in Hooks : g = h

(* The rows are what a session saw when it ran the cascade: a refund it    *)
(* completes takes the payment along when it covers it together with the   *)
(* others.                                                                 *)
HookTakes(s) ==
    s.step = "commit" /\ s.event.status = "succeeded" /\ s.refund # "succeeded" =>
       \A p \in Payments :
          /\ p = payment_id[s.event.refund]
          /\ Covered([refund EXCEPT ![s.event.refund] = "succeeded"], p)
          => "payment" \in s.writes \/ payment[p] = "refunded"

FullCascades == \A p \in Payments : Covered(refund, p) => payment[p] = "refunded"

AloneInv ==
    /\ IInv
    /\ \A h \in Hooks : hook[h] # Idle => HookTakes(hook[h])
    /\ FullCascades

(* The same about a view of the rows before and after a step.              *)
LEMMA CoveredStays ==
    ASSUME NEW u, NEW v, NEW p \in Payments,
           \A x \in Refunds :
              /\ u[x] = "succeeded" <=> v[x] = "succeeded"
              /\ u[x] = "succeeded" =>
                    payment_id'[x] = payment_id[x] /\ amount'[x] = amount[x]
    PROVE  Covered(v, p)' <=> Covered(u, p)
<1>1. PICK a : a = amount
  OBVIOUS
<1>2. PICK b : b = amount'
  OBVIOUS
<1>3. PICK i : i = payment_id
  OBVIOUS
<1>4. PICK j : j = payment_id'
  OBVIOUS
<1>5. \A x \in Refunds :
        /\ i[x] = p /\ u[x] = "succeeded" <=> j[x] = p /\ v[x] = "succeeded"
        /\ i[x] = p /\ u[x] = "succeeded" => a[x] = b[x]
  BY <1>1, <1>2, <1>3, <1>4
<1>6. SumFunctionOnSet(a, Done(i, u, p)) = SumFunctionOnSet(b, Done(j, v, p))
  BY <1>5, SameDone
<1>7. Covered(u, p) <=> SumFunctionOnSet(a, Done(i, u, p)) >= Amount[p]
  BY <1>1, <1>3, CoveredIsSum
<1>8. Covered(v, p)' <=> SumFunctionOnSet(b, Done(j, v, p)) >= Amount[p]
  BY <1>2, <1>4 DEF Covered, Having, Total, Done
<1> QED BY <1>6, <1>7, <1>8

(* A step that is no commit of a webhook or of a run completes no refund.  *)
LEMMA OnlyCommitsComplete ==
    ASSUME IInv, [Next]_vars,
           \A h \in Hooks : ~HookCommits(h),
           \A r \in Reconcilers : ~ReconcileCommits(r)
    PROVE  /\ payment' = payment
           /\ \A x \in Refunds : \/ refund'[x] = refund[x]
                                 \/ refund[x] = None /\ refund'[x] = "pending"
<1>1. ASSUME NEW x \in Refunds, CommitRefund(x)
      PROVE  /\ payment' = payment
             /\ \A y \in Refunds : \/ refund'[y] = refund[y]
                                   \/ refund[y] = None /\ refund'[y] = "pending"
  BY <1>1 DEF CommitRefund, IInv, TypeOK, Ordered
<1>2. ASSUME NEW x \in Refunds,
             \/ \E p \in Payments : \E a \in 0 .. Amount[p] : CreateRefund(x, p, a)
             \/ ProviderRefunds(x) \/ AbandonRefund(x)
      PROVE  UNCHANGED rowVars
  BY <1>2 DEF CreateRefund, ProviderRefunds, AbandonRefund
<1>3. ASSUME NEW x \in Refunds, NEW s \in StripeStatus, StripeMoves(x, s)
      PROVE  UNCHANGED rowVars
  BY <1>3 DEF StripeMoves
<1>4. HookNext => UNCHANGED rowVars
  BY DEF HookNext, HookLoadsRefund, HookCascades, HookRollsBack
<1>5. ReconcileNext => UNCHANGED rowVars
  BY DEF ReconcileNext, ReconcileLoads, ReconcileQueries, ReconcileQueryFails, ReconcileDies
<1>6. UNCHANGED vars => UNCHANGED rowVars
  BY DEF vars
<1> QED BY <1>1, <1>2, <1>3, <1>4, <1>5, <1>6 DEF Next, RequestNext, rowVars

(* Such a step leaves every covered payment refunded.                      *)
LEMMA CascadesStay ==
    ASSUME IInv, Forward, FullCascades, payment' = payment,
           \A x \in Refunds : \/ refund'[x] = refund[x]
                              \/ refund[x] = None /\ refund'[x] = "pending"
    PROVE  FullCascades'
<1>1. PICK u : u = refund
  OBVIOUS
<1>2. PICK v : v = refund'
  OBVIOUS
<1>3. ASSUME NEW x \in Refunds
      PROVE  /\ u[x] = "succeeded" <=> v[x] = "succeeded"
             /\ u[x] = "succeeded" =>
                   payment_id'[x] = payment_id[x] /\ amount'[x] = amount[x]
  BY <1>1, <1>2, Distinct DEF Forward, ClaimsStay, IInv, Ordered, RefundStatus
<1>4. ASSUME NEW p \in Payments, Covered(refund, p)'
      PROVE  payment'[p] = "refunded"
  <2>1. Covered(v, p)'
    BY <1>2, <1>4 DEF Covered, Having, Total
  <2>2. Covered(u, p)
    BY <1>3, <2>1, CoveredStays
  <2> QED BY <1>1, <2>2 DEF FullCascades
<1> QED BY <1>4 DEF FullCascades

(* At first no payment is covered.                                         *)
LEMMA InitCascades == Init => FullCascades
<1> SUFFICES ASSUME Init, NEW p \in Payments
             PROVE  ~Covered(refund, p)
  BY DEF FullCascades
<1>1. Done(payment_id, refund, p) = {}
  BY Distinct DEF Init, Nothing, Done, RefundStatus
<1>2. Amount[p] \in Nat \ {0}
  BY AmountIsPositive
<1> QED BY <1>1, <1>2, SumEmpty, CoveredIsSum

(* Such a step keeps what a session concluded from its view of the rows.   *)
LEMMA HookTakesStays ==
    ASSUME IInv, Forward, NEW s \in Sessions, HookTrue(s), HookTakes(s),
           TypeOK', payment' = payment,
           \A x \in Refunds : \/ refund'[x] = refund[x]
                              \/ refund[x] = None /\ refund'[x] = "pending"
    PROVE  HookTakes(s)'
<1>1. PICK x \in Refunds : x = s.event.refund
  BY DEF Sessions, Events
<1>2. refund[x] # None /\ payment_id'[x] = payment_id[x] /\ amount'[x] = amount[x]
  BY <1>1 DEF HookTrue, Forward, ClaimsStay, IInv, Ordered
<1>3. PICK u : u = [refund EXCEPT ![x] = "succeeded"]
  OBVIOUS
<1>4. PICK v : v = [refund' EXCEPT ![x] = "succeeded"]
  OBVIOUS
<1>5. ASSUME NEW p \in Payments
      PROVE  Covered(v, p)' <=> Covered(u, p)
  <2>1. DOMAIN refund = Refunds /\ DOMAIN refund' = Refunds
    BY DEF IInv, TypeOK
  <2>2. \A y \in Refunds : u[y] = "succeeded" <=> v[y] = "succeeded"
    BY <1>3, <1>4, <2>1, Distinct DEF RefundStatus
  <2>3. \A y \in Refunds : u[y] = "succeeded" =>
           payment_id'[y] = payment_id[y] /\ amount'[y] = amount[y]
    BY <1>2, <1>3, <2>1, Distinct DEF Forward, ClaimsStay, IInv, Ordered, RefundStatus
  <2> QED BY <2>2, <2>3, CoveredStays
<1> QED BY <1>1, <1>2, <1>3, <1>4, <1>5 DEF HookTakes

(* A session that has just read its refund has not concluded anything, and *)
(* the cascade concludes from the rows as they are.                        *)
LEMMA HookConcludes ==
    ASSUME IInv, NEW h \in Hooks,
           (\E e \in Events : HookLoadsRefund(h, e)) \/ HookCascades(h) \/ HookRollsBack(h)
    PROVE  \E s \in Sessions \cup {Idle} :
              hook' = [hook EXCEPT ![h] = s] /\ (s # Idle => HookTrue(s) /\ HookTakes(s))
<1>1. ASSUME NEW e \in Events, HookLoadsRefund(h, e)
      PROVE  \E s \in Sessions : hook' = [hook EXCEPT ![h] = s] /\ HookTrue(s) /\ HookTakes(s)
  <2>1. PICK s \in Sessions : hook' = [hook EXCEPT ![h] = s] /\ HookTrue(s) /\ s = hook'[h]
    BY <1>1, HookLoadsTrue DEF IInv, TypeOK
  <2>2. /\ s.step = (IF e.status = "succeeded" /\ refund[e.refund] # "succeeded"
                     THEN "cascade" ELSE "commit")
        /\ s.event = e /\ s.refund = refund[e.refund]
    BY <1>1, <2>1 DEF HookLoadsRefund, IInv, TypeOK
  <2>3. HookTakes(s)
    BY <2>2 DEF HookTakes
  <2> QED BY <2>1, <2>3
<1>2. ASSUME HookCascades(h), hook' # [hook EXCEPT ![h] = Idle]
      PROVE  \E s \in Sessions : hook' = [hook EXCEPT ![h] = s] /\ HookTrue(s) /\ HookTakes(s)
  <2>1. PICK s \in Sessions : hook' = [hook EXCEPT ![h] = s] /\ HookTrue(s) /\ s = hook'[h]
    BY <1>2, HookCascadesTrue DEF IInv, TypeOK
  <2>2. PICK o \in Sessions : o = hook[h] /\ o.event.refund \in Refunds
    BY <1>2, SessionFacts DEF HookCascades, IInv, Sessions, Events
  <2>3. PICK x \in Refunds : x = o.event.refund
    BY <2>2
  <2>4. PICK view : view = [refund EXCEPT ![x] = "succeeded"]
    OBVIOUS
  <2>5. PICK w : w = CascadeWrites(view, payment_id[x])
    OBVIOUS
  <2>6. /\ ~CascadeRaises(view, payment_id[x])
        /\ hook' = [hook EXCEPT ![h] = [o EXCEPT !.step = "commit", !.writes = w]]
    BY <1>2, <2>2, <2>3, <2>4, <2>5 DEF HookCascades
  <2>7. s.event = o.event /\ s.writes = w
    <3>1. s = [o EXCEPT !.step = "commit", !.writes = w]
      BY <2>1, <2>6 DEF IInv, TypeOK
    <3> QED BY <2>2, <3>1 DEF Sessions
  <2>8. ASSUME NEW p \in Payments, p = payment_id[x], Covered(view, p)
        PROVE  "payment" \in w \/ payment[p] = "refunded"
    BY <2>5, <2>6, <2>8 DEF CascadeRaises, CascadeWrites, Columns
  <2>9. HookTakes(s)
    BY <2>3, <2>4, <2>7, <2>8 DEF HookTakes
  <2> QED BY <2>1, <2>9
<1>3. HookRollsBack(h) => hook' = [hook EXCEPT ![h] = Idle]
  BY DEF HookRollsBack
<1> QED BY <1>1, <1>2, <1>3

(* A commit that completes a refund takes the payment along, if the        *)
(* completed ones cover it now.                                            *)
LEMMA CommitTakes ==
    ASSUME AloneInv, Forward, NEW h \in Hooks, HookCommits(h)
    PROVE  FullCascades'
<1>1. PICK s \in Sessions : s = hook[h] /\ HookTrue(s) /\ HookTakes(s) /\ s.step = "commit"
  BY SessionFacts DEF HookCommits, AloneInv, IInv
<1>2. PICK x \in Refunds : x = s.event.refund
  BY DEF Sessions, Events
<1>3. PICK p \in Payments : p = payment_id[x]
  BY <1>1, <1>2 DEF HookTrue, AloneInv, IInv, Ordered
<1>4. PICK e \in Events : e = s.event /\ e.refund = x
  BY <1>2 DEF Sessions
<1>5. /\ refund' = [refund EXCEPT ![x] = IF s.refund = e.status THEN @ ELSE e.status]
      /\ payment' = [payment EXCEPT ![p] = IF "payment" \in s.writes THEN "refunded" ELSE @]
      /\ payment_id' = payment_id /\ amount' = amount
  BY <1>1, <1>3, <1>4 DEF HookCommits, requestVars
<1>6. PICK v : v = refund'
  OBVIOUS
<1>7. PICK u : u = refund
  OBVIOUS
<1>8. DOMAIN u = Refunds /\ payment \in [Payments -> PaymentStatus]
  BY <1>7 DEF AloneInv, IInv, TypeOK
<1>9. ASSUME NEW q \in Payments, Covered(v, q), ~Covered(u, q)
      PROVE  payment'[q] = "refunded"
  <2>4. PICK y \in Refunds : payment_id[y] = q /\ v[y] = "succeeded" /\ u[y] # "succeeded"
    BY <1>9, CoveredGrows DEF AloneInv, IInv
  <2>5. y = x /\ e.status = "succeeded" /\ s.refund # "succeeded"
    BY <1>5, <1>6, <1>7, <1>8, <2>4
  <2>6. q = p /\ v = [u EXCEPT ![x] = "succeeded"]
    BY <1>3, <1>5, <1>6, <1>7, <2>4, <2>5
  <2>7. "payment" \in s.writes \/ payment[q] = "refunded"
    BY <1>1, <1>3, <1>4, <1>7, <1>9, <2>5, <2>6 DEF HookTakes
  <2> QED BY <1>5, <1>8, <2>6, <2>7
<1>10. ASSUME NEW q \in Payments, Covered(v, q)
       PROVE  payment'[q] = "refunded"
  <2>1. CASE Covered(u, q)
    BY <1>7, <2>1 DEF AloneInv, FullCascades, Forward, RowsStay
  <2> QED BY <1>9, <1>10, <2>1
<1>11. ASSUME NEW q \in Payments, Covered(refund, q)'
       PROVE  payment'[q] = "refunded"
  <2>1. Covered(v, q)
    BY <1>5, <1>6, <1>11 DEF Covered, Having, Total
  <2> QED BY <1>10, <2>1
<1> QED BY <1>11 DEF FullCascades

(* Every step keeps the invariant.                                         *)
LEMMA AloneStep ==
    ASSUME Alone, AloneInv, [Next]_vars
    PROVE  AloneInv'
<1>1. IInv' /\ Forward /\ TypeOK /\ TypeOK'
  BY StepHolds, StepForward, StepType DEF AloneInv, IInv
<1>2. ASSUME NEW h \in Hooks, HookCommits(h)
      PROVE  AloneInv'
  <2>1. \A g \in Hooks : hook'[g] = Idle
    BY <1>1, <1>2 DEF HookCommits, Alone, TypeOK
  <2> QED BY <1>1, <1>2, <2>1, CommitTakes DEF AloneInv
<1>3. ASSUME \A h \in Hooks : ~HookCommits(h)
      PROVE  AloneInv'
  <2>1. /\ payment' = payment
        /\ \A x \in Refunds : \/ refund'[x] = refund[x]
                              \/ refund[x] = None /\ refund'[x] = "pending"
    BY <1>3, OnlyCommitsComplete DEF AloneInv, Alone
  <2>2. FullCascades'
    BY <1>1, <2>1, CascadesStay DEF AloneInv
  <2>3. ASSUME NEW h \in Hooks, hook'[h] # Idle
        PROVE  HookTakes(hook[h])'
    <3>1. PICK s \in Sessions : s = hook'[h]
      BY <1>1, <2>3 DEF TypeOK
    <3>2. HookTrue(s) /\ HookTakes(s)
      <4>1. CASE hook' = hook
        BY <2>3, <3>1, <4>1 DEF AloneInv, IInv, HooksTrue
      <4>2. ASSUME NEW g \in Hooks,
                   \/ \E e \in Events : HookLoadsRefund(g, e)
                   \/ HookCascades(g) \/ HookRollsBack(g)
            PROVE  HookTrue(s) /\ HookTakes(s)
        <5>1. PICK o \in Sessions \cup {Idle} :
                 hook' = [hook EXCEPT ![g] = o] /\ (o # Idle => HookTrue(o) /\ HookTakes(o))
          BY <4>2, HookConcludes DEF AloneInv
        <5> QED BY <1>1, <2>3, <3>1, <5>1 DEF Alone, TypeOK
      <4>3. hook' = hook \/ HookNext
        BY DEF Next, RequestNext, CreateRefund, ProviderRefunds, AbandonRefund, CommitRefund,
               StripeMoves, ReconcileNext, Alone, vars, hookVars
      <4> QED BY <1>3, <4>1, <4>2, <4>3 DEF HookNext
    <3>3. HookTakes(s)'
      BY <1>1, <2>1, <3>2, HookTakesStays DEF AloneInv
    <3> QED BY <3>1, <3>3 DEF HookTakes
  <2> QED BY <1>1, <2>2, <2>3 DEF AloneInv
<1> QED BY <1>2, <1>3

(* With one API process and no reconciliation there is no write skew:      *)
(* completed refunds that cover a payment together take it along, as       *)
(* Refunds_write_skew shows they do not beside a run of reconciliation.    *)
THEOREM FullRefundsCascade ==
    ASSUME Alone
    PROVE  Spec => []FullRefundCascades
<1>1. Init => AloneInv
  BY InitHolds, InitCascades DEF Init, AloneInv
<1>2. AloneInv /\ [Next]_vars => AloneInv'
  BY AloneStep
<1>3. AloneInv => FullRefundCascades
  BY DEF AloneInv, FullCascades, FullRefundCascades
<1> QED BY <1>1, <1>2, <1>3, PTL DEF Spec

-------------------------------------------------------------------------------
(* One run of reconciliation at a time and no webhooks.                    *)

OneRun == Hooks = {} /\ \A q, r \in Reconcilers : q = r

(* The refunds as a run that has loaded m sees them.                       *)
Seen(m) == [x \in Refunds |-> IF m[x] # None THEN m[x] ELSE refund[x]]

(* Nobody else moves what the run has loaded, and what its session sees    *)
(* takes payments along.                                                   *)
RunTakes(m, t, f) ==
    /\ \A x \in Refunds : m[x] # None \/ x \in t => refund[x] = "pending"
    /\ \A p \in Payments : Covered(Seen(m), p) => p \in f \/ payment[p] = "refunded"

OneRunInv ==
    /\ IInv
    /\ FullCascades
    /\ \A r \in Reconcilers : RunTakes(memory[r], todo[r], refunding[r])

(* A run that has loaded nothing sees the committed rows.                  *)
LEMMA NothingTakes ==
    ASSUME TypeOK, FullCascades, NEW f
    PROVE  RunTakes(Nothing, {}, f)
<1>1. Seen(Nothing) = refund
  BY DEF Seen, Nothing, TypeOK
<1> QED BY <1>1 DEF RunTakes, FullCascades, Nothing

(* So does one that has just loaded the pending ones.                      *)
LEMMA LoadedTakes ==
    ASSUME OneRunInv, NEW r \in Reconcilers, ReconcileLoads(r)
    PROVE  RunTakes(memory'[r], todo'[r], refunding'[r])
<1>1. PICK m : m = [x \in Refunds |-> IF refund[x] = "pending" THEN "pending" ELSE None]
  OBVIOUS
<1>2. /\ memory'[r] = m /\ refunding'[r] = refunding[r]
      /\ todo'[r] = {x \in Refunds : refund[x] = "pending"}
  BY <1>1 DEF ReconcileLoads, OneRunInv, IInv, TypeOK
<1>3. Seen(m) = refund
  BY <1>1 DEF Seen, OneRunInv, IInv, TypeOK
<1> QED BY <1>1, <1>2, <1>3, Distinct DEF RunTakes, FullCascades, OneRunInv, RefundStatus

(* A query sees the run's own changes, so that the last refund to complete *)
(* takes the payment along.                                                *)
LEMMA QueriedTakes ==
    ASSUME OneRunInv, NEW r \in Reconcilers, NEW x \in Refunds, ReconcileQueries(r, x)
    PROVE  RunTakes(memory'[r], todo'[r], refunding'[r])
<1>1. PICK m \in [Refunds -> RefundStatus \cup {None}] : m = memory[r]
  BY DEF OneRunInv, IInv, TypeOK
<1>2. PICK f \in SUBSET Payments : f = refunding[r]
  BY DEF OneRunInv, IInv, TypeOK
<1>3. PICK s \in RefundStatus : s = ProviderRefundStatus(stripe[x])
  BY ProviderRefundStatusType
<1>4. refund[x] # None
  BY DEF ReconcileQueries, OneRunInv, IInv, RunsTrue, RunTrue
<1>5. PICK p \in Payments : p = payment_id[x]
  BY <1>4 DEF OneRunInv, IInv, Ordered
<1>6. PICK n : n = [m EXCEPT ![x] = s]
  OBVIOUS
<1>7. Overlay(r, x, s) = Seen(n)
  BY <1>1, <1>3, <1>6, Distinct DEF Overlay, Seen
<1>8. PICK w : w = CascadeWrites(Seen(n), p)
  OBVIOUS
<1>9. PICK g : g = IF s = "succeeded" /\ p \notin f /\ "payment" \in w THEN f \cup {p} ELSE f
  OBVIOUS
<1>10. memory'[r] = n /\ refunding'[r] = g
  BY <1>1, <1>2, <1>3, <1>5, <1>6, <1>7, <1>8, <1>9 DEF ReconcileQueries, OneRunInv, IInv, TypeOK
<1>11. RunTakes(m, todo[r], f) /\ x \in todo[r] /\ todo'[r] = todo[r] \ {x}
  BY <1>1, <1>2 DEF OneRunInv, ReconcileQueries, IInv, TypeOK
<1>12. refund[x] = "pending"
  BY <1>11 DEF RunTakes
<1>13. ASSUME NEW q \in Payments, Covered(Seen(n), q)
       PROVE  q \in g \/ payment[q] = "refunded"
  <2>1. CASE s = "succeeded" /\ q = p
    <3>1. PaymentMayBecome(payment[p], "refunded")
      BY DEF PaymentMayBecome, PaymentTransitions, PaymentStatus, OneRunInv, IInv, Collected
    <3>2. "payment" \in w \/ payment[p] = "refunded"
      BY <1>8, <1>13, <2>1, <3>1 DEF CascadeWrites, Columns
    <3> QED BY <1>9, <2>1, <3>2
  <2>2. CASE ~ (s = "succeeded" /\ q = p)
    <3>1. \A y \in Refunds : payment_id[y] = q /\ Seen(n)[y] = "succeeded" =>
             Seen(m)[y] = "succeeded"
      BY <1>1, <1>3, <1>5, <1>6, <2>2, Distinct DEF Seen
    <3>2. Covered(Seen(m), q)
      BY <1>13, <3>1, CoveredGrows DEF OneRunInv, IInv
    <3> QED BY <1>9, <1>11, <3>2 DEF RunTakes
  <2> QED BY <2>1, <2>2
<1>14. \A y \in Refunds : n[y] # None \/ y \in todo[r] \ {x} => refund[y] = "pending"
  BY <1>1, <1>6, <1>11, <1>12 DEF RunTakes
<1> QED BY <1>10, <1>11, <1>13, <1>14 DEF RunTakes

(* The commit of the run writes what its session has seen.                 *)
LEMMA RunCommitTakes ==
    ASSUME OneRunInv, NEW r \in Reconcilers, ReconcileCommits(r)
    PROVE  FullCascades'
<1>1. PICK m \in [Refunds -> RefundStatus \cup {None}] : m = memory[r]
  BY DEF OneRunInv, IInv, TypeOK
<1>2. RunTakes(m, todo[r], refunding[r])
  BY <1>1 DEF OneRunInv
<1>3. PICK v : v = refund'
  OBVIOUS
<1>4. payment_id' = payment_id /\ amount' = amount
  BY DEF ReconcileCommits, requestVars
<1>5. \A x \in Refunds : v[x] = "succeeded" => Seen(m)[x] = "succeeded"
  BY <1>1, <1>2, <1>3 DEF ReconcileCommits, Moved, Seen, RunTakes
<1>6. ASSUME NEW p \in Payments, Covered(refund, p)'
      PROVE  payment'[p] = "refunded"
  <2>1. Covered(v, p)
    BY <1>3, <1>4, <1>6 DEF Covered, Having, Total
  <2>2. Covered(Seen(m), p)
    BY <1>5, <2>1, CoveredGrows DEF OneRunInv, IInv
  <2> QED BY <1>2, <2>2 DEF RunTakes, ReconcileCommits
<1> QED BY <1>6 DEF FullCascades

(* A step that is no commit of the run keeps what its session sees.        *)
LEMMA RunTakesStays ==
    ASSUME IInv, Forward, NEW m, NEW t \in SUBSET Refunds, NEW f, RunTakes(m, t, f),
           payment' = payment,
           \A x \in Refunds : \/ refund'[x] = refund[x]
                              \/ refund[x] = None /\ refund'[x] = "pending"
    PROVE  RunTakes(m, t, f)'
<1>1. PICK u : u = Seen(m)
  OBVIOUS
<1>2. PICK v : v = Seen(m)'
  OBVIOUS
<1>3. \A x \in Refunds : u[x] = "succeeded" <=> v[x] = "succeeded"
  BY <1>1, <1>2, Distinct DEF Seen, RefundStatus
<1>4. ASSUME NEW x \in Refunds, u[x] = "succeeded"
      PROVE  payment_id'[x] = payment_id[x] /\ amount'[x] = amount[x]
  <2>1. refund[x] # None
    BY <1>1, <1>4, Distinct DEF Seen, RunTakes, RefundStatus
  <2> QED BY <2>1 DEF Forward, ClaimsStay, IInv, Ordered
<1>5. ASSUME NEW p \in Payments, Covered(Seen(m), p)'
      PROVE  p \in f \/ payment'[p] = "refunded"
  <2>1. Covered(v, p)'
    BY <1>2, <1>5 DEF Covered, Having, Total
  <2>2. Covered(u, p)
    BY <1>3, <1>4, <2>1, CoveredStays
  <2> QED BY <1>1, <2>2 DEF RunTakes
<1>6. \A x \in Refunds : m[x] # None \/ x \in t => refund'[x] = "pending"
  BY Distinct DEF RunTakes, RefundStatus
<1> QED BY <1>5, <1>6 DEF RunTakes

(* Every step keeps the invariant.                                         *)
LEMMA OneRunStep ==
    ASSUME OneRun, OneRunInv, [Next]_vars
    PROVE  OneRunInv'
<1>1. IInv' /\ Forward /\ TypeOK /\ TypeOK' /\ IInv
  BY StepHolds, StepForward, StepType DEF OneRunInv, IInv
<1>2. ASSUME FullCascades', NEW q \in Reconcilers, memory'[q] = Nothing, todo'[q] = {}
      PROVE  RunTakes(memory[q], todo[q], refunding[q])'
  <2>1. PICK m : m = memory'[q] /\ m = Nothing
    BY <1>2
  <2>2. Seen(m)' = refund'
    BY <1>1, <2>1 DEF Seen, Nothing, TypeOK
  <2>3. ASSUME NEW p \in Payments, Covered(Seen(m), p)'
        PROVE  payment'[p] = "refunded"
    <3>1. Covered(refund, p)'
      BY <2>2, <2>3 DEF Covered, Having, Total
    <3> QED BY <1>2, <3>1 DEF FullCascades
  <2>4. PICK f : f = refunding'[q]
    OBVIOUS
  <2>5. RunTakes(m, {}, f)'
    BY <2>1, <2>3 DEF RunTakes, Nothing
  <2> QED BY <1>2, <2>1, <2>4, <2>5 DEF RunTakes
<1>3. ASSUME NEW r \in Reconcilers, ReconcileCommits(r)
      PROVE  OneRunInv'
  <2>1. FullCascades'
    BY <1>3, RunCommitTakes
  <2>2. \A q \in Reconcilers : memory'[q] = Nothing /\ todo'[q] = {}
    BY <1>1, <1>3 DEF ReconcileCommits, ResetRun, OneRun, TypeOK
  <2> QED BY <1>1, <1>2, <2>1, <2>2 DEF OneRunInv
<1>4. ASSUME \A r \in Reconcilers : ~ReconcileCommits(r)
      PROVE  OneRunInv'
  <2>1. /\ payment' = payment
        /\ \A x \in Refunds : \/ refund'[x] = refund[x]
                              \/ refund[x] = None /\ refund'[x] = "pending"
    BY <1>1, <1>4, OnlyCommitsComplete DEF OneRun
  <2>2. FullCascades'
    BY <1>1, <2>1, CascadesStay DEF OneRunInv
  <2>3. ASSUME NEW q \in Reconcilers, RunTakes(memory'[q], todo'[q], refunding'[q])
        PROVE  RunTakes(memory[q], todo[q], refunding[q])'
    <3>1. PICK m : m = memory'[q]
      OBVIOUS
    <3>2. PICK t \in SUBSET Refunds : t = todo'[q]
      BY <1>1 DEF TypeOK
    <3>3. PICK f : f = refunding'[q]
      OBVIOUS
    <3>4. RunTakes(m, t, f)'
      BY <1>1, <2>1, <2>3, <3>1, <3>2, <3>3, RunTakesStays
    <3> QED BY <3>1, <3>2, <3>3, <3>4 DEF RunTakes
  <2>4. ASSUME UNCHANGED <<memory, todo, refunding>>
        PROVE  \A q \in Reconcilers : RunTakes(memory[q], todo[q], refunding[q])'
    BY <2>3, <2>4 DEF OneRunInv
  <2>5. ASSUME NEW r \in Reconcilers,
               ReconcileLoads(r) \/ \E x \in Refunds : ReconcileQueries(r, x)
        PROVE  \A q \in Reconcilers : RunTakes(memory[q], todo[q], refunding[q])'
    <3>1. RunTakes(memory'[r], todo'[r], refunding'[r])
      BY <2>5, LoadedTakes, QueriedTakes DEF OneRunInv
    <3> QED BY <2>3, <3>1 DEF OneRun
  <2>6. ASSUME NEW r \in Reconcilers, NEW x \in Refunds, ReconcileQueryFails(r, x)
        PROVE  \A q \in Reconcilers : RunTakes(memory[q], todo[q], refunding[q])'
    <3>1. /\ memory'[r] = memory[r] /\ todo'[r] \subseteq todo[r]
          /\ refunding'[r] = refunding[r]
      BY <1>1, <2>6 DEF ReconcileQueryFails, TypeOK
    <3>2. RunTakes(memory'[r], todo'[r], refunding'[r])
      BY <3>1 DEF RunTakes, OneRunInv
    <3> QED BY <2>3, <3>2 DEF OneRun
  <2>7. ASSUME NEW r \in Reconcilers, ReconcileDies(r)
        PROVE  \A q \in Reconcilers : RunTakes(memory[q], todo[q], refunding[q])'
    <3>1. \A q \in Reconcilers : memory'[q] = Nothing /\ todo'[q] = {}
      BY <1>1, <2>7 DEF ReconcileDies, ResetRun, OneRun, TypeOK
    <3> QED BY <1>2, <2>2, <3>1
  <2>8. RequestNext => UNCHANGED <<memory, todo, refunding>>
    BY DEF RequestNext, CreateRefund, ProviderRefunds, AbandonRefund, CommitRefund, reconVars
  <2>9. ASSUME NEW x \in Refunds, NEW s \in StripeStatus, StripeMoves(x, s)
        PROVE  UNCHANGED <<memory, todo, refunding>>
    BY <2>9 DEF StripeMoves, reconVars
  <2>10. ~HookNext
    BY DEF HookNext, OneRun
  <2>11. UNCHANGED vars => UNCHANGED <<memory, todo, refunding>>
    BY DEF vars, reconVars
  <2>12. \A q \in Reconcilers : RunTakes(memory[q], todo[q], refunding[q])'
    BY <1>4, <2>4, <2>5, <2>6, <2>7, <2>8, <2>9, <2>10, <2>11 DEF Next, ReconcileNext
  <2> QED BY <1>1, <2>2, <2>12 DEF OneRunInv
<1> QED BY <1>3, <1>4

(* With one run of reconciliation at a time and no webhooks there is no    *)
(* write skew either, however long a run takes and whatever fails in it:   *)
(* its session sees its own changes, and nobody else completes a refund.   *)
THEOREM FullRefundsCascadeInRuns ==
    ASSUME OneRun
    PROVE  Spec => []FullRefundCascades
<1>1. Init => OneRunInv
  <2> SUFFICES ASSUME Init PROVE OneRunInv
    OBVIOUS
  <2>1. TypeOK /\ FullCascades /\ IInv
    BY InitHolds, InitCascades DEF IInv
  <2>2. \A r \in Reconcilers : RunTakes(memory[r], todo[r], refunding[r])
    BY <2>1, NothingTakes DEF Init
  <2> QED BY <2>1, <2>2 DEF OneRunInv
<1>2. OneRunInv /\ [Next]_vars => OneRunInv'
  BY OneRunStep
<1>3. OneRunInv => FullRefundCascades
  BY DEF OneRunInv, FullCascades, FullRefundCascades
<1> QED BY <1>1, <1>2, <1>3, PTL DEF Spec
===============================================================================
