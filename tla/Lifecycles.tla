------------------------------ MODULE Lifecycles ------------------------------
(***************************************************************************)
(* The statuses an invoice, a payment and a refund can have, the graph of  *)
(* transitions each status service allows, and the translation of the      *)
(* provider's statuses into them.  No state: the behaviour modules extend  *)
(* this one.  A status is the string the database column holds.            *)
(***************************************************************************)

InvoiceStatus == {"generated", "pending", "paid", "voided", "refunded"}

PaymentStatus == {"created", "initiated", "processing", "succeeded",
                  "failed", "cancelled", "refunded"}

RefundStatus == {"created", "pending", "succeeded", "failed", "cancelled"}

-------------------------------------------------------------------------------
(* InvoiceStatusService, PaymentStatusService and RefundStatusService:     *)
(* ALLOWED_TRANSITIONS of each.                                            *)

InvoiceTransitions ==
    [s \in InvoiceStatus |->
        CASE s = "generated" -> {"pending", "voided"}
          [] s = "pending"   -> {"paid", "voided"}
          [] s = "paid"      -> {"refunded"}
          [] OTHER           -> {}]

PaymentTransitions ==
    [s \in PaymentStatus |->
        CASE s = "created"    -> {"initiated", "failed", "cancelled"}
          [] s = "initiated"  -> {"processing", "cancelled", "succeeded", "failed"}
          [] s = "processing" -> {"succeeded", "failed", "cancelled"}
          [] s = "succeeded"  -> {"refunded"}
          [] OTHER            -> {}]

RefundTransitions ==
    [s \in RefundStatus |->
        CASE s = "created" -> {"pending", "failed", "cancelled"}
          [] s = "pending" -> {"cancelled", "succeeded", "failed"}
          [] s = "failed"  -> {"pending", "cancelled"}
          [] OTHER         -> {}]

(* transition_status returns normally: the status is already the new one   *)
(* (a no-op) or the graph has the edge.  Otherwise it raises ValueError    *)
(* and leaves the row as it was.                                           *)
InvoiceMayBecome(s, t) == s = t \/ t \in InvoiceTransitions[s]
PaymentMayBecome(s, t) == s = t \/ t \in PaymentTransitions[s]
RefundMayBecome(s, t)  == s = t \/ t \in RefundTransitions[s]

-------------------------------------------------------------------------------
(* StripeProvider: what the provider says, in this program's statuses.     *)

IntentStatus == {"requires_payment_method", "requires_confirmation",
                 "requires_action", "processing", "requires_capture",
                 "succeeded", "canceled"}

ProviderPaymentStatusOptimistic(s) ==    \* mutant: processing counts as paid
    CASE s = "requires_payment_method" -> "failed"
      [] s = "canceled"                -> "cancelled"
      [] s \in {"processing", "requires_action", "requires_capture", "succeeded"} -> "succeeded"
      [] OTHER                         -> "initiated"

(* get_payment_status: an intent without a payment method is a failure     *)
(* here, also when nobody has tried to pay yet; a status the table does    *)
(* not know is INITIATED.                                                  *)
ProviderPaymentStatus(s) ==
    CASE s = "succeeded"               -> "succeeded"
      [] s = "requires_payment_method" -> "failed"
      [] s = "canceled"                -> "cancelled"
      [] s \in {"processing", "requires_action", "requires_capture"} -> "processing"
      [] OTHER                         -> "initiated"

ProviderRefundStatusEager(s) ==          \* mutant: an action to take counts as done
    CASE s \in {"succeeded", "requires_action"} -> "succeeded"
      [] s = "canceled"  -> "cancelled"
      [] s = "failed"    -> "failed"
      [] OTHER           -> "pending"
ProviderRefundStatusMisspelt(s) ==       \* mutant: the webhook's spelling
    CASE s = "succeeded" -> "succeeded"
      [] s = "cancelled" -> "cancelled"
      [] s = "failed"    -> "failed"
      [] OTHER           -> "pending"

(* get_refund_status: anything the table does not know is PENDING.         *)
ProviderRefundStatus(s) ==
    CASE s = "succeeded" -> "succeeded"
      [] s = "canceled"  -> "cancelled"
      [] s = "failed"    -> "failed"
      [] OTHER           -> "pending"
===============================================================================
