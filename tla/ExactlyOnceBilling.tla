-------------------------- MODULE ExactlyOnceBilling --------------------------
(***************************************************************************)
(* What usage billing promises, without times, workers, locks or runs:     *)
(* usage is recorded once; an invoice is made of recorded usage of one     *)
(* client that no other invoice has; nothing recorded or invoiced is ever  *)
(* taken back or changed.                                                  *)
(***************************************************************************)
CONSTANTS
    Keys,       \* usage a client can send, each with its idempotency key
    ClientOf    \* the client whose usage a key stands for

VARIABLES
    recorded,   \* the usage in the database
    invoices    \* invoices: records with a client and a set of events

vars == <<recorded, invoices>>

Init == recorded = {} /\ invoices = {}

Record(k) ==
    /\ k \notin recorded
    /\ recorded' = recorded \cup {k}
    /\ UNCHANGED invoices

Billed == UNION {i.events : i \in invoices}

(* A billing run commits its invoices together.                            *)
Bill ==
    /\ invoices \subseteq invoices'
    /\ \A i \in invoices' \ invoices :
          /\ i.events # {}
          /\ i.events \subseteq recorded \ Billed
          /\ \A k \in i.events : ClientOf[k] = i.client
          /\ \A j \in invoices' \ invoices : i # j => i.events \cap j.events = {}
    /\ UNCHANGED recorded

Next == (\E k \in Keys : Record(k)) \/ Bill

Spec == Init /\ [][Next]_vars
===============================================================================
