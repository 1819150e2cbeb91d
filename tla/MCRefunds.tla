------------------------------- MODULE MCRefunds -------------------------------
(* Instances of Refunds for TLC.                                           *)
EXTENDS Refunds, TLC

CONSTANTS p1, p2, h1, h2, r1, r2

MCOnePayment == {p1}
MCTwoPayments == {p1, p2}
MCAmountTwo == (p1 :> 2)
MCAmounts == (p1 :> 2) @@ (p2 :> 1)
MCOneHook == {h1}
MCTwoHooks == {h1, h2}
MCNoReconciler == {}
MCOneReconciler == {r1}
MCTwoReconcilers == {r1, r2}
MCPaid == {"paid"}
MCPending == {"pending"}
MCPaidOrPending == {"paid", "pending"}
===============================================================================
