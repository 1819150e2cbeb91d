------------------------------ MODULE MCPayments ------------------------------
(* Instances of Payments for TLC.                                          *)
EXTENDS Payments, TLC

CONSTANTS i1, i2, h1, h2, r1, r2

MCOneInvoice == {i1}
MCTwoInvoices == {i1, i2}
MCOneHook == {h1}
MCTwoHooks == {h1, h2}
MCNoReconciler == {}
MCOneReconciler == {r1}
MCTwoReconcilers == {r1, r2}
===============================================================================
