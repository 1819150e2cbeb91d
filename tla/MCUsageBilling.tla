---------------------------- MODULE MCUsageBilling ----------------------------
(* Instances of UsageBilling for TLC.                                      *)
EXTENDS UsageBilling, TLC

CONSTANTS k1, k2, k3, c1, c2, t1, t2, w1, w2

MCOneKey == {k1}
MCTwoKeys == {k1, k2}
(* Two clients with usage of one event type; two event types.              *)
MCClientOf == (k1 :> c1) @@ (k2 :> c2)
MCOneClient == (k1 :> c1) @@ (k2 :> c1)
MCOneType == (k1 :> t1) @@ (k2 :> t1)
MCTwoTypes == (k1 :> t1) @@ (k2 :> t2)
MCOneWorker == {w1}
MCTwoWorkers == {w1, w2}
MCDaily == {1}
MCDailyWeekly == {1, 2}
===============================================================================
