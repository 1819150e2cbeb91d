---------------------------- MODULE MCBillingNight ----------------------------
(* Instances of BillingNight for TLC.                                      *)
EXTENDS BillingNight, TLC

CONSTANTS p1, p2, night, manual

MCProjects == {p1, p2}
MCPeriod == p1 :> 1 @@ p2 :> 2
MCRuns == {night, manual}
===============================================================================
