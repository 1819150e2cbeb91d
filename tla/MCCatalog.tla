------------------------------- MODULE MCCatalog -------------------------------
(* A user with a project, two clients of which one has a key, an event     *)
(* type and its rule; a second rule price and names that are taken or free. *)
EXTENDS Catalog, TLC

CONSTANTS u, p, c, d, k, e, r, x, y

MCNames == {x, y}
MCPrices == {1, 2}

MCSeeds ==
    u :> UserRow(x, {u}) @@
    p :> ProjectRow(u, x, {p}) @@
    c :> ClientRow(p, x, {c}) @@
    d :> ClientRow(p, y, {d}) @@
    k :> ApiKeyRow(c, x, {k}) @@
    e :> EventTypeRow(p, x, {e}) @@
    r :> PricingRuleRow(e, 1, {r})

MCAlike == [i \in {u, p, c, d, k, e, r} \cup 1 .. MaxRequests |-> 0]
===============================================================================
