---------------------------- MODULE MCDealLifecycle ----------------------------
(***************************************************************************)
(* A small instance of DealLifecycle: a customer who can come back to a  *)
(* home, and a home that can be let again.                                 *)
(***************************************************************************)
EXTENDS DealLifecycle, TLC

CONSTANTS d1, d2, d3, d4, h1, h2, c1, c2, l1, l2, l3

Only(f, S) == [x \in S |-> f[x]]

MCDealListing == Only(d1 :> h1 @@ d2 :> h1 @@ d3 :> h2 @@ d4 :> h1, Deals)
MCDealCustomer == Only(d1 :> c1 @@ d2 :> c2 @@ d3 :> c1 @@ d4 :> c1, Deals)
MCLeaseListing == Only(l1 :> h1 @@ l2 :> h1 @@ l3 :> h2, Leases)
================================================================================
