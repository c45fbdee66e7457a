--------------------------- MODULE MCDealStepsSerial ---------------------------
(***************************************************************************)
(* One worker with every duty, two customers, two homes, three deals.      *)
(***************************************************************************)
EXTENDS DealStepsSerial, TLC

CONSTANTS d1, d2, d3, h1, h2, c1, c2, l1, l2, l3, w1

Only(f, S) == [x \in S |-> f[x]]

MCDealListing == Only(d1 :> h1 @@ d2 :> h1 @@ d3 :> h2, Deals)
MCDealCustomer == Only(d1 :> c1 @@ d2 :> c2 @@ d3 :> c1, Deals)
MCLeaseListing == Only(l1 :> h1 @@ l2 :> h1 @@ l3 :> h2, Leases)
MCDuties == w1 :> Calls

(* The lease rows of one home are alike.                                   *)
MCSymmetry == Permutations({l1, l2})
================================================================================
