------------------------------ MODULE MCDealSteps ------------------------------
(***************************************************************************)
(* Small instances of DealSteps: one home, two deals of two customers, two *)
(* workers.  The constants name the calls of the one worker that may       *)
(* overlap those of the other.                                             *)
(***************************************************************************)
EXTENDS DealSteps, TLC

CONSTANTS d1, d2, h1, c1, c2, l1, l2, w1, w2

MCDealListing == d1 :> h1 @@ d2 :> h1
MCDealCustomer == d1 :> c1 @@ d2 :> c2
MCLeaseListing == [l \in Leases |-> h1]

(* The two lease rows are alike, and so are the two customers, each with a *)
(* deal: exchanging them leaves every constant function as it is.          *)
Swap == d1 :> d2 @@ d2 :> d1 @@ c1 :> c2 @@ c2 :> c1
MCSymmetry == Permutations(Leases) \cup {Swap}

(* One worker makes every call that writes leases; the other makes all the *)
(* rest next to it.                                                        *)
LeaseCalls == {"close", "mark_ending_soon", "renew", "record_move_out"}
LeaseDesk == w1 :> LeaseCalls @@ w2 :> Calls \ LeaseCalls

(* The timer may overlap the agency, which closes deals and moves tenants  *)
(* out.                                                                    *)
DeskAndTenantTimer ==
  w1 :> {"request", "select", "record_proceeding", "upload", "verify", "generate",
         "sign", "close", "record_move_out"}
  @@ w2 :> {"mark_ending_soon"}
================================================================================
