------------------------------ MODULE MCDealPages ------------------------------
(***************************************************************************)
(* A small instance of the engine and of its pages: deals of two customers *)
(* on two homes, so that a home has a queue, a customer has deals on two   *)
(* homes, and a customer can come back to the same home with a row of its  *)
(* own; three lease rows, so that a home can be let, renewed and let       *)
(* again; two at the desk, one of whom may verify.  Without a browser the  *)
(* rows of both homes move; beside the desk others move those of one home, *)
(* beside a customer his first row there, and he himself his second.       *)
(***************************************************************************)
EXTENDS DealPages, Portals, TLC

CONSTANTS d1, d2, d3, d4, h1, h2, c1, c2, l1, l2, l3, w1, w2, o1, o2

MCDealListing == d1 :> h1 @@ d2 :> h1 @@ d3 :> h2 @@ d4 :> h1
MCDealCustomer == d1 :> c1 @@ d2 :> c2 @@ d3 :> c1 @@ d4 :> c1
MCLeaseListing == l1 :> h1 @@ l2 :> h1 @@ l3 :> h2

MCOwnerOf == h1 :> o1 @@ h2 :> o2

MCVisits == {<<"deal", d1>>, <<"queue", h1>>, <<"tenancies">>,
             <<"my-requests">>, <<"public-listing", h1>>}

MCNearDeals == Nobody :> {d1, d2, d3} @@ w1 :> {d1, d2} @@ c1 :> {d1}
MCNearLeases == Nobody :> {l1, l2, l3} @@ w1 :> {l1} @@ c1 :> {l1}
================================================================================
