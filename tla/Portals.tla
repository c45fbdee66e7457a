-------------------------------- MODULE Portals --------------------------------
(***************************************************************************)
(* The figures that owners, the agency and the platform admin are shown of *)
(* the homes and their tenancies: each is counted by a query of its own,   *)
(* from the leases or from the status that was derived from them.          *)
(***************************************************************************)
EXTENDS DealViews, FiniteSetsExt

CONSTANTS Owners, OwnerOf   \* listings.owner_id, by person

ASSUME PortalsAssumption ==
  /\ OwnerOf \in [Listings -> Owners]
  /\ IsFiniteSet(Listings) /\ IsFiniteSet(Leases) /\ IsFiniteSet(Owners)

HomesOf(o) == {h \in Listings : OwnerOf[h] = o}

--------------------------------------------------------------------------------
(* THE OWNER                                                               *)

(* Mutant: a tenancy that ends soon counts as over.                        *)
OwnerDashboard_ActiveOnly(o) ==
  [properties |-> Cardinality(HomesOf(o)),
   occupied |-> Cardinality({l \in Leases : lease[l].status = "active"
                                            /\ LeaseListing[l] \in HomesOf(o)})]

(* Homes and live leases of the owner, shown as occupied/properties.       *)
OwnerDashboard(o) ==
  [properties |-> Cardinality(HomesOf(o)),
   occupied |-> Cardinality({l \in LiveLeases : LeaseListing[l] \in HomesOf(o)})]

(* One card a home, with a live lease of it if there is one.               *)
Properties(o) ==
  [h \in HomesOf(o) |->
     [status |-> status[h],
      currentLease |-> IF Live(lease, h) = {} THEN NoRow
                       ELSE CHOOSE l \in Live(lease, h) : TRUE]]

(* The page of one home: the first live lease, and how many leases of the  *)
(* home renewed another one.                                               *)
PropertyDetail(h) ==
  [currentLease |-> IF Live(lease, h) = {} THEN NoRow
                    ELSE CHOOSE l \in Live(lease, h) : TRUE,
   renewalCount |-> Cardinality({l \in Leases : LeaseListing[l] = h
                                                /\ lease[l].renewedFrom # NoRow})]

(* A card names the tenant if it has a lease, the status otherwise; its    *)
(* chip tells the status anyway.                                           *)
SaysTenant(card) == card.currentLease # NoRow
SaysRented(card) == card.status = "rented"

--------------------------------------------------------------------------------
(* THE AGENCY AND THE PLATFORM                                             *)

ListingsByStatus == [s \in ListingStatuses |-> Cardinality({h \in Listings : status[h] = s})]

(* The platform's agencies: live leases by home, added up by agency.       *)
AgencyTenancies ==
  MapThenSumSet(LAMBDA h : Cardinality(Live(lease, h)), Listings)

(* The platform's overview: live leases, whosever they are; and a chart    *)
(* of new tenancies, one for every lease row.                              *)
ActiveTenancies == Cardinality(LiveLeases)
NewTenancies == Cardinality({l \in Leases : lease[l].status # "none"})

(* The page of the metrics counts for each agency what its dashboard does. *)
MetricsByStatus == ListingsByStatus

Occupied(o) == OwnerDashboard(o).occupied
TenanciesListed == Cardinality(DOMAIN Tenancies)

--------------------------------------------------------------------------------
(* PROPERTIES                                                              *)

(* Whoever asks is told the same: an owner's occupied homes are those that *)
(* say rented, and those that name a tenant; what all owners are told adds *)
(* up to the agency's rented homes, to its list of tenancies and to both   *)
(* of the platform's counts.                                               *)
NumbersAgree ==
  /\ \A o \in Owners :
       LET cards == Properties(o) IN
       /\ Occupied(o) = Cardinality({h \in HomesOf(o) : SaysRented(cards[h])})
       /\ \A h \in HomesOf(o) :
            /\ SaysRented(cards[h]) <=> SaysTenant(cards[h])
            /\ PropertyDetail(h).currentLease = cards[h].currentLease
  /\ MapThenSumSet(Occupied, Owners) = ListingsByStatus["rented"]
  /\ {TenanciesListed, AgencyTenancies, ActiveTenancies} = {MetricsByStatus["rented"]}

--------------------------------------------------------------------------------
(* WHAT THE TEXTS PROMISE AND THE CODE DOES NOT ALWAYS KEEP.  No run       *)
(* checks these; README.md tells the steps that break each of them.        *)

(* The leases a tenancy was renewed from, the lease itself included.       *)
Chain(l) ==
  LET back[k \in 0 .. Cardinality(Leases)] ==
        IF k = 0 THEN {l}
        ELSE back[k - 1] \cup ({lease[m].renewedFrom : m \in back[k - 1]} \ {NoRow})
  IN back[Cardinality(Leases)]

(* en.json:253: the current lease was renewed that many times - not the    *)
(* lease of somebody who lived there before.                               *)
RenewalCountIsTenancys ==
  \A h \in Listings : LET p == PropertyDetail(h) IN
    p.currentLease # NoRow => p.renewalCount = Cardinality(Chain(p.currentLease)) - 1

(* en.json:780: "New tenancies per month": a renewal is not one.           *)
EachTenancyCountsOnce ==
  NewTenancies = Cardinality({d \in Deals : deal[d] = "closed"})
================================================================================
