----------------------------- MODULE DealLifecycle -----------------------------
(***************************************************************************)
(* What the deal engine promises: every handler of the API that touches a  *)
(* deal, a lease, the identity document or the agreement of a deal, as ONE *)
(* step that runs to its end before the next one starts.  It is the        *)
(* behaviour of the code when no two handlers overlap and none is cut      *)
(* short; DealSteps splits the same handlers at their awaits and is shown  *)
(* to implement this module when they run one at a time.                   *)
(*                                                                         *)
(* A deal row's listing and customer, and a lease row's listing, never     *)
(* change after the insert, so they are properties of the row's identity.  *)
(* Listings are published homes of active agencies.  Time is abstracted: a *)
(* timer whose age condition is met may fire, or not, at any moment.       *)
(***************************************************************************)
EXTENDS GuriTables

CONSTANTS Deals, Leases, Listings, Customers,
          DealListing,   \* the home a deal row is about
          DealCustomer,  \* the customer a deal row belongs to
          LeaseListing,  \* the home a lease row is about
          NoRow          \* a null foreign key of a lease row

ASSUME DealLifecycleAssumption ==
  /\ DealListing \in [Deals -> Listings]
  /\ DealCustomer \in [Deals -> Customers]
  /\ LeaseListing \in [Leases -> Listings]
  /\ NoRow \notin Deals \cup Leases

VARIABLES
  deal,       \* deals.state, or NoDeal before the insert
  doc,        \* status of the deal's latest customer_documents row
  agreement,  \* none, generated, or signed (signed_scan_key is set)
  lease,      \* lease rows: status, originating deal, renewed-from lease
  status      \* listings.status, the persisted derivation

vars == <<deal, doc, agreement, lease, status>>

LeaseRows == [status : LeaseStatuses \cup {"none"},
              deal : Deals \cup {NoRow},
              renewedFrom : Leases \cup {NoRow}]

TypeOK ==
  /\ deal \in [Deals -> DealStates \cup {NoDeal}]
  /\ doc \in [Deals -> {"none", "pending", "approved", "rejected"}]
  /\ agreement \in [Deals -> {"none", "generated", "signed"}]
  /\ lease \in [Leases -> LeaseRows]
  /\ status \in [Listings -> ListingStatuses]

--------------------------------------------------------------------------------
(* Queries.  They take the table they read so that a step can evaluate     *)
(* them in its next state.                                                 *)

DealsOn(home) == {d \in Deals : DealListing[d] = home}

Reserving(deals, home) == {d \in DealsOn(home) : deals[d] \in DealReservingStates}

Live(leases, home) ==
  {l \in Leases : LeaseListing[l] = home /\ leases[l].status \in LeaseLiveStatuses}

Derived(deals, leases, home) ==
  DeriveListingStatus(Live(leases, home) # {}, Reserving(deals, home) # {})

(* Mutant: the tables are counted before the write they should reflect.    *)
Recompute_BeforeWrite(homes) ==
  status' = [h \in Listings |-> IF h \in homes THEN Derived(deal, lease, h)
                                               ELSE status[h]]

(* recomputeStatus for every listing of homes, on the step's result.       *)
Recompute(homes) ==
  status' = [h \in Listings |-> IF h \in homes THEN Derived(deal', lease', h)
                                               ELSE status[h]]

(* The generic transition: legal by the table, state set, status recomputed. *)
Transition(d, action) ==
  /\ \E to \in DealStates :
        /\ <<deal[d], action, to>> \in DealTransitions
        /\ deal' = [deal EXCEPT ![d] = to]
  /\ UNCHANGED lease
  /\ Recompute({DealListing[d]})

(* Mutant: only a viewing counts as holding the slot.                      *)
SlotFree_ViewingsOnly(d) ==
  \A e \in DealsOn(DealListing[d]) \ {d} : deal[e] # "viewing_scheduled"

SlotFree(d) == Reserving(deal, DealListing[d]) \subseteq {d}

--------------------------------------------------------------------------------
Init ==
  /\ deal = [d \in Deals |-> NoDeal]
  /\ doc = [d \in Deals |-> "none"]
  /\ agreement = [d \in Deals |-> "none"]
  /\ lease = [l \in Leases |-> [status |-> "none", deal |-> NoRow, renewedFrom |-> NoRow]]
  /\ status = [h \in Listings |-> "available"]

(* Mutant: a twin that is a bare request is overlooked.                    *)
OpenTwins_Requested(d) ==
  {e \in DealsOn(DealListing[d]) :
      DealCustomer[e] = DealCustomer[d] /\ deal[e] \in DealReservingStates}

(* The open deals of d's customer on d's own home.                         *)
OpenTwins(d) ==
  {e \in DealsOn(DealListing[d]) :
      DealCustomer[e] = DealCustomer[d] /\ deal[e] \in DealOpenStates}

CreateRequest(d) ==
  /\ status[DealListing[d]] \in {"available", "reserved"}
  /\ OpenTwins(d) = {}
  /\ Transition(d, "request")
  /\ UNCHANGED <<doc, agreement>>

Select(d) ==
  /\ SlotFree(d)
  /\ Transition(d, "schedule_viewing")
  /\ UNCHANGED <<doc, agreement>>

(* The handlers that are nothing but a transition: reschedule, decline a   *)
(* request, the three viewing outcomes, withdraw, and the two expiry       *)
(* timers (14 days untouched, 7 days past the viewing).                    *)
PlainActions == {"reschedule_viewing", "decline_request", "record_no_show",
                 "record_declined", "record_proceeding", "withdraw", "expire"}

Plain(d, action) ==
  /\ Transition(d, action)
  /\ UNCHANGED <<doc, agreement>>

Upload(d) ==
  /\ \/ Transition(d, "submit_documents")
     \/ SlotFree(d) /\ Transition(d, "resubmit_documents")
  /\ doc' = [doc EXCEPT ![d] = "pending"]
  /\ UNCHANGED agreement

Verify(d, verdict) ==
  /\ doc[d] = "pending"
  /\ Transition(d, IF verdict = "approved" THEN "approve_documents" ELSE "reject_documents")
  /\ doc' = [doc EXCEPT ![d] = verdict]
  /\ UNCHANGED agreement

(* Mutant: a paper can be generated again for any verified deal.           *)
GenerateAgreement_AnyTime(d) ==
  /\ doc[d] = "approved"
  /\ agreement' = [agreement EXCEPT ![d] = "generated"]
  /\ UNCHANGED <<deal, doc, lease, status>>

GenerateAgreement(d) ==
  /\ deal[d] = "approved"
  /\ agreement' = [agreement EXCEPT ![d] = "generated"]
  /\ UNCHANGED <<deal, doc, lease, status>>

UploadSigned(d) ==
  /\ agreement[d] # "none"
  /\ agreement' = [agreement EXCEPT ![d] = "signed"]
  /\ UNCHANGED <<deal, doc, lease, status>>

PurgeDocument(d) ==
  /\ deal[d] \in PurgeDealStates
  /\ doc[d] # "none"
  /\ doc' = [doc EXCEPT ![d] = "none"]
  /\ UNCHANGED <<deal, agreement, lease, status>>

(* The deals close() expires with the home, and the deals it then          *)
(* auto-withdraws because their customer has signed.                       *)
(* Mutant: the queue is left standing.                                     *)
Queued_Forgotten(d) == {}

Queued(d) == {e \in DealsOn(DealListing[d]) \ {d} : deal[e] = "requested"}

(* Mutant: decided deals of the customer are withdrawn too.                *)
SignedElsewhere_AnyState(d) ==
  {e \in Deals \ ({d} \cup Queued(d)) :
      DealCustomer[e] = DealCustomer[d] /\ deal[e] # NoDeal}

SignedElsewhere(d) ==
  {e \in Deals \ {d} : /\ DealCustomer[e] = DealCustomer[d]
                       /\ deal[e] \in DealOpenStates
                       /\ e \notin Queued(d)}

(* Mutant: a lease in its last month no longer blocks a close.             *)
HomeVacant_EndingIgnored(d) ==
  \A l \in Leases : LeaseListing[l] = DealListing[d] => lease[l].status # "active"

HomeVacant(d) == Live(lease, DealListing[d]) = {}

Close(d, l) ==
  /\ <<deal[d], "close", "closed">> \in DealTransitions
  /\ HomeVacant(d)
  /\ agreement[d] = "signed"
  /\ lease[l].status = "none" /\ LeaseListing[l] = DealListing[d]
  /\ \A k \in Leases : lease[k].deal # d          \* leases.deal_id is unique
  /\ lease' = [lease EXCEPT ![l] =
                 [status |-> "active", deal |-> d, renewedFrom |-> NoRow]]
  /\ deal' = [e \in Deals |-> IF e = d THEN "closed"
                              ELSE IF e \in Queued(d) THEN "expired"
                              ELSE IF e \in SignedElsewhere(d) THEN "withdrawn"
                              ELSE deal[e]]
  /\ Recompute({DealListing[e] : e \in SignedElsewhere(d) \cup {d}})
  /\ UNCHANGED <<doc, agreement>>

--------------------------------------------------------------------------------
LeaseTransition(l, action) ==
  /\ \E to \in LeaseStatuses :
        /\ <<lease[l].status, action, to>> \in LeaseTransitions
        /\ lease' = [lease EXCEPT ![l].status = to]
  /\ UNCHANGED <<deal, doc, agreement>>
  /\ Recompute({LeaseListing[l]})

MarkLeaseEndingSoon(l) == LeaseTransition(l, "mark_ending_soon")

EndLease(l) == LeaseTransition(l, "record_move_out")

(* Mutants: the old row is copied with its deal; the link is forgotten.    *)
Renewal_CopiesDeal(l) == [status |-> "active", deal |-> lease[l].deal, renewedFrom |-> l]

Renewal_Unlinked(l) == [status |-> "active", deal |-> NoRow, renewedFrom |-> NoRow]

(* The row a renewal inserts: no deal of its own, linked to the old lease. *)
Renewal(l) == [status |-> "active", deal |-> NoRow, renewedFrom |-> l]

RenewLease(l, new) ==
  /\ <<lease[l].status, "renew", "renewed">> \in LeaseTransitions
  /\ lease[new].status = "none" /\ LeaseListing[new] = LeaseListing[l]
  /\ \A k \in Leases : lease[k].renewedFrom # l   \* renewed_from_lease_id is unique
  /\ lease' = [lease EXCEPT ![l].status = "renewed",
                            ![new] = Renewal(l)]
  /\ UNCHANGED <<deal, doc, agreement>>
  /\ Recompute({LeaseListing[l]})

Next ==
  \/ \E d \in Deals :
        \/ CreateRequest(d) \/ Select(d) \/ Upload(d)
        \/ \E action \in PlainActions : Plain(d, action)
        \/ \E verdict \in {"approved", "rejected"} : Verify(d, verdict)
        \/ GenerateAgreement(d) \/ UploadSigned(d) \/ PurgeDocument(d)
        \/ \E l \in Leases : Close(d, l)
  \/ \E l \in Leases :
        \/ MarkLeaseEndingSoon(l) \/ EndLease(l)
        \/ \E new \in Leases : RenewLease(l, new)

Spec == Init /\ [][Next]_vars

--------------------------------------------------------------------------------
(* PROPERTIES                                                              *)

(* At most one deal holds a home's active slot, although select and the    *)
(* re-upload after a rejection both compete for it (deal-state.service.ts, *)
(* documents.service.ts).                                                  *)
OneReservingDeal ==
  \A d, e \in Deals :
     /\ DealListing[d] = DealListing[e]
     /\ deal[d] \in DealReservingStates /\ deal[e] \in DealReservingStates
     => d = e

(* A home has one live lease at most: close refuses a second and renewal   *)
(* replaces the one it continues.                                          *)
OneLiveLease ==
  \A k, l \in Leases :
     /\ LeaseListing[k] = LeaseListing[l]
     /\ lease[k].status \in LeaseLiveStatuses /\ lease[l].status \in LeaseLiveStatuses
     => k = l

(* The persisted status is what the rule derives from the two tables.      *)
StatusDerived == \A h \in Listings : status[h] = Derived(deal, lease, h)

(* While a home is let nobody queues for it and nobody is shown it: close  *)
(* empties the queue, and the status keeps new requests out until a human  *)
(* records the move-out, through any number of renewals.                   *)
NoQueueOnLetHome ==
  \A h \in Listings : Live(lease, h) # {} =>
     \A d \in DealsOn(h) :
        deal[d] \notin {"requested", "viewing_scheduled", "awaiting_docs"}

(* A closed deal has exactly the one lease its close created, and only a   *)
(* closed deal has one.                                                    *)
ClosedDealHasOneLease ==
  \A d \in Deals :
     /\ deal[d] = "closed" <=> \E l \in Leases : lease[l].deal = d
     /\ \A k, l \in Leases : lease[k].deal = d /\ lease[l].deal = d => k = l

(* The papers of a deal agree with its state, in both directions: a deal   *)
(* in review has an undecided document, and a document is left undecided   *)
(* only by a withdrawal; an approval stands on its document, and a         *)
(* rejected or an approved document never survives into another state, nor *)
(* a contract past the approval it was drawn up for; and no deal is closed *)
(* but with its signed scan.  The documents, the deal, the scan and the    *)
(* purge are moved by handlers of four services.                           *)
PaperworkMatchesState ==
  \A d \in Deals :
     /\ deal[d] = "docs_in_review" => doc[d] = "pending"
     /\ deal[d] \in {"approved", "closed"} => doc[d] = "approved"
     /\ deal[d] = "docs_rejected" => doc[d] \in {"rejected", "none"}
     /\ doc[d] = "pending" => deal[d] \in {"docs_in_review", "withdrawn"}
     /\ doc[d] = "approved" => deal[d] \in {"approved", "closed", "withdrawn"}
     /\ doc[d] = "rejected" => deal[d] = "docs_rejected"
     /\ agreement[d] # "none" => deal[d] \in {"approved", "closed", "withdrawn"}
     /\ deal[d] = "closed" => agreement[d] = "signed"

(* Renewals form chains: a lease is `renewed' iff one other lease of the   *)
(* same home continues it, so the newest row of a chain is the only one    *)
(* that can be live.                                                       *)
RenewalChains ==
  \A l \in Leases :
     /\ lease[l].status = "renewed"
          <=> \E k \in Leases : lease[k].renewedFrom = l
     /\ \A k \in Leases : lease[k].renewedFrom = l =>
          k # l /\ LeaseListing[k] = LeaseListing[l] /\ lease[k].status # "none"

(* A decided deal is never reopened, except a rejected one whose customer  *)
(* uploads again.                                                          *)
DecidedStaysDecided ==
  [][\A d \in Deals :
        deal[d] \in DealTerminalStates /\ deal'[d] # deal[d]
          => deal[d] = "docs_rejected" /\ deal'[d] = "docs_in_review"]_vars

(* A home returns to the market only when its tenant's move-out has been   *)
(* recorded: no timer, close or renewal takes it off `rented'.             *)
OnlyMoveOutFreesHome ==
  [][\A h \in Listings : status[h] = "rented" /\ status'[h] # "rented"
        => \E l \in Leases : /\ LeaseListing[l] = h
                             /\ lease[l].status \in LeaseLiveStatuses
                             /\ lease'[l].status = "vacated"]_vars

(* Claimed by SPEC.md:189 and by the guard of createRequest: a customer    *)
(* has one open deal on a home at most.                                    *)
OneOpenDealPerCustomer ==
  \A d, e \in Deals :
     /\ DealListing[d] = DealListing[e] /\ DealCustomer[d] = DealCustomer[e]
     /\ deal[d] \in DealOpenStates /\ deal[e] \in DealOpenStates
     => d = e
================================================================================
