------------------------------ MODULE Deals_proofs ------------------------------
(***************************************************************************)
(* The deal engine, the pages in front of it and the figures behind it,    *)
(* for every number of deals, leases, homes, customers, owners and members *)
(* of the desk.                                                            *)
(*                                                                         *)
(* IInv is inductive: the active slot and the live lease are exclusive     *)
(* because the persisted status is derived from the tables (createRequest  *)
(* trusts it) and because a let home has no queue.  Trail is inductive on  *)
(* top of it: what the rows of a deal say about its past.  BrowserInv adds *)
(* what a person's app keeps of older answers; with it each step of the    *)
(* pages is a step of the engine, so that whatever holds of the engine     *)
(* holds beside any browser.                                               *)
(***************************************************************************)
EXTENDS DealPages, Portals, FiniteSetTheorems, TLAPS

IInv == /\ TypeOK
        /\ OneReservingDeal
        /\ OneLiveLease
        /\ StatusDerived
        /\ NoQueueOnLetHome

--------------------------------------------------------------------------------
(* Every state a table row leads to is a deal state, and the rows that     *)
(* enter the reserving states from outside are the two that compete for    *)
(* the active slot.                                                        *)
LEMMA DealTableFacts ==
  ASSUME NEW from, NEW action, NEW to, <<from, action, to>> \in DealTransitions
  PROVE  /\ to \in DealStates
         /\ from # "closed"
         /\ to \in DealReservingStates /\ from \notin DealReservingStates
              => action \in {"schedule_viewing", "resubmit_documents"}
         /\ action = "schedule_viewing" => from = "requested"
         /\ to = "requested" => from = NoDeal /\ action = "request"
         /\ to = "awaiting_docs" => from = "viewing_scheduled"
         /\ to = "viewing_scheduled" => from \in {"requested", "viewing_scheduled"}
         /\ action = "resubmit_documents" => to = "docs_in_review"
         /\ action = "request" => to = "requested"
BY DEF DealTransitions, DealStates, DealReservingStates, DealOpenStates, NoDeal

(* A live lease stays live or is ended by the table, and no row makes a    *)
(* dead lease live.                                                        *)
LEMMA LeaseTableFacts ==
  ASSUME NEW from, NEW action, NEW to, <<from, action, to>> \in LeaseTransitions
  PROVE  to \in LeaseStatuses /\ from \in LeaseLiveStatuses
BY DEF LeaseTransitions, LeaseStatuses, LeaseLiveStatuses

LEMMA DerivedType ==
  ASSUME NEW ds, NEW ls, NEW h
  PROVE  Derived(ds, ls, h) \in ListingStatuses
BY DEF Derived, DeriveListingStatus, ListingStatuses

(* Recomputing the homes whose rows changed restores the derivation for    *)
(* every home.                                                             *)
LEMMA RecomputeRestores ==
  ASSUME TypeOK, StatusDerived, NEW homes, Recompute(homes),
         \A h \in Listings \ homes :
            /\ Reserving(deal', h) = Reserving(deal, h)
            /\ Live(lease', h) = Live(lease, h)
  PROVE  /\ status' \in [Listings -> ListingStatuses]
         /\ StatusDerived'
<1>1. status' \in [Listings -> ListingStatuses]
  BY DerivedType DEF Recompute, TypeOK
<1>2. ASSUME NEW h \in Listings PROVE status'[h] = Derived(deal', lease', h)
  <2>1. CASE h \in homes
    BY <2>1 DEF Recompute
  <2>2. CASE h \notin homes
    BY <2>2 DEF Recompute, StatusDerived, Derived
  <2>3. QED BY <2>1, <2>2
<1>3. QED BY <1>1, <1>2 DEF StatusDerived

(* One transition of one deal: what it changes and what it leaves alone.   *)
LEMMA TransitionFacts ==
  ASSUME TypeOK, StatusDerived, NEW d \in Deals, NEW action, Transition(d, action)
  PROVE  /\ deal' \in [Deals -> DealStates \cup {NoDeal}]
         /\ \A e \in Deals \ {d} : deal'[e] = deal[e]
         /\ <<deal[d], action, deal'[d]>> \in DealTransitions
         /\ lease' = lease
         /\ status' \in [Listings -> ListingStatuses]
         /\ StatusDerived'
<1>1. PICK to \in DealStates :
         <<deal[d], action, to>> \in DealTransitions /\ deal' = [deal EXCEPT ![d] = to]
  BY DEF Transition
<1>2. /\ deal' \in [Deals -> DealStates \cup {NoDeal}]
      /\ \A e \in Deals \ {d} : deal'[e] = deal[e]
      /\ <<deal[d], action, deal'[d]>> \in DealTransitions
  BY <1>1 DEF TypeOK
<1>3. lease' = lease
  BY DEF Transition
<1>4. \A h \in Listings \ {DealListing[d]} :
         Reserving(deal', h) = Reserving(deal, h) /\ Live(lease', h) = Live(lease, h)
  BY <1>2, <1>3 DEF Reserving, DealsOn, Live
<1>5. Recompute({DealListing[d]})
  BY DEF Transition
<1>6. QED BY <1>2, <1>3, <1>4, <1>5, RecomputeRestores

(* A transition that does not enter the active slot, or finds it free,     *)
(* keeps the three exclusions, provided a new request finds the home       *)
(* without a lease.                                                        *)
LEMMA TransitionKeepsExclusion ==
  ASSUME IInv, NEW d \in Deals, NEW action, Transition(d, action),
         action \in {"schedule_viewing", "resubmit_documents"} => SlotFree(d),
         action = "request" => Live(lease, DealListing[d]) = {}
  PROVE  OneReservingDeal' /\ OneLiveLease' /\ NoQueueOnLetHome'
<1> USE DEF IInv
<1>1. /\ \A e \in Deals \ {d} : deal'[e] = deal[e]
      /\ <<deal[d], action, deal'[d]>> \in DealTransitions
      /\ lease' = lease
  BY TransitionFacts
<1>2. OneReservingDeal'
  <2> SUFFICES ASSUME NEW e \in Deals, e # d, DealListing[e] = DealListing[d],
                      deal'[e] \in DealReservingStates, deal'[d] \in DealReservingStates
               PROVE  FALSE
    BY <1>1 DEF OneReservingDeal
  <2>1. deal[e] \in DealReservingStates
    BY <1>1
  <2>2. CASE deal[d] \in DealReservingStates
    BY <2>1, <2>2 DEF OneReservingDeal
  <2>3. CASE deal[d] \notin DealReservingStates
    <3>1. SlotFree(d)
      BY <1>1, <2>3, DealTableFacts
    <3>2. QED BY <2>1, <3>1 DEF SlotFree, Reserving, DealsOn
  <2>4. QED BY <2>2, <2>3
<1>3. OneLiveLease'
  BY <1>1 DEF OneLiveLease
<1>4. NoQueueOnLetHome'
  <2> SUFFICES ASSUME NEW h \in Listings, Live(lease, h) # {}, d \in DealsOn(h),
                      deal'[d] \in {"requested", "viewing_scheduled", "awaiting_docs"}
               PROVE  FALSE
    BY <1>1 DEF NoQueueOnLetHome, Live, DealsOn
  <2>1. deal[d] \notin {"requested", "viewing_scheduled", "awaiting_docs"}
    BY DEF NoQueueOnLetHome
  <2>2. DealListing[d] = h
    BY DEF DealsOn
  <2>3. QED BY <1>1, <2>1, <2>2, DealTableFacts
<1>5. QED BY <1>2, <1>3, <1>4

(* A transition guarded as above keeps the whole invariant, whatever it    *)
(* does to the documents.                                                  *)
LEMMA TransitionKeepsIInv ==
  ASSUME IInv, NEW d \in Deals, NEW action, Transition(d, action),
         action \in {"schedule_viewing", "resubmit_documents"} => SlotFree(d),
         action = "request" => Live(lease, DealListing[d]) = {},
         doc' \in [Deals -> {"none", "pending", "approved", "rejected"}],
         agreement' = agreement
  PROVE  IInv'
<1>1. TypeOK'
  BY TransitionFacts DEF IInv, TypeOK
<1>2. StatusDerived'
  BY TransitionFacts DEF IInv
<1>3. QED BY <1>1, <1>2, TransitionKeepsExclusion DEF IInv

(* The status createRequest reads tells it that the home has no live lease. *)
LEMMA ListedHomeIsNotLet ==
  ASSUME TypeOK, StatusDerived, NEW h \in Listings, status[h] \in {"available", "reserved"}
  PROVE  Live(lease, h) = {}
BY DEF TypeOK, StatusDerived, Derived, DeriveListingStatus

LEMMA CreateRequestStep ==
  ASSUME IInv, NEW d \in Deals, CreateRequest(d) PROVE IInv'
<1>1. Live(lease, DealListing[d]) = {}
  BY DealLifecycleAssumption, ListedHomeIsNotLet DEF IInv, CreateRequest
<1>2. QED BY <1>1, TransitionKeepsIInv DEF IInv, TypeOK, CreateRequest

LEMMA SelectStep ==
  ASSUME IInv, NEW d \in Deals, Select(d) PROVE IInv'
BY TransitionKeepsIInv DEF IInv, TypeOK, Select

LEMMA PlainStep ==
  ASSUME IInv, NEW d \in Deals, NEW action \in PlainActions, Plain(d, action) PROVE IInv'
BY TransitionKeepsIInv DEF IInv, TypeOK, Plain, PlainActions

LEMMA UploadStep ==
  ASSUME IInv, NEW d \in Deals, Upload(d) PROVE IInv'
<1>1. doc' \in [Deals -> {"none", "pending", "approved", "rejected"}] /\ agreement' = agreement
  BY DEF IInv, TypeOK, Upload
<1>2. CASE Transition(d, "submit_documents")
  BY <1>1, <1>2, TransitionKeepsIInv
<1>3. CASE SlotFree(d) /\ Transition(d, "resubmit_documents")
  BY <1>1, <1>3, TransitionKeepsIInv
<1>4. QED BY <1>2, <1>3 DEF Upload

LEMMA VerifyStep ==
  ASSUME IInv, NEW d \in Deals, NEW verdict \in {"approved", "rejected"}, Verify(d, verdict)
  PROVE  IInv'
<1>1. doc' \in [Deals -> {"none", "pending", "approved", "rejected"}] /\ agreement' = agreement
  BY DEF IInv, TypeOK, Verify
<1>2. QED BY <1>1, TransitionKeepsIInv DEF Verify

(* Handlers that touch the paperwork only.                                 *)
LEMMA PaperworkStep ==
  ASSUME IInv, NEW d \in Deals,
         GenerateAgreement(d) \/ UploadSigned(d) \/ PurgeDocument(d)
  PROVE  IInv'
<1>1. deal' = deal /\ lease' = lease /\ status' = status
  BY DEF GenerateAgreement, UploadSigned, PurgeDocument
<1>2. TypeOK'
  BY <1>1 DEF IInv, TypeOK, GenerateAgreement, UploadSigned, PurgeDocument
<1>3. OneReservingDeal' /\ OneLiveLease' /\ StatusDerived' /\ NoQueueOnLetHome'
  BY <1>1 DEF IInv, OneReservingDeal, OneLiveLease, StatusDerived, NoQueueOnLetHome,
              Derived, Reserving, Live
<1>4. QED BY <1>2, <1>3 DEF IInv

--------------------------------------------------------------------------------
(* close() empties the slot and the queue of the home it lets, and opens   *)
(* nothing anywhere.                                                       *)
LEMMA CloseFacts ==
  ASSUME IInv, NEW d \in Deals, NEW l \in Leases, Close(d, l)
  PROVE  /\ deal[d] = "approved" /\ deal'[d] = "closed"
         /\ deal' \in [Deals -> DealStates \cup {NoDeal}]
         /\ \A e \in Deals : deal'[e] # deal[e] => deal'[e] \in DealTerminalStates
         /\ \A e \in Deals : deal'[e] # deal[e]
              => DealListing[e] \in {DealListing[f] : f \in SignedElsewhere(d) \cup {d}}
         /\ \A e \in Queued(d) : deal'[e] = "expired"
         /\ lease' \in [Leases -> LeaseRows]
         /\ lease'[l].status = "active"
         /\ \A k \in Leases \ {l} : lease'[k] = lease[k]
<1> USE DEF IInv, TypeOK
<1>1. deal[d] = "approved"
  BY DEF Close, DealTransitions, DealOpenStates, NoDeal
<1>2. /\ deal' \in [Deals -> DealStates \cup {NoDeal}]
      /\ deal'[d] = "closed"
      /\ \A e \in Queued(d) : deal'[e] = "expired"
  BY DEF Close, DealStates, Queued, DealsOn
<1>3. \A e \in Deals : deal'[e] # deal[e]
        => deal'[e] \in DealTerminalStates
           /\ DealListing[e] \in {DealListing[f] : f \in SignedElsewhere(d) \cup {d}}
  BY DEF Close, DealTerminalStates, DealStates, DealOpenStates, Queued, DealsOn
<1>4. /\ lease' \in [Leases -> LeaseRows]
      /\ lease'[l].status = "active"
      /\ \A k \in Leases \ {l} : lease'[k] = lease[k]
  BY DEF Close, LeaseRows, LeaseStatuses
<1>5. QED BY <1>1, <1>2, <1>3, <1>4

LEMMA CloseStep ==
  ASSUME IInv, NEW d \in Deals, NEW l \in Leases, Close(d, l) PROVE IInv'
<1> DEFINE homes == {DealListing[f] : f \in SignedElsewhere(d) \cup {d}}
<1> USE CloseFacts
<1>1. StatusDerived' /\ status' \in [Listings -> ListingStatuses]
  <2>1. \A e \in Deals : DealListing[e] \notin homes => deal'[e] = deal[e]
    OBVIOUS
  <2>2. LeaseListing[l] \in homes
    BY DEF Close
  <2>3. Recompute(homes)
    BY DEF Close
  <2> HIDE DEF homes
  <2>4. \A h \in Listings \ homes :
           Reserving(deal', h) = Reserving(deal, h) /\ Live(lease', h) = Live(lease, h)
    BY <2>1, <2>2 DEF Reserving, DealsOn, Live
  <2>5. QED BY <2>3, <2>4, RecomputeRestores DEF IInv
<1>2. TypeOK'
  BY <1>1 DEF IInv, TypeOK, Close
<1>3. OneReservingDeal'
  BY DEF IInv, OneReservingDeal, DealTerminalStates, DealReservingStates
<1>4. OneLiveLease'
  BY DEF IInv, OneLiveLease, Close, HomeVacant, Live
<1>5. NoQueueOnLetHome'
  <2> SUFFICES ASSUME NEW h \in Listings, Live(lease', h) # {}, NEW e \in DealsOn(h),
                      deal'[e] \in {"requested", "viewing_scheduled", "awaiting_docs"}
               PROVE  FALSE
    BY DEF NoQueueOnLetHome, DealsOn
  <2>1. e \in Deals /\ DealListing[e] = h /\ deal[e] = deal'[e] /\ e # d
    BY DEF DealsOn, DealTerminalStates, DealOpenStates
  <2>2. CASE h = DealListing[d]
    <3>1. CASE deal[e] = "requested"
      BY <2>1, <2>2, <3>1 DEF Queued, DealsOn
    <3>2. CASE deal[e] \in {"viewing_scheduled", "awaiting_docs"}
      BY <2>1, <2>2, <3>2 DEF IInv, OneReservingDeal, DealReservingStates, DealOpenStates
    <3>3. QED BY <2>1, <3>1, <3>2
  <2>3. CASE h # DealListing[d]
    <3>1. Live(lease, h) # {}
      BY <2>3 DEF Live, Close
    <3>2. QED BY <2>1, <3>1 DEF IInv, NoQueueOnLetHome, DealsOn
  <2>4. QED BY <2>2, <2>3
<1>6. QED BY <1>1, <1>2, <1>3, <1>4, <1>5 DEF IInv

--------------------------------------------------------------------------------
(* A lease handler keeps the invariant when the homes it leaves let were   *)
(* let before it.                                                          *)
LEMMA LeaseStep ==
  ASSUME IInv, NEW l \in Leases, UNCHANGED <<deal, doc, agreement>>,
         Recompute({LeaseListing[l]}), lease' \in [Leases -> LeaseRows],
         \A h \in Listings : Live(lease', h) # {} => Live(lease, h) # {},
         \A k \in Leases : LeaseListing[k] # LeaseListing[l] => lease'[k] = lease[k],
         OneLiveLease'
  PROVE  IInv'
<1>1. \A h \in Listings \ {LeaseListing[l]} :
         Reserving(deal', h) = Reserving(deal, h) /\ Live(lease', h) = Live(lease, h)
  BY DEF Reserving, Live
<1>2. StatusDerived' /\ status' \in [Listings -> ListingStatuses]
  BY <1>1, RecomputeRestores DEF IInv
<1>3. TypeOK'
  BY <1>2 DEF IInv, TypeOK
<1>4. OneReservingDeal' /\ NoQueueOnLetHome'
  BY DEF IInv, OneReservingDeal, NoQueueOnLetHome
<1>5. QED BY <1>2, <1>3, <1>4 DEF IInv

LEMMA LeaseTransitionStep ==
  ASSUME IInv, NEW l \in Leases, NEW action, LeaseTransition(l, action) PROVE IInv'
<1>1. PICK to \in LeaseStatuses :
         /\ <<lease[l].status, action, to>> \in LeaseTransitions
         /\ lease' = [lease EXCEPT ![l].status = to]
  BY DEF LeaseTransition
<1>2. lease[l].status \in LeaseLiveStatuses
  BY <1>1, LeaseTableFacts
<1>3. /\ lease' \in [Leases -> LeaseRows]
      /\ \A k \in Leases \ {l} : lease'[k] = lease[k]
  BY <1>1 DEF IInv, TypeOK, LeaseRows
<1>4. \A h \in Listings : Live(lease', h) \subseteq Live(lease, h)
  BY <1>2, <1>3 DEF Live
<1>5. OneLiveLease'
  BY <1>2, <1>3 DEF IInv, OneLiveLease
<1>6. UNCHANGED <<deal, doc, agreement>> /\ Recompute({LeaseListing[l]})
  BY DEF LeaseTransition
<1>7. QED BY <1>3, <1>4, <1>5, <1>6, LeaseStep

LEMMA RenewStep ==
  ASSUME IInv, NEW l \in Leases, NEW new \in Leases, RenewLease(l, new) PROVE IInv'
<1>1. lease[l].status = "ending_soon" /\ lease[new].status = "none" /\ new # l
  BY DEF RenewLease, LeaseTransitions
<1>2. /\ lease' \in [Leases -> LeaseRows]
      /\ lease'[l].status = "renewed"
      /\ \A k \in Leases \ {l, new} : lease'[k] = lease[k]
  BY <1>1 DEF RenewLease, Renewal, IInv, TypeOK, LeaseRows, LeaseStatuses
<1>3. LeaseListing[new] = LeaseListing[l] /\ lease[l].status \in LeaseLiveStatuses
  BY <1>1 DEF RenewLease, LeaseLiveStatuses
<1>4. \A h \in Listings : Live(lease', h) # {} => Live(lease, h) # {}
  BY <1>2, <1>3 DEF Live
<1>5. OneLiveLease'
  BY <1>2, <1>3 DEF IInv, OneLiveLease, LeaseLiveStatuses
<1>6. UNCHANGED <<deal, doc, agreement>> /\ Recompute({LeaseListing[l]})
  BY DEF RenewLease
<1>7. QED BY <1>2, <1>3, <1>4, <1>5, <1>6, LeaseStep

--------------------------------------------------------------------------------
LEMMA InitIInv == Init => IInv
<1> SUFFICES ASSUME Init PROVE IInv
  OBVIOUS
<1> USE DEF Init, NoDeal
<1>1. TypeOK
  BY DEF TypeOK, LeaseRows, ListingStatuses
<1>2. OneReservingDeal /\ OneLiveLease
  BY DEF OneReservingDeal, OneLiveLease, DealReservingStates, DealOpenStates, LeaseLiveStatuses
<1>3. \A h \in Listings : Live(lease, h) = {} /\ Reserving(deal, h) = {}
  BY DEF Live, Reserving, DealsOn, LeaseLiveStatuses, DealReservingStates, DealOpenStates
<1>4. StatusDerived /\ NoQueueOnLetHome
  BY <1>3 DEF StatusDerived, NoQueueOnLetHome, Derived, DeriveListingStatus
<1>5. QED BY <1>1, <1>2, <1>4 DEF IInv

LEMMA NextIInv == IInv /\ [Next]_vars => IInv'
<1> SUFFICES ASSUME IInv, [Next]_vars PROVE IInv'
  OBVIOUS
<1>1. ASSUME NEW d \in Deals, CreateRequest(d) PROVE IInv'
  BY <1>1, CreateRequestStep
<1>2. ASSUME NEW d \in Deals, Select(d) PROVE IInv'
  BY <1>2, SelectStep
<1>3. ASSUME NEW d \in Deals, Upload(d) PROVE IInv'
  BY <1>3, UploadStep
<1>4. ASSUME NEW d \in Deals, NEW action \in PlainActions, Plain(d, action) PROVE IInv'
  BY <1>4, PlainStep
<1>5. ASSUME NEW d \in Deals, NEW verdict \in {"approved", "rejected"}, Verify(d, verdict)
      PROVE IInv'
  BY <1>5, VerifyStep
<1>6. ASSUME NEW d \in Deals, GenerateAgreement(d) \/ UploadSigned(d) \/ PurgeDocument(d)
      PROVE IInv'
  BY <1>6, PaperworkStep
<1>7. ASSUME NEW d \in Deals, NEW l \in Leases, Close(d, l) PROVE IInv'
  BY <1>7, CloseStep
<1>8. ASSUME NEW l \in Leases, MarkLeaseEndingSoon(l) \/ EndLease(l) PROVE IInv'
  BY <1>8, LeaseTransitionStep DEF MarkLeaseEndingSoon, EndLease
<1>9. ASSUME NEW l \in Leases, NEW new \in Leases, RenewLease(l, new) PROVE IInv'
  BY <1>9, RenewStep
<1>10. CASE UNCHANGED vars
  BY <1>10 DEF vars, IInv, TypeOK, OneReservingDeal, OneLiveLease, StatusDerived,
               NoQueueOnLetHome, Derived, Reserving, Live
<1>11. QED BY <1>1, <1>2, <1>3, <1>4, <1>5, <1>6, <1>7, <1>8, <1>9, <1>10 DEF Next

(* Every table keeps the shape its columns declare, for any number of rows. *)
THEOREM TypeCorrect == Spec => []TypeOK
<1>1. IInv => TypeOK
  BY DEF IInv
<1>2. QED BY <1>1, InitIInv, NextIInv, PTL DEF Spec

(* One deal at a time holds a home's active slot (select, re-upload).      *)
THEOREM ActiveSlotIsExclusive == Spec => []OneReservingDeal
<1>1. IInv => OneReservingDeal
  BY DEF IInv
<1>2. QED BY <1>1, InitIInv, NextIInv, PTL DEF Spec

(* One lease at a time is live on a home (close, renewLease).              *)
THEOREM LiveLeaseIsExclusive == Spec => []OneLiveLease
<1>1. IInv => OneLiveLease
  BY DEF IInv
<1>2. QED BY <1>1, InitIInv, NextIInv, PTL DEF Spec

(* Recomputing the touched homes is enough to keep every persisted status  *)
(* equal to its derivation (recomputeStatus).                              *)
THEOREM StatusNeverDrifts == Spec => []StatusDerived
<1>1. IInv => StatusDerived
  BY DEF IInv
<1>2. QED BY <1>1, InitIInv, NextIInv, PTL DEF Spec

(* No request waits for, and no viewing is arranged on, a home that is let. *)
THEOREM LetHomeHasNoQueue == Spec => []NoQueueOnLetHome
<1>1. IInv => NoQueueOnLetHome
  BY DEF IInv
<1>2. QED BY <1>1, InitIInv, NextIInv, PTL DEF Spec

--------------------------------------------------------------------------------
(* WHAT THE ROWS SAY ABOUT THE PAST                                        *)
(*                                                                         *)
(* The documents and the scan a state stands for, the one lease of a       *)
(* closed deal, the chain of renewals; and what no step may do: reopen a   *)
(* decided deal, or free a home without a move-out.  The last part of      *)
(* Trail is what the uniqueness of deal_id and renewed_from_lease_id rests *)
(* on: an insert overwrites no foreign key that meant something.           *)

(* A lease row that is not inserted yet refers to nothing.                 *)
BlankRows ==
  \A l \in Leases : lease[l].status = "none"
                      => lease[l].deal = NoRow /\ lease[l].renewedFrom = NoRow

Trail == /\ PaperworkMatchesState
         /\ ClosedDealHasOneLease
         /\ RenewalChains
         /\ BlankRows

--------------------------------------------------------------------------------
(* Which action enters the states that stand for a paper, and which states *)
(* have a way out.                                                         *)
LEMMA TrailTableFacts ==
  ASSUME NEW from, NEW action, NEW to, <<from, action, to>> \in DealTransitions
  PROVE  /\ to = "docs_in_review" => action \in {"submit_documents", "resubmit_documents"}
         /\ to = "approved" => action = "approve_documents"
         /\ to = "docs_rejected" => action = "reject_documents"
         /\ to = "closed" => action = "close"
         /\ action \in {"submit_documents", "resubmit_documents"} => to = "docs_in_review"
         /\ action = "approve_documents" => to = "approved"
         /\ action = "reject_documents" => to = "docs_rejected"
         /\ from \in DealTerminalStates
              => from = "docs_rejected" /\ to = "docs_in_review"
BY DEF DealTransitions, DealTerminalStates, DealStates, DealOpenStates, NoDeal

(* What PaperworkMatchesState says of one deal.                            *)
PaperFits(state, document, paper) ==
  /\ state = "docs_in_review" => document = "pending"
  /\ state \in {"approved", "closed"} => document = "approved"
  /\ state = "docs_rejected" => document \in {"rejected", "none"}
  /\ document = "pending" => state \in {"docs_in_review", "withdrawn"}
  /\ document = "approved" => state \in {"approved", "closed", "withdrawn"}
  /\ document = "rejected" => state = "docs_rejected"
  /\ paper # "none" => state \in {"approved", "closed", "withdrawn"}
  /\ state = "closed" => paper = "signed"

LEMMA PaperworkByDeal ==
  PaperworkMatchesState <=> \A d \in Deals : PaperFits(deal[d], doc[d], agreement[d])
BY DEF PaperworkMatchesState, PaperFits

LEMMA PaperworkByDealNext ==
  PaperworkMatchesState' <=> \A d \in Deals : PaperFits(deal'[d], doc'[d], agreement'[d])
BY DEF PaperworkMatchesState, PaperFits

(* A row of the table other than close, taken with the document its        *)
(* handler writes, leads from papers that fit to papers that fit.          *)
LEMMA PaperMovesAlong ==
  ASSUME NEW from, NEW action, NEW to, <<from, action, to>> \in DealTransitions,
         action # "close", NEW document, NEW next, NEW paper,
         PaperFits(from, document, paper),
         CASE action \in {"submit_documents", "resubmit_documents"} -> next = "pending"
           [] action = "approve_documents" -> next = "approved"
           [] action = "reject_documents" -> next = "rejected"
           [] OTHER -> next = document
  PROVE  PaperFits(to, next, paper)
<1>1. CASE action = "withdraw"
  <2>1. from \in DealOpenStates /\ to = "withdrawn" /\ next = document
    BY <1>1 DEF DealTransitions, NoDeal
  <2>2. QED BY <2>1 DEF PaperFits, DealOpenStates
<1>2. CASE action \in {"submit_documents", "resubmit_documents"}
  <2>1. from \in {"awaiting_docs", "docs_rejected"} /\ to = "docs_in_review" /\ next = "pending"
    BY <1>2 DEF DealTransitions
  <2>2. QED BY <2>1 DEF PaperFits
<1>3. CASE action = "approve_documents"
  <2>1. from = "docs_in_review" /\ to = "approved" /\ next = "approved"
    BY <1>3 DEF DealTransitions
  <2>2. QED BY <2>1 DEF PaperFits
<1>4. CASE action = "reject_documents"
  <2>1. from = "docs_in_review" /\ to = "docs_rejected" /\ next = "rejected"
    BY <1>4 DEF DealTransitions
  <2>2. QED BY <2>1 DEF PaperFits
<1>5. CASE action \notin {"withdraw", "submit_documents", "resubmit_documents",
                         "approve_documents", "reject_documents"}
  <2>1. /\ from \in {NoDeal, "requested", "viewing_scheduled"} /\ next = document
        /\ to \notin {"docs_in_review", "approved", "docs_rejected", "closed"}
    BY <1>5 DEF DealTransitions, NoDeal
  <2>2. QED BY <2>1 DEF PaperFits, NoDeal
<1>6. QED BY <1>1, <1>2, <1>3, <1>4, <1>5

(* Leases and their links are untouched, and no deal enters or leaves      *)
(* `closed'.                                                               *)
LEMMA LeasesUntouched ==
  ASSUME Trail, UNCHANGED lease,
         \A d \in Deals : deal'[d] = "closed" <=> deal[d] = "closed"
  PROVE  ClosedDealHasOneLease' /\ RenewalChains' /\ BlankRows'
BY DEF Trail, ClosedDealHasOneLease, RenewalChains, BlankRows

(* A transition other than close keeps the trail when the deal's document  *)
(* follows its state.                                                      *)
LEMMA TransitionKeepsTrail ==
  ASSUME IInv, Trail, NEW d \in Deals, NEW action, Transition(d, action),
         action # "close", UNCHANGED agreement,
         \A e \in Deals \ {d} : doc'[e] = doc[e],
         CASE action \in {"submit_documents", "resubmit_documents"} -> doc'[d] = "pending"
           [] action = "approve_documents" -> doc'[d] = "approved"
           [] action = "reject_documents" -> doc'[d] = "rejected"
           [] OTHER -> doc'[d] = doc[d]
  PROVE  Trail'
<1>1. /\ \A e \in Deals \ {d} : deal'[e] = deal[e]
      /\ <<deal[d], action, deal'[d]>> \in DealTransitions
      /\ lease' = lease
  BY TransitionFacts DEF IInv
<1>2. deal'[d] # "closed" /\ deal[d] # "closed"
  BY <1>1, TrailTableFacts, DealTableFacts
<1>3. PaperworkMatchesState'
  <2> SUFFICES ASSUME NEW e \in Deals
               PROVE  PaperFits(deal'[e], doc'[e], agreement'[e])
    BY PaperworkByDealNext
  <2>1. PaperFits(deal[e], doc[e], agreement[e])
    BY PaperworkByDeal DEF Trail
  <2>2. CASE e = d
    <3>1. PaperFits(deal'[d], doc'[d], agreement[d])
      BY <1>1, <2>1, <2>2, PaperMovesAlong
    <3>2. QED BY <2>2, <3>1
  <2>3. CASE e # d
    BY <1>1, <2>1, <2>3
  <2>4. QED BY <2>2, <2>3
<1>4. ClosedDealHasOneLease' /\ RenewalChains' /\ BlankRows'
  BY <1>1, <1>2, LeasesUntouched
<1>5. QED BY <1>3, <1>4 DEF Trail

(* The handlers that move a deal and nothing else, and those that move it  *)
(* with its document.                                                      *)
LEMMA DealStepKeepsTrail ==
  ASSUME IInv, Trail, NEW d \in Deals,
         \/ CreateRequest(d) \/ Select(d) \/ Upload(d)
         \/ \E action \in PlainActions : Plain(d, action)
         \/ \E verdict \in {"approved", "rejected"} : Verify(d, verdict)
  PROVE  Trail'
<1>1. CASE CreateRequest(d)
  BY <1>1, TransitionKeepsTrail DEF CreateRequest
<1>2. CASE Select(d)
  BY <1>2, TransitionKeepsTrail DEF Select
<1>3. ASSUME NEW action \in PlainActions, Plain(d, action) PROVE Trail'
  BY <1>3, TransitionKeepsTrail DEF Plain, PlainActions
<1>4. CASE Upload(d)
  <2>1. /\ UNCHANGED agreement /\ doc'[d] = "pending"
        /\ \A e \in Deals \ {d} : doc'[e] = doc[e]
    BY <1>4 DEF Upload, IInv, TypeOK
  <2>2. Transition(d, "submit_documents") \/ Transition(d, "resubmit_documents")
    BY <1>4 DEF Upload
  <2>3. QED BY <2>1, <2>2, TransitionKeepsTrail
<1>5. ASSUME NEW verdict \in {"approved", "rejected"}, Verify(d, verdict) PROVE Trail'
  <2>1. /\ UNCHANGED agreement /\ doc'[d] = verdict
        /\ \A e \in Deals \ {d} : doc'[e] = doc[e]
    BY <1>5 DEF Verify, IInv, TypeOK
  <2>2. \/ Transition(d, "approve_documents") /\ verdict = "approved"
        \/ Transition(d, "reject_documents") /\ verdict = "rejected"
    BY <1>5 DEF Verify
  <2>3. QED BY <2>1, <2>2, TransitionKeepsTrail
<1>6. QED BY <1>1, <1>2, <1>3, <1>4, <1>5

(* A generated or a signed paper, and a purged photo: generating voids the *)
(* scan of an approved deal only, and the purge spares closed deals.       *)
LEMMA PaperworkKeepsTrail ==
  ASSUME IInv, Trail, NEW d \in Deals,
         GenerateAgreement(d) \/ UploadSigned(d) \/ PurgeDocument(d)
  PROVE  Trail'
<1>1. deal' = deal /\ lease' = lease
  BY DEF GenerateAgreement, UploadSigned, PurgeDocument
<1>2. PaperworkMatchesState'
  <2>1. CASE GenerateAgreement(d)
    BY <1>1, <2>1 DEF GenerateAgreement, Trail, PaperworkMatchesState, IInv, TypeOK
  <2>2. CASE UploadSigned(d)
    BY <1>1, <2>2 DEF UploadSigned, Trail, PaperworkMatchesState, IInv, TypeOK
  <2>3. CASE PurgeDocument(d)
    <3>1. deal[d] \notin {"docs_in_review", "approved", "closed"}
      BY <2>3 DEF PurgeDocument, PurgeDealStates, DealTerminalStates, DealStates, DealOpenStates
    <3>2. doc' = [doc EXCEPT ![d] = "none"] /\ agreement' = agreement
      BY <2>3 DEF PurgeDocument
    <3>3. QED BY <1>1, <3>1, <3>2 DEF Trail, PaperworkMatchesState, IInv, TypeOK
  <2>4. QED BY <2>1, <2>2, <2>3
<1>3. QED BY <1>1, <1>2, LeasesUntouched DEF Trail

--------------------------------------------------------------------------------
(* close() gives its deal the one lease, into a row that meant nothing.    *)
LEMMA CloseKeepsTrail ==
  ASSUME IInv, Trail, NEW d \in Deals, NEW l \in Leases, Close(d, l) PROVE Trail'
<1>1. /\ deal[d] = "approved" /\ deal'[d] = "closed"
      /\ \A k \in Leases \ {l} : lease'[k] = lease[k]
  BY CloseFacts
<1>2. /\ lease[l].status = "none" /\ \A k \in Leases : lease[k].deal # d
      /\ agreement[d] = "signed" /\ UNCHANGED <<doc, agreement>>
      /\ lease'[l] = [status |-> "active", deal |-> d, renewedFrom |-> NoRow]
  BY DEF Close, IInv, TypeOK
<1>3. \A e \in Deals \ {d} :
         deal'[e] # deal[e] => \/ deal[e] = "requested" /\ deal'[e] = "expired"
                               \/ deal[e] \in DealOpenStates /\ deal'[e] = "withdrawn"
  BY DEF Close, Queued, SignedElsewhere
<1>4. PaperworkMatchesState'
  <2> SUFFICES ASSUME NEW e \in Deals
               PROVE  PaperFits(deal'[e], doc[e], agreement[e])
    BY <1>2, PaperworkByDealNext
  <2>1. PaperFits(deal[e], doc[e], agreement[e])
    BY PaperworkByDeal DEF Trail
  <2>2. CASE e = d
    BY <1>1, <1>2, <2>1, <2>2 DEF PaperFits
  <2>3. CASE e # d
    BY <1>3, <2>1, <2>3 DEF PaperFits, DealOpenStates
  <2>4. QED BY <2>2, <2>3
<1>5. NoRow \notin Deals /\ lease[l].deal = NoRow
  BY <1>2, DealLifecycleAssumption DEF Trail, BlankRows
<1>6. ClosedDealHasOneLease'
  <2> SUFFICES ASSUME NEW e \in Deals
               PROVE  /\ deal'[e] = "closed" <=> \E k \in Leases : lease'[k].deal = e
                      /\ \A j, k \in Leases :
                            lease'[j].deal = e /\ lease'[k].deal = e => j = k
    BY DEF ClosedDealHasOneLease
  <2>1. CASE e = d
    BY <1>1, <1>2, <2>1
  <2>2. CASE e # d
    <3>1. \A k \in Leases : lease'[k].deal = e <=> lease[k].deal = e
      BY <1>1, <1>2, <1>5, <2>2
    <3>2. deal'[e] = "closed" <=> deal[e] = "closed"
      BY <1>3, <2>2 DEF DealOpenStates
    <3>3. QED BY <3>1, <3>2 DEF Trail, ClosedDealHasOneLease
  <2>3. QED BY <2>1, <2>2
<1>7. RenewalChains'
  <2>1. /\ NoRow \notin Leases /\ lease[l].renewedFrom = NoRow
        /\ \A k, j \in Leases : lease'[k].renewedFrom = j <=> lease[k].renewedFrom = j
    BY <1>1, <1>2, DealLifecycleAssumption DEF Trail, BlankRows
  <2>2. \A k \in Leases : /\ lease'[k].status = "renewed" <=> lease[k].status = "renewed"
                          /\ lease'[k].status = "none" => lease[k].status = "none"
    BY <1>1, <1>2
  <2>3. QED BY <2>1, <2>2 DEF Trail, RenewalChains
<1>8. BlankRows'
  BY <1>1, <1>2 DEF Trail, BlankRows
<1>9. QED BY <1>4, <1>6, <1>7, <1>8 DEF Trail

(* The ending-soon timer and a move-out never touch a renewed lease.       *)
LEMMA LeaseTransitionKeepsTrail ==
  ASSUME IInv, Trail, NEW l \in Leases, MarkLeaseEndingSoon(l) \/ EndLease(l)
  PROVE  Trail'
<1>1. PICK to \in {"ending_soon", "vacated"} :
         lease[l].status \in LeaseLiveStatuses /\ lease' = [lease EXCEPT ![l].status = to]
  BY DEF MarkLeaseEndingSoon, EndLease, LeaseTransition, LeaseTransitions, LeaseLiveStatuses
<1>2. /\ \A k \in Leases \ {l} : lease'[k] = lease[k]
      /\ lease'[l].status = to
      /\ \A k \in Leases : /\ lease'[k].deal = lease[k].deal
                           /\ lease'[k].renewedFrom = lease[k].renewedFrom
      /\ lease[l].status \notin {"none", "renewed"}
  BY <1>1 DEF IInv, TypeOK, LeaseRows, LeaseLiveStatuses
<1>3. UNCHANGED <<deal, doc, agreement>>
  BY DEF MarkLeaseEndingSoon, EndLease, LeaseTransition
<1>4. PaperworkMatchesState' /\ ClosedDealHasOneLease'
  BY <1>2, <1>3 DEF Trail, PaperworkMatchesState, ClosedDealHasOneLease
<1>5. \A k \in Leases : /\ lease'[k].status = "renewed" <=> lease[k].status = "renewed"
                        /\ lease'[k].status = "none" <=> lease[k].status = "none"
  BY <1>2
<1>6. RenewalChains' /\ BlankRows'
  BY <1>2, <1>5 DEF Trail, RenewalChains, BlankRows
<1>7. QED BY <1>4, <1>6 DEF Trail

(* A renewal appends to its chain.                                         *)
LEMMA RenewKeepsTrail ==
  ASSUME IInv, Trail, NEW l \in Leases, NEW new \in Leases, RenewLease(l, new)
  PROVE  Trail'
<1>1. lease[l].status = "ending_soon" /\ lease[new].status = "none" /\ new # l
  BY DEF RenewLease, LeaseTransitions
<1>2. /\ \A k \in Leases \ {l, new} : lease'[k] = lease[k]
      /\ lease'[new] = [status |-> "active", deal |-> NoRow, renewedFrom |-> l]
      /\ lease'[l].status = "renewed"
      /\ lease'[l].deal = lease[l].deal /\ lease'[l].renewedFrom = lease[l].renewedFrom
      /\ LeaseListing[new] = LeaseListing[l]
      /\ UNCHANGED <<deal, doc, agreement>>
  BY <1>1 DEF RenewLease, Renewal, IInv, TypeOK, LeaseRows
<1>3. /\ lease[new].deal = NoRow /\ lease[new].renewedFrom = NoRow
      /\ NoRow \notin Deals /\ NoRow \notin Leases
  BY <1>1, DealLifecycleAssumption DEF Trail, BlankRows
<1>4. ClosedDealHasOneLease'
  <2>1. \A d \in Deals, k \in Leases : lease'[k].deal = d <=> lease[k].deal = d
    BY <1>2, <1>3
  <2>2. QED BY <1>2, <2>1 DEF Trail, ClosedDealHasOneLease
<1>5. RenewalChains'
  <2>1. \A j \in Leases, k \in Leases \ {new} :
           lease'[k].renewedFrom = j <=> lease[k].renewedFrom = j
    BY <1>2
  <2>2. \A j \in Leases : lease[new].renewedFrom # j /\ lease[j].renewedFrom # new
    BY <1>1, <1>3 DEF Trail, RenewalChains
  <2>3. \A k \in Leases : lease[k].renewedFrom # l
    BY <1>1 DEF Trail, RenewalChains
  <2>4. ASSUME NEW j \in Leases
        PROVE  /\ lease'[j].status = "renewed" <=> \E k \in Leases : lease'[k].renewedFrom = j
               /\ \A k \in Leases : lease'[k].renewedFrom = j =>
                    k # j /\ LeaseListing[k] = LeaseListing[j] /\ lease'[k].status # "none"
    <3>1. CASE j = l
      BY <1>1, <1>2, <2>1, <2>3, <3>1
    <3>2. CASE j # l
      <4>1. \A k \in Leases : lease'[k].renewedFrom = j <=> lease[k].renewedFrom = j
        BY <1>2, <2>1, <2>2, <3>2
      <4>2. lease'[j].status = "renewed" <=> lease[j].status = "renewed"
        BY <1>1, <1>2, <3>2
      <4>3. \A k \in Leases : lease[k].status # "none" => lease'[k].status # "none"
        BY <1>2
      <4>4. QED BY <4>1, <4>2, <4>3 DEF Trail, RenewalChains
    <3>3. QED BY <3>1, <3>2
  <2>5. QED BY <2>4 DEF RenewalChains
<1>6. PaperworkMatchesState' /\ BlankRows'
  BY <1>1, <1>2 DEF Trail, PaperworkMatchesState, BlankRows
<1>7. QED BY <1>4, <1>5, <1>6 DEF Trail

--------------------------------------------------------------------------------
LEMMA InitTrail == Init => Trail
<1> SUFFICES ASSUME Init PROVE Trail
  OBVIOUS
<1>1. PaperworkMatchesState /\ BlankRows
  BY DEF Init, NoDeal, PaperworkMatchesState, BlankRows
<1>2. ClosedDealHasOneLease /\ RenewalChains
  BY DealLifecycleAssumption DEF Init, NoDeal, ClosedDealHasOneLease, RenewalChains
<1>3. QED BY <1>1, <1>2 DEF Trail

LEMMA NextTrail == IInv /\ Trail /\ [Next]_vars => Trail'
<1> SUFFICES ASSUME IInv, Trail, [Next]_vars PROVE Trail'
  OBVIOUS
<1>1. ASSUME NEW d \in Deals,
             \/ CreateRequest(d) \/ Select(d) \/ Upload(d)
             \/ \E action \in PlainActions : Plain(d, action)
             \/ \E verdict \in {"approved", "rejected"} : Verify(d, verdict)
      PROVE Trail'
  BY <1>1, DealStepKeepsTrail
<1>2. ASSUME NEW d \in Deals, GenerateAgreement(d) \/ UploadSigned(d) \/ PurgeDocument(d)
      PROVE Trail'
  BY <1>2, PaperworkKeepsTrail
<1>3. ASSUME NEW d \in Deals, NEW l \in Leases, Close(d, l) PROVE Trail'
  BY <1>3, CloseKeepsTrail
<1>4. ASSUME NEW l \in Leases, MarkLeaseEndingSoon(l) \/ EndLease(l) PROVE Trail'
  BY <1>4, LeaseTransitionKeepsTrail
<1>5. ASSUME NEW l \in Leases, NEW new \in Leases, RenewLease(l, new) PROVE Trail'
  BY <1>5, RenewKeepsTrail
<1>6. CASE UNCHANGED vars
  BY <1>6 DEF vars, Trail, PaperworkMatchesState, ClosedDealHasOneLease, RenewalChains, BlankRows
<1>7. QED BY <1>1, <1>2, <1>3, <1>4, <1>5, <1>6 DEF Next

LEMMA TrailInvariant == Spec => [](IInv /\ Trail)
BY InitIInv, NextIInv, InitTrail, NextTrail, PTL DEF Spec

(* The documents and the scan agree with the state of their deal (upload,  *)
(* verify, generate, uploadSigned, close, the purge).                      *)
THEOREM PaperworkAgrees == Spec => []PaperworkMatchesState
<1>1. IInv /\ Trail => PaperworkMatchesState
  BY DEF Trail
<1>2. QED BY <1>1, TrailInvariant, PTL

(* A closed deal has the one lease close() created, and no other has one.  *)
THEOREM ClosedDealKeepsItsLease == Spec => []ClosedDealHasOneLease
<1>1. IInv /\ Trail => ClosedDealHasOneLease
  BY DEF Trail
<1>2. QED BY <1>1, TrailInvariant, PTL

(* Renewals never fork: renewLease continues each lease once.              *)
THEOREM RenewalsFormChains == Spec => []RenewalChains
<1>1. IInv /\ Trail => RenewalChains
  BY DEF Trail
<1>2. QED BY <1>1, TrailInvariant, PTL

--------------------------------------------------------------------------------
(* No row of the table leaves a decided state but the re-upload, and what  *)
(* close() takes along was open.                                           *)
LEMMA StepKeepsDecisions ==
  ASSUME IInv, Next, NEW d \in Deals, deal[d] \in DealTerminalStates, deal'[d] # deal[d]
  PROVE  deal[d] = "docs_rejected" /\ deal'[d] = "docs_in_review"
<1>1. ASSUME NEW e \in Deals, NEW action, Transition(e, action)
      PROVE  deal[d] = "docs_rejected" /\ deal'[d] = "docs_in_review"
  <2>1. e = d /\ <<deal[d], action, deal'[d]>> \in DealTransitions
    BY <1>1, TransitionFacts DEF IInv
  <2>2. QED BY <2>1, TrailTableFacts
<1>2. ASSUME NEW e \in Deals,
             \/ CreateRequest(e) \/ Select(e) \/ Upload(e)
             \/ \E action \in PlainActions : Plain(e, action)
             \/ \E verdict \in {"approved", "rejected"} : Verify(e, verdict)
      PROVE  \E action : Transition(e, action)
  BY <1>2 DEF CreateRequest, Select, Upload, Plain, Verify
<1>3. ASSUME NEW e \in Deals, NEW l \in Leases, Close(e, l) PROVE FALSE
  <2>1. deal[e] = "approved"
    BY <1>3, CloseFacts
  <2>2. d = e \/ d \in Queued(e) \/ d \in SignedElsewhere(e)
    BY <1>3 DEF Close
  <2>3. deal[d] \in DealOpenStates
    BY <2>1, <2>2 DEF Queued, SignedElsewhere, DealOpenStates
  <2>4. QED BY <2>3 DEF DealTerminalStates
<1>4. ASSUME NEW e \in Deals, GenerateAgreement(e) \/ UploadSigned(e) \/ PurgeDocument(e)
      PROVE  FALSE
  BY <1>4 DEF GenerateAgreement, UploadSigned, PurgeDocument
<1>5. ASSUME NEW l \in Leases,
             \/ MarkLeaseEndingSoon(l) \/ EndLease(l)
             \/ \E new \in Leases : RenewLease(l, new)
      PROVE  FALSE
  BY <1>5 DEF MarkLeaseEndingSoon, EndLease, LeaseTransition, RenewLease
<1>6. QED BY <1>1, <1>2, <1>3, <1>4, <1>5 DEF Next

(* Decisions stay, whatever row, timer or close comes after them.          *)
THEOREM DecisionsStay == Spec => DecidedStaysDecided
<1> DEFINE Stays == \A d \in Deals :
              deal[d] \in DealTerminalStates /\ deal'[d] # deal[d]
                => deal[d] = "docs_rejected" /\ deal'[d] = "docs_in_review"
<1>1. IInv /\ [Next]_vars => [Stays]_vars
  BY StepKeepsDecisions
<1>2. QED BY <1>1, InitIInv, NextIInv, PTL DEF Spec, DecidedStaysDecided

(* A home that loses its last live lease loses it to a move-out.           *)
LEMMA StepFreesByMoveOut ==
  ASSUME IInv, Next, NEW h \in Listings, Live(lease, h) # {}, Live(lease', h) = {}
  PROVE  \E l \in Leases : /\ LeaseListing[l] = h
                           /\ lease[l].status \in LeaseLiveStatuses
                           /\ lease'[l].status = "vacated"
<1>1. PICK k \in Leases : LeaseListing[k] = h /\ lease[k].status \in LeaseLiveStatuses
  BY DEF Live
<1>2. lease'[k].status \notin LeaseLiveStatuses
  BY <1>1 DEF Live
<1>3. ASSUME NEW d \in Deals, NEW l \in Leases, Close(d, l) PROVE FALSE
  BY <1>1, <1>2, <1>3, CloseFacts DEF LeaseLiveStatuses
<1>4. ASSUME NEW l \in Leases, MarkLeaseEndingSoon(l) PROVE FALSE
  BY <1>1, <1>2, <1>4 DEF MarkLeaseEndingSoon, LeaseTransition, LeaseTransitions,
                          LeaseLiveStatuses, IInv, TypeOK, LeaseRows
<1>5. ASSUME NEW l \in Leases, EndLease(l) PROVE k = l /\ lease'[k].status = "vacated"
  BY <1>1, <1>2, <1>5 DEF EndLease, LeaseTransition, LeaseTransitions, IInv, TypeOK, LeaseRows
<1>6. ASSUME NEW l \in Leases, NEW new \in Leases, RenewLease(l, new) PROVE FALSE
  <2>1. /\ lease'[new].status = "active" /\ LeaseListing[new] = LeaseListing[l]
        /\ \A j \in Leases \ {l, new} : lease'[j] = lease[j]
    BY <1>6 DEF RenewLease, Renewal, IInv, TypeOK, LeaseRows
  <2>2. QED BY <1>1, <1>2, <2>1 DEF Live, LeaseLiveStatuses
<1>7. ASSUME NEW d \in Deals,
             \/ CreateRequest(d) \/ Select(d) \/ Upload(d)
             \/ \E action \in PlainActions : Plain(d, action)
             \/ \E verdict \in {"approved", "rejected"} : Verify(d, verdict)
             \/ GenerateAgreement(d) \/ UploadSigned(d) \/ PurgeDocument(d)
      PROVE  FALSE
  BY <1>1, <1>2, <1>7 DEF CreateRequest, Select, Upload, Plain, Verify, GenerateAgreement,
                          UploadSigned, PurgeDocument, Transition
<1>8. QED BY <1>1, <1>3, <1>4, <1>5, <1>6, <1>7 DEF Next

(* Only a move-out takes a home off `rented' (endLease, recomputeStatus).  *)
THEOREM HomesAreFreedByMoveOut == Spec => OnlyMoveOutFreesHome
<1> DEFINE Frees == \A h \in Listings : status[h] = "rented" /\ status'[h] # "rented"
              => \E l \in Leases : /\ LeaseListing[l] = h
                                   /\ lease[l].status \in LeaseLiveStatuses
                                   /\ lease'[l].status = "vacated"
<1>1. ASSUME IInv, IInv', Next PROVE Frees
  <2> SUFFICES ASSUME NEW h \in Listings, status[h] = "rented", status'[h] # "rented"
               PROVE  \E l \in Leases : /\ LeaseListing[l] = h
                                        /\ lease[l].status \in LeaseLiveStatuses
                                        /\ lease'[l].status = "vacated"
    OBVIOUS
  <2>1. Live(lease, h) # {} /\ Live(lease', h) = {}
    BY <1>1 DEF IInv, StatusDerived, Derived, DeriveListingStatus
  <2>2. QED BY <1>1, <2>1, StepFreesByMoveOut
<1>2. IInv /\ IInv' /\ [Next]_vars => [Frees]_vars
  BY <1>1
<1>3. QED BY <1>2, InitIInv, NextIInv, PTL DEF Spec, OnlyMoveOutFreesHome

--------------------------------------------------------------------------------
(* THE PAGES                                                               *)

(* What a kept answer is known to show, however old it is: rows of the     *)
(* tables, in a queue those of its home, and only pages that its reader    *)
(* may open.                                                               *)
ShowsRows(k, shown) ==
  /\ k[1] = "my-requests" => DOMAIN shown \subseteq Deals
  /\ k[1] = "queue" => shown.queue \subseteq DealsOn(k[2])
  /\ k[1] = "tenancies" => DOMAIN shown \subseteq Leases
  /\ k[1] = "deal" => shown.agreement \in {"none", "generated", "signed"}

ReadersPage(k) ==
  /\ k[1] \in {"my-requests", "public-listing"} => user \in Customers
  /\ k[1] \notin {"deal", "my-requests", "public-listing"} => user \in Desks

KeptIsReadable == \A k \in Kept : ShowsRows(k, cache[k]) /\ ReadersPage(k)

BrowserInv ==
  /\ cache = [k \in Visits |-> cache[k]]
  /\ KeptIsReadable

LEMMA AnswersShowRows ==
  ASSUME TypeOK, NEW p, NEW k \in Visits
  PROVE  ShowsRows(k, Answer(p, k))
<1>1. CASE k[1] = "my-requests"
  BY <1>1 DEF ShowsRows, Answer, MyRequests
<1>2. CASE k[1] = "queue"
  <2>1. Answer(p, k) = ListingQueue(k[2])
    BY <1>2 DEF Answer
  <2>2. QED BY <1>2, <2>1 DEF ShowsRows, ListingQueue, DealsOn
<1>3. CASE k[1] = "tenancies"
  BY <1>3 DEF ShowsRows, Answer, Tenancies, LiveLeases
<1>4. CASE k[1] = "deal"
  <2>1. k[2] \in Deals
    BY <1>4, DealPagesAssumption
  <2>2. Answer(p, k) = DealForParty(k[2])
    BY <1>4 DEF Answer
  <2>3. QED BY <1>4, <2>1, <2>2 DEF ShowsRows, DealForParty, TypeOK
<1>5. QED BY <1>1, <1>2, <1>3, <1>4 DEF ShowsRows

LEMMA AnswersShowRowsNext ==
  ASSUME TypeOK', NEW p, NEW k \in Visits
  PROVE  ShowsRows(k, Answer(p, k)')
<1>1. CASE k[1] = "my-requests"
  BY <1>1 DEF ShowsRows, Answer, MyRequests
<1>2. CASE k[1] = "queue"
  <2>1. Answer(p, k)' = ListingQueue(k[2])'
    BY <1>2 DEF Answer
  <2>2. QED BY <1>2, <2>1 DEF ShowsRows, ListingQueue, DealsOn
<1>3. CASE k[1] = "tenancies"
  BY <1>3 DEF ShowsRows, Answer, Tenancies, LiveLeases
<1>4. CASE k[1] = "deal"
  <2>1. k[2] \in Deals
    BY <1>4, DealPagesAssumption
  <2>2. Answer(p, k)' = DealForParty(k[2])'
    BY <1>4 DEF Answer
  <2>3. QED BY <1>4, <2>1, <2>2 DEF ShowsRows, DealForParty, TypeOK
<1>5. QED BY <1>1, <1>2, <1>3, <1>4 DEF ShowsRows

(* A button of a kept page calls for a row of the table that its call is   *)
(* about.                                                                  *)
RowCall(call) ==
  /\ call[1] \in {"end", "renew"} => call[2] \in Leases
  /\ call[1] \notin {"end", "renew", "request"} => call[2] \in Deals

LEMMA ButtonsCallRows ==
  ASSUME NEW page \in Visits, KeptIsReadable, NEW call \in Buttons(page)
  PROVE  /\ page \in Kept
         /\ RowCall(call)
         /\ page[1] \in {"my-requests", "public-listing", "deal", "queue", "tenancies"}
<1>1. cache[page] # Nothing /\ call \in Offers(user, page, cache[page])
  BY DEF Buttons
<1>2. page \in Kept
  BY <1>1 DEF Kept
<1>3. ShowsRows(page, cache[page])
  BY <1>2 DEF KeptIsReadable
<1>4. CASE page[1] = "my-requests"
  BY <1>1, <1>2, <1>3, <1>4 DEF Offers, RequestOffers, ShowsRows, RowCall
<1>5. CASE page[1] = "public-listing"
  BY <1>1, <1>2, <1>5 DEF Offers, ListingOffers, RowCall
<1>6. CASE page[1] = "queue"
  <2>1. call \in QueueOffers(cache[page])
    BY <1>1, <1>6 DEF Offers
  <2>2. QED BY <1>2, <1>3, <1>6, <2>1 DEF QueueOffers, ShowsRows, RowCall, DealsOn
<1>7. CASE page[1] = "tenancies"
  <2>1. call \in TenancyOffers(cache[page])
    BY <1>1, <1>7 DEF Offers
  <2>2. QED BY <1>2, <1>3, <1>7, <2>1 DEF TenancyOffers, ShowsRows, RowCall
<1>8. CASE page[1] = "deal"
  <2>1. page[2] \in Deals
    BY <1>8, DealPagesAssumption
  <2>2. \/ call \in TrackerOffers(page[2], cache[page])
        \/ call \in ViewingOffers(page[2], cache[page])
        \/ call \in ReviewOffers(user, page[2], cache[page])
        \/ call \in ClosingOffers(page[2], cache[page])
    BY <1>1, <1>8 DEF Offers
  <2>3. call[2] = page[2] /\ call[1] \notin {"end", "renew"}
    <3>1. CASE call \in TrackerOffers(page[2], cache[page])
      BY <3>1 DEF TrackerOffers
    <3>2. CASE call \in ViewingOffers(page[2], cache[page])
      BY <3>2 DEF ViewingOffers
    <3>3. CASE call \in ReviewOffers(user, page[2], cache[page])
      BY <3>3 DEF ReviewOffers
    <3>4. CASE call \in ClosingOffers(page[2], cache[page])
      <4>1. cache[page].agreement \in {"none", "generated", "signed"}
        BY <1>3, <1>8 DEF ShowsRows
      <4>2. QED BY <3>4, <4>1 DEF ClosingOffers
    <3>5. QED BY <2>2, <3>1, <3>2, <3>3, <3>4
  <2>4. QED BY <1>2, <1>8, <2>1, <2>3 DEF RowCall
<1>9. CASE page[1] \notin {"my-requests", "public-listing", "deal", "queue", "tenancies"}
  BY <1>1, <1>9 DEF Offers
<1>10. QED BY <1>4, <1>5, <1>6, <1>7, <1>8, <1>9

(* Whatever the pages call for is a step of the engine.                    *)
LEMMA ServeIsNext ==
  ASSUME NEW p, NEW call, RowCall(call), Serve(p, call)
  PROVE  Next
<1>1. CASE ServeCustomer(p, call[1], call[2])
  <2>1. ASSUME NEW d \in DealsOn(call[2]), CreateRequest(d) PROVE Next
    BY <2>1 DEF DealsOn, Next
  <2>2. CASE call[1] = "withdraw" /\ Plain(call[2], "withdraw")
    BY <2>2 DEF RowCall, Next, PlainActions
  <2>3. CASE call[1] = "upload" /\ Upload(call[2])
    BY <2>3 DEF RowCall, Next
  <2>4. QED BY <1>1, <2>1, <2>2, <2>3 DEF ServeCustomer
<1>2. CASE ServeDesk(p, call[1], call[2])
  <2>1. CASE call[1] = "select" /\ Select(call[2])
    BY <2>1 DEF RowCall, Next
  <2>2. CASE /\ call[1] \in {"decline_request", "reschedule_viewing", "record_proceeding",
                             "record_declined", "record_no_show"}
             /\ Plain(call[2], call[1])
    BY <2>2 DEF RowCall, Next, PlainActions
  <2>3. CASE call[1] = "approve" /\ Verify(call[2], "approved")
    BY <2>3 DEF RowCall, Next
  <2>4. CASE call[1] = "reject" /\ Verify(call[2], "rejected")
    BY <2>4 DEF RowCall, Next
  <2>5. CASE call[1] = "generate" /\ GenerateAgreement(call[2])
    BY <2>5 DEF RowCall, Next
  <2>6. CASE call[1] = "sign" /\ UploadSigned(call[2])
    BY <2>6 DEF RowCall, Next
  <2>7. CASE call[1] = "close" /\ \E l \in Leases : Close(call[2], l)
    BY <2>7 DEF RowCall, Next
  <2>8. QED BY <1>2, <2>1, <2>2, <2>3, <2>4, <2>5, <2>6, <2>7 DEF ServeDesk
<1>3. CASE ServeTenancy(call[1], call[2])
  BY <1>3 DEF ServeTenancy, RowCall, Next
<1>4. QED BY <1>1, <1>2, <1>3 DEF Serve

--------------------------------------------------------------------------------
LEMMA InitBrowser == PagesInit => BrowserInv
BY DEF PagesInit, BrowserInv, KeptIsReadable, Kept

LEMMA DrawKeepsBrowser ==
  ASSUME TypeOK, BrowserInv, NEW k \in Visits, Draw(k) \/ Drop(k)
  PROVE  BrowserInv'
<1>1. PICK shown : /\ cache' = [cache EXCEPT ![k] = shown]
                   /\ shown # Nothing => ShowsRows(k, shown) /\ ReadersPage(k)
  <2>1. CASE Drop(k)
    BY <2>1 DEF Drop
  <2>2. CASE Draw(k)
    <3>1. ReadersPage(k)
      BY <2>2 DEF Draw, MayOpen, ReadersPage
    <3>2. QED BY <2>2, <3>1, AnswersShowRows DEF Draw
  <2>3. QED BY <2>1, <2>2
<1>2. user' = user
  BY DEF Draw, Drop
<1>3. cache' = [x \in Visits |-> cache'[x]] /\ \A x \in Visits \ {k} : cache'[x] = cache[x]
  BY <1>1 DEF BrowserInv
<1>4. cache'[k] = shown
  BY <1>1 DEF BrowserInv
<1>5. ASSUME NEW x \in Visits, cache'[x] # Nothing
      PROVE  ShowsRows(x, cache'[x]) /\ ReadersPage(x)'
  <2>1. ShowsRows(x, cache'[x]) /\ ReadersPage(x)
    <3>1. CASE x = k
      BY <1>1, <1>4, <1>5, <3>1
    <3>2. CASE x # k
      BY <1>3, <1>5, <3>2 DEF BrowserInv, KeptIsReadable, Kept
    <3>3. QED BY <3>1, <3>2
  <2>2. QED BY <1>2, <2>1 DEF ReadersPage
<1>6. KeptIsReadable'
  BY <1>5 DEF KeptIsReadable, Kept
<1>7. QED BY <1>3, <1>6 DEF BrowserInv

(* What an answered call renews is read by the same person.                *)
LEMMA PressKeepsBrowser ==
  ASSUME TypeOK', BrowserInv, NEW page \in Visits, NEW call \in Buttons(page), Press(page, call)
  PROVE  BrowserInv'
<1> DEFINE renewed == Refreshes(page)
<1>1. /\ user' = user
      /\ cache' = [k \in Visits |->
                    IF k \in renewed /\ cache[k] # Nothing
                    THEN IF Shown(page, k) THEN Answer(user, k)' ELSE Nothing
                    ELSE cache[k]]
  BY DEF Press
<1>2. ASSUME NEW x \in Visits, cache'[x] # Nothing
      PROVE  ShowsRows(x, cache'[x]) /\ ReadersPage(x)'
  <2>1. x \in Kept
    BY <1>1, <1>2 DEF Kept
  <2>2. cache'[x] = Answer(user, x)' \/ cache'[x] = cache[x]
    BY <1>1, <1>2
  <2>3. ShowsRows(x, cache'[x])
    BY <2>1, <2>2, AnswersShowRowsNext DEF BrowserInv, KeptIsReadable
  <2>4. QED BY <1>1, <2>1, <2>3 DEF BrowserInv, KeptIsReadable, ReadersPage
<1>3. KeptIsReadable'
  BY <1>2 DEF KeptIsReadable, Kept
<1>4. cache' = [k \in Visits |-> cache'[k]]
  BY <1>1
<1>5. QED BY <1>3, <1>4 DEF BrowserInv

(* Neither a lost answer nor anybody else touches what the browser keeps.  *)
LEMMA ElsewhereKeepsBrowser ==
  ASSUME BrowserInv, UNCHANGED <<user, cache>>
  PROVE  BrowserInv'
BY DEF BrowserInv, KeptIsReadable, Kept, ReadersPage

(* Each step of the pages is a step of the engine or leaves it alone.      *)
LEMMA PagesStepIsEngineStep ==
  ASSUME BrowserInv, PagesNext
  PROVE  [Next]_vars
<1>1. ASSUME NEW k \in Visits, Draw(k) \/ Drop(k) PROVE UNCHANGED vars
  BY <1>1 DEF Draw, Drop
<1>2. ASSUME NEW page \in Visits, NEW call \in Buttons(page),
             Press(page, call) \/ PressUnheard(page, call)
      PROVE  Next
  <2>1. RowCall(call)
    BY ButtonsCallRows DEF BrowserInv
  <2>2. Serve(user, call)
    BY <1>2 DEF Press, PressUnheard
  <2>3. QED BY <2>1, <2>2, ServeIsNext
<1>3. CASE Others
  BY <1>3 DEF Others
<1>4. QED BY <1>1, <1>2, <1>3 DEF PagesNext

LEMMA StepKeepsBrowser ==
  ASSUME TypeOK, TypeOK', BrowserInv, PagesNext
  PROVE  BrowserInv'
<1>1. ASSUME NEW k \in Visits, Draw(k) \/ Drop(k) PROVE BrowserInv'
  BY <1>1, DrawKeepsBrowser
<1>2. ASSUME NEW page \in Visits, NEW call \in Buttons(page), Press(page, call)
      PROVE  BrowserInv'
  BY <1>2, PressKeepsBrowser
<1>3. ASSUME NEW page \in Visits, NEW call \in Buttons(page), PressUnheard(page, call)
      PROVE  BrowserInv'
  BY <1>3, ElsewhereKeepsBrowser DEF PressUnheard
<1>4. CASE Others
  BY <1>4, ElsewhereKeepsBrowser DEF Others
<1>5. QED BY <1>1, <1>2, <1>3, <1>4 DEF PagesNext

PagesIInv == IInv /\ Trail /\ BrowserInv

LEMMA InitPagesIInv == PagesInit => PagesIInv
BY InitIInv, InitTrail, InitBrowser DEF PagesInit, PagesIInv

LEMMA NextPagesIInv == PagesIInv /\ [PagesNext]_pagesVars => PagesIInv'
<1> SUFFICES ASSUME PagesIInv, [PagesNext]_pagesVars PROVE PagesIInv'
  OBVIOUS
<1>1. CASE PagesNext
  <2>1. [Next]_vars
    BY <1>1, PagesStepIsEngineStep DEF PagesIInv
  <2>2. IInv' /\ Trail'
    BY <2>1, NextIInv, NextTrail DEF PagesIInv
  <2>3. TypeOK /\ TypeOK'
    BY <2>2 DEF PagesIInv, IInv
  <2>4. BrowserInv'
    BY <1>1, <2>3, StepKeepsBrowser DEF PagesIInv
  <2>5. QED BY <2>2, <2>4 DEF PagesIInv
<1>2. CASE UNCHANGED pagesVars
  <2>1. UNCHANGED vars /\ UNCHANGED <<user, cache>>
    BY <1>2 DEF pagesVars, browser
  <2>2. IInv' /\ Trail'
    BY <2>1, NextIInv, NextTrail DEF PagesIInv
  <2>3. QED BY <2>1, <2>2, ElsewhereKeepsBrowser DEF PagesIInv
<1>3. QED BY <1>1, <1>2

LEMMA PagesInvariant == PagesSpec => []PagesIInv
BY InitPagesIInv, NextPagesIInv, PTL DEF PagesSpec

(* A person at a browser, with whatever old page is open and whatever      *)
(* answer is lost, makes the engine do nothing but steps of its own.  So   *)
(* each theorem about the engine above holds beside the pages as well.     *)
THEOREM PagesRunTheEngine == PagesSpec => Spec
<1>1. PagesInit => Init
  BY DEF PagesInit
<1>2. PagesIInv /\ [PagesNext]_pagesVars => [Next]_vars
  BY PagesStepIsEngineStep DEF PagesIInv, pagesVars
<1>3. QED BY <1>1, <1>2, PagesInvariant, PTL DEF PagesSpec, Spec

--------------------------------------------------------------------------------
(* THE LOST ANSWER                                                         *)

(* What the tables say once a call of each kind has been served.           *)
Over(p, call) ==
  /\ p \in Customers =>
       /\ call[1] = "request" => \E d \in DealsOn(call[2]) :
                                    DealCustomer[d] = p /\ deal[d] = "requested"
       /\ call[1] = "withdraw" => deal[call[2]] = "withdrawn"
       /\ call[1] = "upload" => deal[call[2]] = "docs_in_review"
  /\ p \notin Customers =>
       /\ call[1] = "select" => deal[call[2]] = "viewing_scheduled"
       /\ call[1] = "decline_request" => deal[call[2]] = "declined_by_agency"
       /\ call[1] = "record_no_show" => deal[call[2]] = "no_show"
       /\ call[1] = "record_declined" => deal[call[2]] = "declined"
       /\ call[1] = "record_proceeding" => deal[call[2]] = "awaiting_docs"
       /\ call[1] = "approve" => deal[call[2]] = "approved"
       /\ call[1] = "reject" => deal[call[2]] = "docs_rejected"
       /\ call[1] = "close" => deal[call[2]] = "closed"
       /\ call[1] = "end" => lease[call[2]].status = "vacated"
       /\ call[1] = "renew" => lease[call[2]].status = "renewed"

(* Where each action of the tables leads.                                  *)
LEMMA ActionTargets ==
  ASSUME NEW from, NEW action, NEW to, <<from, action, to>> \in DealTransitions
  PROVE  /\ action = "request" => to = "requested"
         /\ action = "withdraw" => from \in DealOpenStates /\ to = "withdrawn"
         /\ action = "schedule_viewing" => from = "requested" /\ to = "viewing_scheduled"
         /\ action = "decline_request" => from = "requested" /\ to = "declined_by_agency"
         /\ action = "record_no_show" => from = "viewing_scheduled" /\ to = "no_show"
         /\ action = "record_declined" => from = "viewing_scheduled" /\ to = "declined"
         /\ action = "record_proceeding" => from = "viewing_scheduled" /\ to = "awaiting_docs"
         /\ action = "submit_documents" => from = "awaiting_docs" /\ to = "docs_in_review"
         /\ action = "resubmit_documents" => from = "docs_rejected" /\ to = "docs_in_review"
         /\ action = "approve_documents" => from = "docs_in_review" /\ to = "approved"
         /\ action = "reject_documents" => from = "docs_in_review" /\ to = "docs_rejected"
         /\ action = "close" => from = "approved" /\ to = "closed"
BY DEF DealTransitions

LEMMA TransitionTargets ==
  ASSUME TypeOK, NEW d \in Deals, NEW action, Transition(d, action)
  PROVE  <<deal[d], action, deal'[d]>> \in DealTransitions
BY DEF Transition, TypeOK

LEMMA ServedIsOver ==
  ASSUME TypeOK, NEW p, NEW call, RowCall(call), Serve(p, call)
  PROVE  Over(p, call)'
<1>1. CASE p \in Customers
  <2> USE <1>1
  <2>1. ASSUME call[1] = "request"
        PROVE  \E d \in DealsOn(call[2]) : DealCustomer[d] = p /\ deal'[d] = "requested"
    <3>1. PICK d \in DealsOn(call[2]) : DealCustomer[d] = p /\ CreateRequest(d)
      BY <2>1 DEF Serve, ServeCustomer
    <3>2. d \in Deals
      BY DEF DealsOn
    <3>3. <<deal[d], "request", deal'[d]>> \in DealTransitions
      BY <3>1, <3>2, TransitionTargets DEF CreateRequest
    <3>4. QED BY <3>1, <3>3, ActionTargets
  <2>2. ASSUME call[1] = "withdraw" PROVE deal'[call[2]] = "withdrawn"
    <3>1. call[2] \in Deals /\ Plain(call[2], "withdraw")
      BY <2>2 DEF Serve, ServeCustomer, RowCall
    <3>2. <<deal[call[2]], "withdraw", deal'[call[2]]>> \in DealTransitions
      BY <3>1, TransitionTargets DEF Plain
    <3>3. QED BY <3>2, ActionTargets
  <2>3. ASSUME call[1] = "upload" PROVE deal'[call[2]] = "docs_in_review"
    <3>1. call[2] \in Deals /\ Upload(call[2])
      BY <2>3 DEF Serve, ServeCustomer, RowCall
    <3>2. \/ <<deal[call[2]], "submit_documents", deal'[call[2]]>> \in DealTransitions
          \/ <<deal[call[2]], "resubmit_documents", deal'[call[2]]>> \in DealTransitions
      BY <3>1, TransitionTargets DEF Upload
    <3>3. QED BY <3>2, ActionTargets
  <2>4. QED BY <2>1, <2>2, <2>3 DEF Over, DealsOn
<1>2. CASE p \notin Customers
  <2> USE <1>2
  <2>1. ASSUME call[1] = "select" PROVE deal'[call[2]] = "viewing_scheduled"
    <3>1. call[2] \in Deals /\ Select(call[2])
      BY <2>1 DEF Serve, ServeDesk, ServeTenancy, RowCall
    <3>2. <<deal[call[2]], "schedule_viewing", deal'[call[2]]>> \in DealTransitions
      BY <3>1, TransitionTargets DEF Select
    <3>3. QED BY <3>2, ActionTargets
  <2>2. ASSUME call[1] \in {"decline_request", "record_no_show", "record_declined",
                            "record_proceeding"}
        PROVE  <<deal[call[2]], call[1], deal'[call[2]]>> \in DealTransitions
    <3>1. call[2] \in Deals /\ Plain(call[2], call[1])
      BY <2>2 DEF Serve, ServeDesk, ServeTenancy, RowCall
    <3>2. QED BY <3>1, TransitionTargets DEF Plain
  <2>3. ASSUME call[1] = "approve" PROVE deal'[call[2]] = "approved"
    <3>1. call[2] \in Deals /\ Verify(call[2], "approved")
      BY <2>3 DEF Serve, ServeDesk, ServeTenancy, RowCall
    <3>2. <<deal[call[2]], "approve_documents", deal'[call[2]]>> \in DealTransitions
      BY <3>1, TransitionTargets DEF Verify
    <3>3. QED BY <3>2, ActionTargets
  <2>4. ASSUME call[1] = "reject" PROVE deal'[call[2]] = "docs_rejected"
    <3>1. call[2] \in Deals /\ Verify(call[2], "rejected")
      BY <2>4 DEF Serve, ServeDesk, ServeTenancy, RowCall
    <3>2. <<deal[call[2]], "reject_documents", deal'[call[2]]>> \in DealTransitions
      BY <3>1, TransitionTargets DEF Verify
    <3>3. QED BY <3>2, ActionTargets
  <2>5. ASSUME call[1] = "close" PROVE deal'[call[2]] = "closed"
    <3>1. call[2] \in Deals /\ \E l \in Leases : Close(call[2], l)
      BY <2>5 DEF Serve, ServeDesk, ServeTenancy, RowCall
    <3>2. QED BY <3>1 DEF Close
  <2>6. ASSUME call[1] = "end" PROVE lease'[call[2]].status = "vacated"
    <3>1. call[2] \in Leases /\ EndLease(call[2])
      BY <2>6 DEF Serve, ServeDesk, ServeTenancy, RowCall
    <3>2. QED BY <3>1 DEF EndLease, LeaseTransition, LeaseTransitions, TypeOK, LeaseRows
  <2>7. ASSUME call[1] = "renew" PROVE lease'[call[2]].status = "renewed"
    <3>1. call[2] \in Leases /\ \E new \in Leases : RenewLease(call[2], new)
      BY <2>7 DEF Serve, ServeDesk, ServeTenancy, RowCall
    <3>2. QED BY <3>1 DEF RenewLease, LeaseTransitions, TypeOK, LeaseRows
  <2>8. QED BY <2>1, <2>2, <2>3, <2>4, <2>5, <2>6, <2>7, ActionTargets DEF Over
<1>3. QED BY <1>1, <1>2

LEMMA OverIsRefused ==
  ASSUME TypeOK, NEW p, NEW call, RowCall(call), Over(p, call), call[1] \notin Repeatable,
         Serve(p, call)
  PROVE  FALSE
<1>1. CASE p \in Customers
  <2>1. ASSUME NEW d \in DealsOn(call[2]), call[1] = "request",
               DealCustomer[d] = p, CreateRequest(d)
        PROVE  FALSE
    <3>1. PICK e \in DealsOn(call[2]) : DealCustomer[e] = p /\ deal[e] = "requested"
      BY <1>1, <2>1 DEF Over
    <3>2. e \in OpenTwins(d)
      BY <2>1, <3>1 DEF OpenTwins, DealsOn, DealOpenStates
    <3>3. QED BY <2>1, <3>2 DEF CreateRequest
  <2>2. ASSUME call[1] = "withdraw", Plain(call[2], "withdraw") PROVE FALSE
    <3>1. <<deal[call[2]], "withdraw", deal'[call[2]]>> \in DealTransitions
      BY <2>2, TransitionTargets DEF Plain, RowCall
    <3>2. QED BY <1>1, <2>2, <3>1, ActionTargets DEF Over, DealOpenStates
  <2>3. ASSUME call[1] = "upload", Upload(call[2]) PROVE FALSE
    <3>1. \/ <<deal[call[2]], "submit_documents", deal'[call[2]]>> \in DealTransitions
          \/ <<deal[call[2]], "resubmit_documents", deal'[call[2]]>> \in DealTransitions
      BY <2>3, TransitionTargets DEF Upload, RowCall
    <3>2. QED BY <1>1, <2>3, <3>1, ActionTargets DEF Over
  <2>4. QED BY <1>1, <2>1, <2>2, <2>3 DEF Serve, ServeCustomer
<1>2. CASE p \notin Customers /\ ServeDesk(p, call[1], call[2])
  <2> USE <1>2
  <2>1. ASSUME call[1] = "select", Select(call[2]) PROVE FALSE
    <3>1. <<deal[call[2]], "schedule_viewing", deal'[call[2]]>> \in DealTransitions
      BY <2>1, TransitionTargets DEF Select, RowCall
    <3>2. QED BY <2>1, <3>1, ActionTargets DEF Over
  <2>2. ASSUME call[1] \in {"decline_request", "record_no_show", "record_declined",
                            "record_proceeding"}, Plain(call[2], call[1])
        PROVE FALSE
    <3>1. <<deal[call[2]], call[1], deal'[call[2]]>> \in DealTransitions
      BY <2>2, TransitionTargets DEF Plain, RowCall
    <3>2. QED BY <2>2, <3>1, ActionTargets DEF Over
  <2>3. ASSUME call[1] = "approve", Verify(call[2], "approved") PROVE FALSE
    <3>1. <<deal[call[2]], "approve_documents", deal'[call[2]]>> \in DealTransitions
      BY <2>3, TransitionTargets DEF Verify, RowCall
    <3>2. QED BY <2>3, <3>1, ActionTargets DEF Over
  <2>4. ASSUME call[1] = "reject", Verify(call[2], "rejected") PROVE FALSE
    <3>1. <<deal[call[2]], "reject_documents", deal'[call[2]]>> \in DealTransitions
      BY <2>4, TransitionTargets DEF Verify, RowCall
    <3>2. QED BY <2>4, <3>1, ActionTargets DEF Over
  <2>5. ASSUME call[1] = "close", NEW l \in Leases, Close(call[2], l) PROVE FALSE
    <3>1. <<deal[call[2]], "close", "closed">> \in DealTransitions
      BY <2>5 DEF Close
    <3>2. QED BY <2>5, <3>1, ActionTargets DEF Over
  <2>6. QED BY <2>1, <2>2, <2>3, <2>4, <2>5 DEF ServeDesk, Repeatable
<1>3. CASE p \notin Customers /\ ServeTenancy(call[1], call[2])
  <2>1. lease[call[2]].status \notin {"vacated", "renewed"}
    BY <1>3 DEF ServeTenancy, EndLease, LeaseTransition, RenewLease, LeaseTransitions
  <2>2. QED BY <1>3, <2>1 DEF ServeTenancy, Over
<1>4. QED BY <1>1, <1>2, <1>3 DEF Serve

(* The button was on the page, so the call that was lost is about a row;   *)
(* and what it did stands while it is remembered.                          *)
LostInv == lost # Nothing => RowCall(lost) /\ Over(user, lost)

(* Whoever else has called meanwhile: what the call has moved is where the *)
(* call has left it.                                                       *)
LEMMA UntouchedStaysOver ==
  ASSUME NEW p, p = user, NEW call, Over(p, call), Untouched(call)
  PROVE  Over(p, call)'
<1>1. CASE call[1] = "request"
  <2>1. \A d \in DealsOn(call[2]) : DealCustomer[d] = p => deal'[d] = deal[d]
    BY <1>1 DEF Untouched
  <2>2. QED BY <1>1, <2>1 DEF Over, DealsOn
<1>2. CASE call[1] \in {"end", "renew"}
  <2>1. lease'[call[2]] = lease[call[2]]
    BY <1>2 DEF Untouched
  <2>2. QED BY <1>2, <2>1 DEF Over
<1>3. CASE call[1] \notin {"request", "end", "renew"}
  <2>1. deal'[call[2]] = deal[call[2]]
    BY <1>3 DEF Untouched
  <2>2. QED BY <1>3, <2>1 DEF Over
<1>4. QED BY <1>1, <1>2, <1>3

LEMMA KeepLostKeepsLost ==
  ASSUME LostInv, user' = user, KeepLost
  PROVE  LostInv'
<1>1. CASE lost # Nothing /\ Untouched(lost)
  <2>1. \A p, call : p = user /\ call = lost => Over(p, call)'
    BY <1>1, UntouchedStaysOver DEF LostInv
  <2>2. lost' = lost /\ RowCall(lost)
    BY <1>1 DEF KeepLost, LostInv
  <2>3. QED BY <2>1, <2>2 DEF LostInv, Over, RowCall
<1>2. CASE ~ (lost # Nothing /\ Untouched(lost))
  BY <1>2 DEF KeepLost, LostInv
<1>3. QED BY <1>1, <1>2

LEMMA StepKeepsLost ==
  ASSUME TypeOK, BrowserInv, LostInv, PagesNext
  PROVE  LostInv'
<1>1. ASSUME NEW page \in Visits, NEW call \in Buttons(page), PressUnheard(page, call)
      PROVE  LostInv'
  <2>1. RowCall(call)
    BY ButtonsCallRows DEF BrowserInv
  <2>2. Over(user, call)'
    <3>1. \A p : p = user => Over(p, call)'
      BY <1>1, <2>1, ServedIsOver DEF PressUnheard
    <3>2. user' = user
      BY <1>1 DEF PressUnheard
    <3>3. QED BY <3>1, <3>2 DEF Over
  <2>3. lost' = call
    BY <1>1 DEF PressUnheard
  <2>4. QED BY <2>1, <2>2, <2>3 DEF LostInv, RowCall, Over
<1>2. ASSUME NEW page \in Visits, NEW call \in Buttons(page), Press(page, call)
      PROVE  LostInv'
  BY <1>2, KeepLostKeepsLost DEF Press
<1>3. CASE Others
  BY <1>3, KeepLostKeepsLost DEF Others
<1>4. ASSUME NEW k \in Visits, Draw(k) \/ Drop(k) PROVE LostInv'
  <2>1. UNCHANGED <<deal, lease, user, lost>>
    BY <1>4 DEF Draw, Drop, vars
  <2>2. QED BY <2>1 DEF LostInv, Over
<1>5. QED BY <1>1, <1>2, <1>3, <1>4 DEF PagesNext

(* A call that was done and whose answer was lost is refused when its      *)
(* button is pressed again, then or later, as long as nobody has moved its *)
(* deal or its lease: each guard reads the state that the call itself      *)
(* moved on (canTransition, the twins of createRequest, the status of the  *)
(* lease), and other calls leave that state alone.                         *)
THEOREM LostCallsAreRefused == PagesSpec => LostCallIsOver
<1>1. PagesInit => LostInv
  BY DEF PagesInit, LostInv
<1>2. LostInv /\ PagesIInv /\ [PagesNext]_pagesVars => LostInv'
  <2>1. ASSUME LostInv, UNCHANGED pagesVars PROVE LostInv'
    BY <2>1 DEF LostInv, Over, pagesVars, vars, browser
  <2>2. QED BY <2>1, StepKeepsLost DEF PagesIInv, IInv
<1>3. LostInv /\ PagesIInv =>
        (lost # Nothing /\ lost[1] \notin Repeatable => ~ Serve(user, lost))
  BY OverIsRefused DEF LostInv, PagesIInv, IInv
<1>4. LostInv /\ PagesIInv /\ [PagesNext]_pagesVars =>
        [lost # Nothing /\ lost[1] \notin Repeatable => ~ Serve(user, lost)]_pagesVars
  BY <1>3
<1>5. QED BY <1>1, <1>2, <1>4, PagesInvariant, PTL DEF PagesSpec, LostCallIsOver

--------------------------------------------------------------------------------
(* WHAT THE PAGES LEAD TO                                                  *)

(* The desk comes to every open deal by its inbox, and to every queue by   *)
(* the menu of the console.                                                *)
LEMMA DeskReaches ==
  ASSUME NEW p \in Desks
  PROVE  /\ \A d \in Open : <<"deal", d>> \in Reachable(p)
         /\ \A h \in Listings : <<"queue", h>> \in Reachable(p)
<1>1. ASSUME NEW d \in Open PROVE <<"deal", d>> \in InboxLinks(AgencyRequests)
  BY DEF InboxLinks, AgencyRequests
<1>2. \A h \in Listings : <<"queue", h>> \in DeskMenu
  BY DEF DeskMenu
<1>3. QED BY <1>1, <1>2 DEF Reachable

(* The desk's buttons for a deal, and the customer's.                      *)
LEMMA DeskOffers ==
  ASSUME NEW p \in Desks, NEW d
  PROVE  LET page == <<"deal", d>> IN
         Offers(p, page, Answer(p, page)) =
           ViewingOffers(d, DealForParty(d)) \cup ReviewOffers(p, d, DealForParty(d))
             \cup ClosingOffers(d, DealForParty(d))
<1>1. p \notin Customers
  BY DealViewsAssumption
<1>2. Answer(p, <<"deal", d>>) = DealForParty(d)
  BY DEF Answer
<1>3. QED BY <1>1, <1>2 DEF Offers

LEMMA CustomerOffers ==
  ASSUME NEW p \in Customers, NEW d
  PROVE  LET page == <<"deal", d>> IN
         Offers(p, page, Answer(p, page)) = TrackerOffers(d, DealForParty(d))
<1>1. p \notin Desks
  BY DealViewsAssumption
<1>2. Answer(p, <<"deal", d>>) = DealForParty(d)
  BY DEF Answer
<1>3. QED BY <1>1, <1>2 DEF Offers

LEMMA OpenDealMovesOn ==
  ASSUME TypeOK, PaperworkMatchesState
  PROVE  OpenDealHasWayOn
<1> SUFFICES ASSUME NEW p \in Verifiers, NEW d \in Open, SlotFree(d)
             PROVE  \E q \in Desks \cup {DealCustomer[d]} : \E page \in Reachable(q) :
                       \E call \in Offers(q, page, Answer(q, page)) :
                          call[2] = d /\ call[1] \in Forward
  BY DEF OpenDealHasWayOn
<1>1. p \in Desks /\ d \in Deals
  BY DealViewsAssumption DEF Open
<1>2. <<"deal", d>> \in Reachable(p)
  BY <1>1, DeskReaches
<1>3. ASSUME NEW what \in Forward,
             <<what, d>> \in ViewingOffers(d, DealForParty(d))
                               \cup ReviewOffers(p, d, DealForParty(d))
                               \cup ClosingOffers(d, DealForParty(d))
      PROVE  \E q \in Desks \cup {DealCustomer[d]} : \E page \in Reachable(q) :
                \E call \in Offers(q, page, Answer(q, page)) :
                   call[2] = d /\ call[1] \in Forward
  <2>1. <<what, d>> \in Offers(p, <<"deal", d>>, Answer(p, <<"deal", d>>))
    BY <1>1, <1>3, DeskOffers
  <2>2. <<what, d>>[2] = d /\ <<what, d>>[1] \in Forward
    OBVIOUS
  <2>3. QED BY <1>1, <1>2, <2>1, <2>2
<1>4. CASE deal[d] = "requested"
  <2> DEFINE h == DealListing[d]
             queue == <<"queue", h>>
  <2>1. h \in Listings
    BY <1>1, DealLifecycleAssumption
  <2>2. queue \in Reachable(p)
    BY <1>1, <2>1, DeskReaches
  <2>3. Reserving(deal, h) = {}
    BY <1>4 DEF SlotFree, Reserving, DealReservingStates
  <2>4. Answer(p, queue) = ListingQueue(h)
    BY DEF Answer
  <2>5. Answer(p, queue).active = {} /\ d \in Answer(p, queue).queue
    BY <1>1, <1>4, <2>3, <2>4 DEF ListingQueue, DealsOn
  <2>6. <<"select", d>> \in QueueOffers(Answer(p, queue))
    BY <2>5 DEF QueueOffers
  <2>7. <<"select", d>> \in Offers(p, queue, Answer(p, queue))
    BY <2>6 DEF Offers
  <2>8. <<"select", d>>[2] = d /\ <<"select", d>>[1] \in Forward
    BY DEF Forward
  <2>9. QED BY <1>1, <2>2, <2>7, <2>8
<1>5. CASE deal[d] = "viewing_scheduled"
  <2>1. <<"record_proceeding", d>> \in ViewingOffers(d, DealForParty(d))
    BY <1>5 DEF ViewingOffers, DealForParty
  <2>2. QED BY <1>3, <2>1 DEF Forward
<1>6. CASE deal[d] = "awaiting_docs"
  <2> DEFINE c == DealCustomer[d]
             page == <<"deal", d>>
  <2>1. c \in Customers /\ c \notin Desks
    BY <1>1, DealLifecycleAssumption, DealViewsAssumption
  <2>2. page \in RequestLinks(MyRequests(c))
    BY <1>1, <1>6 DEF RequestLinks, MyRequests, NoDeal
  <2>3. page \in Reachable(c)
    BY <2>1, <2>2 DEF Reachable
  <2>4. <<"upload", d>> \in TrackerOffers(d, DealForParty(d))
    BY <1>6 DEF TrackerOffers, DealForParty
  <2>5. <<"upload", d>> \in Offers(c, page, Answer(c, page))
    BY <2>1, <2>4, CustomerOffers
  <2>6. <<"upload", d>>[2] = d /\ <<"upload", d>>[1] \in Forward
    BY DEF Forward
  <2>7. QED BY <2>3, <2>5, <2>6
<1>7. CASE deal[d] = "docs_in_review"
  <2>1. doc[d] = "pending"
    BY <1>1, <1>7 DEF PaperworkMatchesState
  <2>2. <<"approve", d>> \in ReviewOffers(p, d, DealForParty(d))
    BY <1>7, <2>1 DEF ReviewOffers, DealForParty
  <2>3. QED BY <1>3, <2>2 DEF Forward
<1>8. CASE deal[d] = "approved"
  <2>1. agreement[d] \in {"none", "generated", "signed"}
    BY <1>1 DEF TypeOK
  <2>2. <<"generate", d>> \in ClosingOffers(d, DealForParty(d))
    BY <1>8, <2>1 DEF ClosingOffers, DealForParty
  <2>3. QED BY <1>3, <2>2 DEF Forward
<1>9. QED BY <1>4, <1>5, <1>6, <1>7, <1>8 DEF Open, DealOpenStates

(* While nothing stands in its way, each open deal has a page with the     *)
(* button that moves it on, and links that lead there, for any size of     *)
(* desk with a verifier in it.                                             *)
THEOREM NoDealIsLeftBehind == PagesSpec => []NoDealIsStranded
<1>1. PagesIInv => NoDealIsStranded
  BY OpenDealMovesOn DEF PagesIInv, IInv, Trail, NoDealIsStranded
<1>2. QED BY <1>1, PagesInvariant, PTL

LEMMA PapersExist ==
  ASSUME PaperworkMatchesState
  PROVE  OfferedPaperIsThere
<1> SUFFICES ASSUME NEW d \in Deals, NEW p \in People, IsParty(p, d),
                    NEW call \in Papers(p, d, DealForParty(d))
             PROVE  IF call[1] = "view" THEN MayView(p, d) ELSE MayDownload(p, d)
  BY DEF OfferedPaperIsThere
<1>1. CASE p \in Customers
  <2>1. call \in TrackerPapers(d, DealForParty(d)) /\ DealCustomer[d] = p
    BY <1>1, DealViewsAssumption DEF Papers, IsParty
  <2>2. CASE deal[d] = "docs_in_review"
    BY <2>1, <2>2 DEF TrackerPapers, DealForParty, PaperworkMatchesState, MayView
  <2>3. CASE deal[d] = "closed"
    BY <2>1, <2>3 DEF TrackerPapers, DealForParty, PaperworkMatchesState, MayDownload, IsParty
  <2>4. CASE deal[d] \notin {"docs_in_review", "closed"}
    BY <2>1, <2>4 DEF TrackerPapers, DealForParty
  <2>5. QED BY <2>2, <2>3, <2>4
<1>2. CASE p \notin Customers
  <2>1. call \in DeskPapers(p, d, DealForParty(d))
    BY <1>2 DEF Papers
  <2>2. CASE call[1] = "view"
    BY <2>1, <2>2 DEF DeskPapers, DealForParty, MayView
  <2>3. CASE call[1] # "view"
    BY <2>1, <2>3 DEF DeskPapers, DealForParty, PaperworkMatchesState, MayDownload
  <2>4. QED BY <2>2, <2>3
<1>3. QED BY <1>1, <1>2

(* A paper that a page offers to open is on file: the purge spares the     *)
(* photo in review, and a close leaves the contract behind (issueUrl,      *)
(* issueUrls, purgeForDeal).                                               *)
THEOREM OfferedPapersAreThere == PagesSpec => []OfferedPaperIsThere
<1>1. PagesIInv => OfferedPaperIsThere
  BY PapersExist DEF PagesIInv, Trail
<1>2. QED BY <1>1, PagesInvariant, PTL

--------------------------------------------------------------------------------
(* WHAT OLD BUTTONS DO                                                     *)
(*                                                                         *)
(* For each page: a call of one of its buttons, drawn whenever, that the   *)
(* engine takes now is one that the page, drawn now, offers.               *)

LEMMA OldRequestsDoNoMore ==
  ASSUME TypeOK, NEW page, page[1] = "my-requests", NEW shown, NEW p \in Customers,
         DOMAIN shown \subseteq Deals,
         NEW call \in Offers(p, page, shown), Serve(p, call)
  PROVE  call \in Offers(p, page, Answer(p, page))
<1>1. PICK d \in DOMAIN shown : call = <<"withdraw", d>>
  BY DEF Offers, RequestOffers
<1>2. d \in Deals /\ call[1] = "withdraw" /\ call[2] = d
  BY <1>1
<1>3. DealCustomer[d] = p /\ Plain(d, "withdraw")
  BY <1>2 DEF Serve, ServeCustomer
<1>4. deal[d] \in DealOpenStates
  BY <1>2, <1>3, TransitionTargets, ActionTargets DEF Plain
<1>5. deal[d] # NoDeal
  BY <1>4 DEF DealOpenStates, NoDeal
<1>6. call \in RequestOffers(MyRequests(p))
  BY <1>1, <1>2, <1>3, <1>4, <1>5 DEF RequestOffers, MyRequests
<1>7. Answer(p, page) = MyRequests(p)
  BY DEF Answer
<1>8. QED BY <1>6, <1>7 DEF Offers

LEMMA OldListingsDoNoMore ==
  ASSUME NEW page, page[1] = "public-listing", NEW shown, NEW p \in Customers,
         NEW call \in Offers(p, page, shown), Serve(p, call)
  PROVE  call \in Offers(p, page, Answer(p, page))
<1>1. call = <<"request", page[2]>>
  BY DEF Offers, ListingOffers
<1>2. PICK d \in DealsOn(page[2]) : CreateRequest(d)
  BY <1>1 DEF Serve, ServeCustomer
<1>3. PublicDetail(page[2])
  BY <1>2 DEF CreateRequest, DealsOn, PublicDetail
<1>4. Answer(p, page) = PublicDetail(page[2])
  BY DEF Answer
<1>5. QED BY <1>1, <1>3, <1>4 DEF Offers, ListingOffers

LEMMA OldQueuesDoNoMore ==
  ASSUME TypeOK, NEW page, page[1] = "queue", NEW shown, NEW p \in Desks,
         shown.queue \subseteq DealsOn(page[2]),
         NEW call \in Offers(p, page, shown), Serve(p, call)
  PROVE  call \in Offers(p, page, Answer(p, page))
<1>1. PICK d \in shown.queue : call \in {<<"select", d>>, <<"decline_request", d>>}
  <2>1. call \in QueueOffers(shown)
    BY DEF Offers
  <2>2. QED BY <2>1 DEF QueueOffers
<1>2. d \in Deals /\ DealListing[d] = page[2] /\ call[2] = d /\ p \notin Customers
  BY <1>1, DealViewsAssumption DEF DealsOn
<1>3. \/ call[1] = "select" /\ Select(d)
      \/ call[1] = "decline_request" /\ Plain(d, "decline_request")
  <2>1. call[1] \in {"select", "decline_request"}
    BY <1>1
  <2>2. ServeDesk(p, call[1], d)
    BY <1>2, <2>1 DEF Serve, ServeTenancy
  <2>3. QED BY <2>1, <2>2 DEF ServeDesk
<1>4. deal[d] = "requested"
  BY <1>2, <1>3, TransitionTargets, ActionTargets DEF Plain, Select
<1>5. call[1] = "select" => Reserving(deal, page[2]) = {}
  BY <1>2, <1>3, <1>4 DEF Select, SlotFree, Reserving, DealReservingStates
<1>6. Answer(p, page) = ListingQueue(page[2])
  BY DEF Answer
<1>7. d \in ListingQueue(page[2]).queue
  BY <1>2, <1>4 DEF ListingQueue, DealsOn
<1>8. call[1] = "select" => ListingQueue(page[2]).active = {}
  BY <1>5 DEF ListingQueue
<1>9. call \in QueueOffers(ListingQueue(page[2]))
  BY <1>1, <1>7, <1>8 DEF QueueOffers
<1>10. QED BY <1>6, <1>9 DEF Offers

LEMMA OldTenanciesDoNoMore ==
  ASSUME NEW page, page[1] = "tenancies", NEW shown, NEW p \in Desks,
         DOMAIN shown \subseteq Leases,
         NEW call \in Offers(p, page, shown), Serve(p, call)
  PROVE  call \in Offers(p, page, Answer(p, page))
<1>1. PICK l \in DOMAIN shown : call \in {<<"end", l>>, <<"renew", l>>}
  <2>1. call \in TenancyOffers(shown)
    BY DEF Offers
  <2>2. QED BY <2>1 DEF TenancyOffers
<1>2. l \in Leases /\ call[2] = l /\ p \notin Customers
  BY <1>1, DealViewsAssumption
<1>3. \/ call[1] = "end" /\ EndLease(l)
      \/ call[1] = "renew" /\ \E new \in Leases : RenewLease(l, new)
  <2>1. call[1] \in {"end", "renew"}
    BY <1>1
  <2>2. ServeTenancy(call[1], l)
    BY <1>2, <2>1 DEF Serve, ServeDesk
  <2>3. QED BY <2>1, <2>2 DEF ServeTenancy
<1>4. /\ lease[l].status \in LeaseLiveStatuses
      /\ call[1] = "renew" => lease[l].status = "ending_soon"
  BY <1>3 DEF EndLease, LeaseTransition, RenewLease, LeaseTransitions, LeaseLiveStatuses
<1>5. Answer(p, page) = Tenancies
  BY DEF Answer
<1>6. l \in DOMAIN Tenancies /\ Tenancies[l] = lease[l].status
  BY <1>2, <1>4 DEF Tenancies, LiveLeases
<1>7. call \in TenancyOffers(Tenancies)
  BY <1>1, <1>4, <1>6 DEF TenancyOffers
<1>8. QED BY <1>5, <1>7 DEF Offers

LEMMA OldTrackersDoNoMore ==
  ASSUME TypeOK, NEW page, page[1] = "deal", page[2] \in Deals, NEW shown, NEW p \in Customers,
         NEW call \in Offers(p, page, shown), Serve(p, call)
  PROVE  call \in Offers(p, page, Answer(p, page))
<1> DEFINE d == page[2]
<1>1. call = <<"upload", d>> /\ d \in Deals
  <2>1. p \notin Desks
    BY DealViewsAssumption
  <2>2. call \in TrackerOffers(d, shown)
    BY <2>1 DEF Offers
  <2>3. QED BY <2>2 DEF TrackerOffers
<1>2. Upload(d)
  BY <1>1 DEF Serve, ServeCustomer
<1>3. deal[d] \in {"awaiting_docs", "docs_rejected"}
  <2>1. \/ <<deal[d], "submit_documents", deal'[d]>> \in DealTransitions
        \/ <<deal[d], "resubmit_documents", deal'[d]>> \in DealTransitions
    BY <1>1, <1>2, TransitionTargets DEF Upload
  <2>2. QED BY <2>1 DEF DealTransitions
<1>4. call \in TrackerOffers(d, DealForParty(d))
  BY <1>1, <1>3 DEF TrackerOffers, DealForParty
<1>5. Answer(p, page) = DealForParty(d)
  BY DEF Answer
<1>6. p \notin Desks
  BY DealViewsAssumption
<1>7. QED BY <1>4, <1>5, <1>6 DEF Offers

LEMMA OldDealsDoNoMore ==
  ASSUME TypeOK, NEW page, page[1] = "deal", page[2] \in Deals, NEW shown, NEW p \in Desks,
         shown.agreement \in {"none", "generated", "signed"},
         NEW call \in Offers(p, page, shown), call[1] # "sign", Serve(p, call)
  PROVE  call \in Offers(p, page, Answer(p, page))
<1> DEFINE d == page[2]
           now == DealForParty(d)
           viewing == {"record_proceeding", "record_declined", "record_no_show",
                       "reschedule_viewing"}
<1>1. p \notin Customers /\ d \in Deals
  BY DealViewsAssumption
<1>2. /\ call = <<call[1], d>>
      /\ call[1] \in viewing \cup {"approve", "reject", "generate", "close"}
  <2>1. \/ call \in ViewingOffers(d, shown)
        \/ call \in ReviewOffers(p, d, shown)
        \/ call \in ClosingOffers(d, shown)
    BY <1>1 DEF Offers
  <2>2. CASE call \in ViewingOffers(d, shown)
    BY <2>2 DEF ViewingOffers
  <2>3. CASE call \in ReviewOffers(p, d, shown)
    BY <2>3 DEF ReviewOffers
  <2>4. CASE call \in ClosingOffers(d, shown)
    BY <2>4 DEF ClosingOffers
  <2>5. QED BY <2>1, <2>2, <2>3, <2>4
<1>3. call[2] = d
  BY <1>2
<1>4. ServeDesk(p, call[1], d)
  BY <1>1, <1>2, <1>3 DEF Serve, ServeTenancy
<1>5. now = [state |-> deal[d], document |-> doc[d], agreement |-> agreement[d]]
  BY DEF DealForParty
<1>6. call \in ViewingOffers(d, now) \cup ReviewOffers(p, d, now) \cup ClosingOffers(d, now)
  <2>1. CASE call[1] \in viewing
    <3>1. Plain(d, call[1])
      BY <1>4, <2>1 DEF ServeDesk
    <3>2. <<deal[d], call[1], deal'[d]>> \in DealTransitions
      BY <3>1, TransitionTargets DEF Plain
    <3>3. deal[d] = "viewing_scheduled"
      BY <2>1, <3>2 DEF DealTransitions
    <3>4. QED BY <1>2, <1>5, <2>1, <3>3 DEF ViewingOffers
  <2>2. CASE call[1] \in {"approve", "reject"}
    <3>1. p \in Verifiers /\ \E verdict \in {"approved", "rejected"} : Verify(d, verdict)
      BY <1>4, <2>2 DEF ServeDesk
    <3>2. \/ <<deal[d], "approve_documents", deal'[d]>> \in DealTransitions
          \/ <<deal[d], "reject_documents", deal'[d]>> \in DealTransitions
      BY <1>1, <3>1, TransitionTargets DEF Verify
    <3>3. doc[d] = "pending" /\ deal[d] = "docs_in_review"
      BY <3>1, <3>2 DEF Verify, DealTransitions
    <3>4. QED BY <1>2, <1>5, <2>2, <3>1, <3>3 DEF ReviewOffers
  <2>3. CASE call[1] = "generate"
    <3>1. deal[d] = "approved" /\ agreement[d] \in {"none", "generated", "signed"}
      BY <1>4, <2>3 DEF ServeDesk, GenerateAgreement, TypeOK
    <3>2. QED BY <1>2, <1>5, <2>3, <3>1 DEF ClosingOffers
  <2>4. CASE call[1] = "close"
    <3>1. deal[d] = "approved" /\ agreement[d] = "signed"
      BY <1>4, <2>4 DEF ServeDesk, Close, DealTransitions, NoDeal
    <3>2. QED BY <1>2, <1>5, <2>4, <3>1 DEF ClosingOffers
  <2>5. QED BY <1>2, <2>1, <2>2, <2>3, <2>4
<1>7. Answer(p, page) = now
  BY DEF Answer
<1>8. QED BY <1>1, <1>6, <1>7 DEF Offers

LEMMA ServedIsOffered ==
  ASSUME TypeOK, KeptIsReadable, NEW page \in Visits, NEW call \in Buttons(page),
         call[1] # "sign", Serve(user, call)
  PROVE  call \in Offers(user, page, Answer(user, page))
<1>1. /\ call \in Offers(user, page, cache[page])
      /\ ShowsRows(page, cache[page]) /\ ReadersPage(page)
  BY DEF Buttons, KeptIsReadable, Kept
<1>2. page[1] \in {"my-requests", "public-listing", "deal", "queue", "tenancies"}
  BY ButtonsCallRows
<1>3. CASE page[1] = "my-requests"
  BY <1>1, <1>3, OldRequestsDoNoMore DEF ShowsRows, ReadersPage
<1>4. CASE page[1] = "public-listing"
  BY <1>1, <1>4, OldListingsDoNoMore DEF ReadersPage
<1>5. CASE page[1] = "queue"
  BY <1>1, <1>5, OldQueuesDoNoMore DEF ShowsRows, ReadersPage
<1>6. CASE page[1] = "tenancies"
  BY <1>1, <1>6, OldTenanciesDoNoMore DEF ShowsRows, ReadersPage
<1>7. CASE page[1] = "deal"
  <2>1. page[2] \in Deals
    BY <1>7, DealPagesAssumption
  <2>2. user \in Customers \/ user \in Desks
    BY <1>1, <1>7 DEF Offers
  <2>3. CASE user \in Customers
    BY <1>1, <1>7, <2>1, <2>3, OldTrackersDoNoMore
  <2>4. CASE user \in Desks
    BY <1>1, <1>7, <2>1, <2>4, OldDealsDoNoMore DEF ShowsRows
  <2>5. QED BY <2>2, <2>3, <2>4
<1>8. QED BY <1>2, <1>3, <1>4, <1>5, <1>6, <1>7

(* Whatever an old page still offers, the engine serves only what the page *)
(* would offer now, the upload of a signed scan excepted: for any desk,    *)
(* customers, homes and pages, however old they are and whatever others    *)
(* have done since they were drawn.                                        *)
THEOREM OldPagesDoNoMore == PagesSpec => OldButtonsDoNoMore
<1> DEFINE NoMore ==
      \A page \in Visits :
         \A call \in Buttons(page) \ Offers(user, page, Answer(user, page)) :
            call[1] # "sign" => ~ Serve(user, call)
<1>1. PagesIInv => NoMore
  BY ServedIsOffered DEF PagesIInv, BrowserInv, IInv
<1>2. PagesIInv /\ [PagesNext]_pagesVars => [NoMore]_pagesVars
  BY <1>1
<1>3. QED BY <1>2, PagesInvariant, PTL DEF PagesSpec, OldButtonsDoNoMore

--------------------------------------------------------------------------------
(* WHAT THE BUTTONS DO                                                     *)
(*                                                                         *)
(* The provers have no rule for ENABLED, so the half of                    *)
(* PagesAgreeWithEngine that uses it is proved by its witness.  Outcome    *)
(* names the state that a call leads to as a function of the state it is   *)
(* made in; an action that is true of the step from a state to its outcome *)
(* is enabled there.                                                       *)

Moved(d, action) ==
  [deal EXCEPT ![d] = CHOOSE to \in DealStates : <<deal[d], action, to>> \in DealTransitions]

(* The tables after a call, with the status recomputed for some homes.     *)
Becomes(deals, documents, papers, leases, homes) ==
  <<deals, documents, papers, leases,
    [h \in Listings |-> IF h \in homes THEN Derived(deals, leases, h) ELSE status[h]]>>

NewRequest(p, h) == CHOOSE d \in DealsOn(h) : DealCustomer[d] = p /\ deal[d] = NoDeal

NewLease(h) == CHOOSE l \in Leases : lease[l].status = "none" /\ LeaseListing[l] = h

(* The calls that are one transition of their deal, and the action it is.  *)
ActionOf(call) ==
  CASE call[1] = "select" -> "schedule_viewing"
    [] call[1] = "upload" -> IF deal[call[2]] = "awaiting_docs" THEN "submit_documents"
                                                               ELSE "resubmit_documents"
    [] call[1] = "approve" -> "approve_documents"
    [] call[1] = "reject" -> "reject_documents"
    [] OTHER -> call[1]

Documented(call) ==
  CASE call[1] = "upload" -> [doc EXCEPT ![call[2]] = "pending"]
    [] call[1] = "approve" -> [doc EXCEPT ![call[2]] = "approved"]
    [] call[1] = "reject" -> [doc EXCEPT ![call[2]] = "rejected"]
    [] OTHER -> doc

Closed(d) ==
  [e \in Deals |-> IF e = d THEN "closed"
                   ELSE IF e \in Queued(d) THEN "expired"
                   ELSE IF e \in SignedElsewhere(d) THEN "withdrawn"
                   ELSE deal[e]]

Let(d) == [status |-> "active", deal |-> d, renewedFrom |-> NoRow]

Outcome(p, call) ==
  LET x == call[2] IN
  CASE call[1] = "request" ->
         Becomes(Moved(NewRequest(p, x), "request"), doc, agreement, lease, {x})
    [] call[1] = "generate" ->
         <<deal, doc, [agreement EXCEPT ![x] = "generated"], lease, status>>
    [] call[1] = "sign" ->
         <<deal, doc, [agreement EXCEPT ![x] = "signed"], lease, status>>
    [] call[1] = "close" ->
         Becomes(Closed(x), doc, agreement,
                 [lease EXCEPT ![NewLease(DealListing[x])] = Let(x)],
                 {DealListing[e] : e \in SignedElsewhere(x) \cup {x}})
    [] call[1] = "end" ->
         Becomes(deal, doc, agreement, [lease EXCEPT ![x].status = "vacated"],
                 {LeaseListing[x]})
    [] call[1] = "renew" ->
         Becomes(deal, doc, agreement,
                 [lease EXCEPT ![x].status = "renewed",
                               ![NewLease(LeaseListing[x])] = Renewal(x)],
                 {LeaseListing[x]})
    [] OTHER ->
         Becomes(Moved(x, ActionOf(call)), Documented(call), agreement, lease,
                 {DealListing[x]})

(* What a button of a freshly drawn page says of the row it calls for.     *)
CustomerMayAsk(p, what, x) ==
  \/ what = "withdraw" /\ x \in Deals /\ DealCustomer[x] = p /\ deal[x] \in DealOpenStates
  \/ what = "request" /\ x \in Listings /\ PublicDetail(x)
  \/ /\ what = "upload" /\ x \in Deals /\ DealCustomer[x] = p
     /\ deal[x] \in {"awaiting_docs", "docs_rejected"}

DeskMayAsk(p, what, x) ==
  \/ what = "select" /\ x \in Deals /\ deal[x] = "requested" /\ SlotFree(x)
  \/ what = "decline_request" /\ x \in Deals /\ deal[x] = "requested"
  \/ /\ what \in {"record_proceeding", "record_declined", "record_no_show",
                  "reschedule_viewing"}
     /\ x \in Deals /\ deal[x] = "viewing_scheduled"
  \/ /\ what \in {"approve", "reject"} /\ p \in Verifiers
     /\ x \in Deals /\ deal[x] = "docs_in_review" /\ doc[x] = "pending"
  \/ what = "generate" /\ x \in Deals /\ deal[x] = "approved"
  \/ what = "sign" /\ x \in Deals /\ agreement[x] # "none"
  \/ what = "close" /\ x \in Deals /\ deal[x] = "approved" /\ agreement[x] = "signed"
  \/ what = "end" /\ x \in Leases /\ lease[x].status \in LeaseLiveStatuses
  \/ what = "renew" /\ x \in Leases /\ lease[x].status = "ending_soon"

OwnPages(p) == {<<"deal", d>> : d \in {x \in Deals : IsParty(p, x)}}

LEMMA CustomerAsks ==
  ASSUME NEW p \in Customers, NEW page \in Reachable(p) \cup OwnPages(p),
         NEW call \in Offers(p, page, Answer(p, page))
  PROVE  CustomerMayAsk(p, call[1], call[2])
<1>1. p \notin Desks
  BY DealViewsAssumption
<1>2. CASE page[1] = "my-requests"
  <2>1. call \in RequestOffers(MyRequests(p))
    BY <1>2 DEF Offers, Answer
  <2>2. PICK d \in DOMAIN MyRequests(p) : /\ MyRequests(p)[d] \in DealOpenStates
                                         /\ call = <<"withdraw", d>>
    BY <2>1 DEF RequestOffers
  <2>3. d \in Deals /\ DealCustomer[d] = p /\ deal[d] \in DealOpenStates
    BY <2>2 DEF MyRequests
  <2>4. QED BY <2>2, <2>3 DEF CustomerMayAsk
<1>3. CASE page[1] = "public-listing"
  <2>1. page \in CustomerMenu
    BY <1>1, <1>3 DEF Reachable, OwnPages, RequestLinks
  <2>2. page[2] \in Listings
    BY <1>3, <2>1 DEF CustomerMenu
  <2>3. call \in ListingOffers(page[2], PublicDetail(page[2]))
    BY <1>3 DEF Offers, Answer
  <2>4. QED BY <2>2, <2>3 DEF ListingOffers, CustomerMayAsk
<1>4. CASE page[1] = "deal"
  <2>1. page[2] \in Deals /\ DealCustomer[page[2]] = p
    <3>1. CASE page \in OwnPages(p)
      BY <1>1, <3>1 DEF OwnPages, IsParty
    <3>2. CASE page \in Reachable(p)
      <4>1. page \in RequestLinks(MyRequests(p))
        BY <1>1, <1>4, <3>2 DEF Reachable, CustomerMenu
      <4>2. PICK d \in DOMAIN MyRequests(p) : page = <<"deal", d>>
        BY <4>1 DEF RequestLinks
      <4>3. QED BY <4>2 DEF MyRequests
    <3>3. QED BY <3>1, <3>2
  <2>2. call \in TrackerOffers(page[2], DealForParty(page[2]))
    BY <1>1, <1>4 DEF Offers, Answer
  <2>3. QED BY <2>1, <2>2 DEF TrackerOffers, DealForParty, CustomerMayAsk
<1>5. page[1] \in {"my-requests", "public-listing", "deal"}
  <2>1. page \in CustomerMenu \cup RequestLinks(MyRequests(p)) \cup OwnPages(p)
    BY <1>1 DEF Reachable
  <2>2. QED BY <2>1 DEF CustomerMenu, RequestLinks, OwnPages
<1>6. QED BY <1>2, <1>3, <1>4, <1>5

(* The closing card offers the next paper, and the close with the scan.    *)
LEMMA ClosingButtons ==
  ASSUME NEW d, NEW shown, shown.agreement \in {"none", "generated", "signed"},
         NEW call \in ClosingOffers(d, shown)
  PROVE  /\ call[2] = d /\ shown.state = "approved"
         /\ \/ call[1] = "generate"
            \/ call[1] = "sign" /\ shown.agreement # "none"
            \/ call[1] = "close" /\ shown.agreement = "signed"
<1>1. shown.state = "approved"
  <2>1. ASSUME shown.state # "approved" PROVE ClosingOffers(d, shown) = {}
    BY <2>1 DEF ClosingOffers
  <2>2. QED BY <2>1
<1>2. CASE shown.agreement = "none"
  BY <1>1, <1>2 DEF ClosingOffers
<1>3. CASE shown.agreement = "generated"
  BY <1>1, <1>3 DEF ClosingOffers
<1>4. CASE shown.agreement = "signed"
  BY <1>1, <1>4 DEF ClosingOffers
<1>5. QED BY <1>2, <1>3, <1>4

LEMMA DeskAsks ==
  ASSUME TypeOK, NEW p \in Desks, NEW page \in Reachable(p) \cup OwnPages(p),
         NEW call \in Offers(p, page, Answer(p, page))
  PROVE  DeskMayAsk(p, call[1], call[2])
<1>1. p \notin Customers
  BY DealViewsAssumption
<1>2. page \in DeskMenu \cup {<<"deal", d>> : d \in Deals}
  <2>1. page \in DeskMenu \cup DashboardLinks(Dashboard) \cup InboxLinks(AgencyRequests)
                   \cup (UNION {QueueLinks(ListingQueue(h)) : h \in Listings})
                   \cup OwnPages(p)
    BY DEF Reachable
  <2>2. DashboardLinks(Dashboard) \subseteq {<<"deal", d>> : d \in Deals}
    BY DEF DashboardLinks, Dashboard, AgencyRequests, Open
  <2>3. InboxLinks(AgencyRequests) \subseteq {<<"deal", d>> : d \in Deals}
    BY DEF InboxLinks, AgencyRequests, Open
  <2>4. ASSUME NEW h \in Listings
        PROVE  QueueLinks(ListingQueue(h)) \subseteq {<<"deal", d>> : d \in Deals}
    BY DEF QueueLinks, ListingQueue, Reserving, DealsOn
  <2>5. OwnPages(p) \subseteq {<<"deal", d>> : d \in Deals}
    BY DEF OwnPages
  <2>6. QED BY <2>1, <2>2, <2>3, <2>4, <2>5
<1>3. CASE page[1] = "queue"
  <2>1. call \in QueueOffers(ListingQueue(page[2]))
    BY <1>3 DEF Offers, Answer
  <2>2. CASE call[1] = "decline_request" /\ call[2] \in ListingQueue(page[2]).queue
    BY <2>2 DEF ListingQueue, DealsOn, DeskMayAsk
  <2>3. CASE /\ call[1] = "select" /\ call[2] \in ListingQueue(page[2]).queue
             /\ ListingQueue(page[2]).active = {}
    BY <2>3 DEF ListingQueue, DealsOn, SlotFree, DeskMayAsk
  <2>4. QED BY <2>1, <2>2, <2>3 DEF QueueOffers
<1>4. CASE page[1] = "tenancies"
  <2>1. call \in TenancyOffers(Tenancies)
    BY <1>4 DEF Offers, Answer
  <2>2. /\ DOMAIN Tenancies = LiveLeases
        /\ \A l \in LiveLeases : Tenancies[l] = lease[l].status
    BY DEF Tenancies
  <2>3. CASE call[1] = "end" /\ call[2] \in LiveLeases
    BY <2>3 DEF LiveLeases, DeskMayAsk
  <2>4. CASE call[1] = "renew" /\ call[2] \in LiveLeases /\ lease[call[2]].status = "ending_soon"
    BY <2>4 DEF LiveLeases, DeskMayAsk
  <2>5. QED BY <2>1, <2>2, <2>3, <2>4 DEF TenancyOffers
<1>5. CASE page[1] = "deal"
  <2> DEFINE d == page[2]
  <2>1. d \in Deals
    BY <1>2, <1>5 DEF DeskMenu
  <2>2. \/ call \in ViewingOffers(d, DealForParty(d))
        \/ call \in ReviewOffers(p, d, DealForParty(d))
        \/ call \in ClosingOffers(d, DealForParty(d))
    BY <1>1, <1>5 DEF Offers, Answer
  <2>3. CASE call \in ViewingOffers(d, DealForParty(d))
    BY <2>1, <2>3 DEF ViewingOffers, DealForParty, DeskMayAsk
  <2>4. CASE call \in ReviewOffers(p, d, DealForParty(d))
    BY <2>1, <2>4 DEF ReviewOffers, DealForParty, DeskMayAsk
  <2>5. CASE call \in ClosingOffers(d, DealForParty(d))
    <3>1. agreement[d] \in {"none", "generated", "signed"}
      BY <2>1 DEF TypeOK
    <3>2. /\ call[2] = d /\ deal[d] = "approved"
          /\ \/ call[1] = "generate"
             \/ call[1] = "sign" /\ agreement[d] # "none"
             \/ call[1] = "close" /\ agreement[d] = "signed"
      BY <2>5, <3>1, ClosingButtons DEF DealForParty
    <3>3. QED BY <2>1, <3>2 DEF DeskMayAsk
  <2>6. QED BY <2>2, <2>3, <2>4, <2>5
<1>6. CASE page[1] \in {"dashboard", "agency-requests"}
  BY <1>6 DEF Offers
<1>7. QED BY <1>2, <1>3, <1>4, <1>5, <1>6 DEF DeskMenu

(* A step to the outcome of a transition is the transition.                *)
LEMMA MovedIsTransition ==
  ASSUME TypeOK, NEW d \in Deals, NEW action, NEW to,
         <<deal[d], action, to>> \in DealTransitions,
         NEW documents,
         vars' = Becomes(Moved(d, action), documents, agreement, lease, {DealListing[d]})
  PROVE  Transition(d, action) /\ doc' = documents /\ agreement' = agreement
<1>1. /\ deal' = Moved(d, action) /\ doc' = documents
      /\ agreement' = agreement /\ lease' = lease
      /\ status' = [h \in Listings |-> IF h \in {DealListing[d]}
                                       THEN Derived(Moved(d, action), lease, h)
                                       ELSE status[h]]
  BY DEF vars, Becomes
<1>2. Recompute({DealListing[d]})
  BY <1>1 DEF Recompute
<1>3. to \in DealStates
  BY DealTableFacts
<1>4. PICK s \in DealStates :
         <<deal[d], action, s>> \in DealTransitions /\ Moved(d, action) = [deal EXCEPT ![d] = s]
  BY <1>3 DEF Moved
<1>5. QED BY <1>1, <1>2, <1>4 DEF Transition

LEMMA CustomerCallIsTaken ==
  ASSUME IInv, NEW p \in Customers, NEW call, CustomerMayAsk(p, call[1], call[2]),
         RowsLeft(p, call), ~ HeldByAnother(p, call), vars' = Outcome(p, call)
  PROVE  Serve(p, call)
<1> DEFINE x == call[2]
<1> USE DEF IInv
<1>1. CASE call[1] = "request"
  <2> DEFINE d == NewRequest(p, x)
  <2>1. d \in DealsOn(x) /\ DealCustomer[d] = p /\ deal[d] = NoDeal
    BY <1>1 DEF RowsLeft, NewRequest
  <2>2. d \in Deals /\ DealListing[d] = x
    BY <2>1 DEF DealsOn
  <2>3. <<deal[d], "request", "requested">> \in DealTransitions
    BY <2>1 DEF DealTransitions
  <2>4. vars' = Becomes(Moved(d, "request"), doc, agreement, lease, {DealListing[d]})
    BY <1>1, <2>2 DEF Outcome
  <2> HIDE DEF d
  <2>5. Transition(d, "request") /\ UNCHANGED <<doc, agreement>>
    BY <2>2, <2>3, <2>4, MovedIsTransition
  <2>6. OpenTwins(d) = {}
    BY <1>1, <2>1, <2>2 DEF OpenTwins, HeldByAnother
  <2>7. status[x] \in {"available", "reserved"}
    BY <1>1 DEF CustomerMayAsk, PublicDetail
  <2>8. CreateRequest(d)
    BY <2>2, <2>5, <2>6, <2>7 DEF CreateRequest
  <2>9. QED BY <1>1, <2>1, <2>8 DEF Serve, ServeCustomer
<1>2. CASE call[1] = "withdraw"
  <2>1. x \in Deals /\ DealCustomer[x] = p /\ deal[x] \in DealOpenStates
    BY <1>2 DEF CustomerMayAsk
  <2>2. <<deal[x], "withdraw", "withdrawn">> \in DealTransitions
    BY <2>1 DEF DealTransitions
  <2>3. vars' = Becomes(Moved(x, "withdraw"), doc, agreement, lease, {DealListing[x]})
    BY <1>2 DEF Outcome, ActionOf, Documented
  <2>4. Plain(x, "withdraw")
    BY <2>1, <2>2, <2>3, MovedIsTransition DEF Plain
  <2>5. QED BY <1>2, <2>1, <2>4 DEF Serve, ServeCustomer
<1>3. CASE call[1] = "upload"
  <2>1. x \in Deals /\ DealCustomer[x] = p /\ deal[x] \in {"awaiting_docs", "docs_rejected"}
    BY <1>3 DEF CustomerMayAsk
  <2>2. SlotFree(x)
    BY <1>3 DEF HeldByAnother
  <2>3. vars' = Becomes(Moved(x, ActionOf(call)), [doc EXCEPT ![x] = "pending"], agreement,
                        lease, {DealListing[x]})
    BY <1>3 DEF Outcome, Documented
  <2>4. CASE deal[x] = "awaiting_docs"
    <3>1. ActionOf(call) = "submit_documents"
      BY <1>3, <2>4 DEF ActionOf
    <3>2. <<deal[x], "submit_documents", "docs_in_review">> \in DealTransitions
      BY <2>4 DEF DealTransitions
    <3>3. Upload(x)
      BY <2>1, <2>3, <3>1, <3>2, MovedIsTransition DEF Upload
    <3>4. QED BY <1>3, <2>1, <3>3 DEF Serve, ServeCustomer
  <2>5. CASE deal[x] = "docs_rejected"
    <3>1. ActionOf(call) = "resubmit_documents"
      BY <1>3, <2>5 DEF ActionOf
    <3>2. <<deal[x], "resubmit_documents", "docs_in_review">> \in DealTransitions
      BY <2>5 DEF DealTransitions
    <3>3. Upload(x)
      BY <2>1, <2>2, <2>3, <3>1, <3>2, MovedIsTransition DEF Upload
    <3>4. QED BY <1>3, <2>1, <3>3 DEF Serve, ServeCustomer
  <2>6. QED BY <2>1, <2>4, <2>5
<1>4. QED BY <1>1, <1>2, <1>3 DEF CustomerMayAsk

LEMMA DeskCallIsTaken ==
  ASSUME IInv, Trail, NEW p \in Desks, NEW call, DeskMayAsk(p, call[1], call[2]),
         RowsLeft(p, call), ~ HeldByAnother(p, call), vars' = Outcome(p, call)
  PROVE  Serve(p, call)
<1> DEFINE x == call[2]
<1> USE DEF IInv
<1>0. p \notin Customers
  BY DealViewsAssumption
<1>1. CASE call[1] = "select"
  <2>1. x \in Deals /\ deal[x] = "requested" /\ SlotFree(x)
    BY <1>1 DEF DeskMayAsk
  <2>2. <<deal[x], "schedule_viewing", "viewing_scheduled">> \in DealTransitions
    BY <2>1 DEF DealTransitions
  <2>3. vars' = Becomes(Moved(x, "schedule_viewing"), doc, agreement, lease, {DealListing[x]})
    BY <1>1 DEF Outcome, ActionOf, Documented
  <2>4. Select(x)
    BY <2>1, <2>2, <2>3, MovedIsTransition DEF Select
  <2>5. QED BY <1>0, <1>1, <2>4 DEF Serve, ServeDesk
<1>2. CASE call[1] \in {"decline_request", "reschedule_viewing", "record_proceeding",
                        "record_declined", "record_no_show"}
  <2>1. /\ x \in Deals
        /\ call[1] = "decline_request" => deal[x] = "requested"
        /\ call[1] # "decline_request" => deal[x] = "viewing_scheduled"
    BY <1>2 DEF DeskMayAsk
  <2>2. PICK to : <<deal[x], call[1], to>> \in DealTransitions
    BY <1>2, <2>1 DEF DealTransitions
  <2>3. vars' = Becomes(Moved(x, call[1]), doc, agreement, lease, {DealListing[x]})
    BY <1>2 DEF Outcome, ActionOf, Documented
  <2>4. Plain(x, call[1])
    BY <2>1, <2>2, <2>3, MovedIsTransition DEF Plain
  <2>5. QED BY <1>0, <1>2, <2>4 DEF Serve, ServeDesk
<1>3. CASE call[1] = "approve"
  <2>1. p \in Verifiers /\ x \in Deals /\ deal[x] = "docs_in_review" /\ doc[x] = "pending"
    BY <1>3 DEF DeskMayAsk
  <2>2. <<deal[x], "approve_documents", "approved">> \in DealTransitions
    BY <2>1 DEF DealTransitions
  <2>3. vars' = Becomes(Moved(x, "approve_documents"), [doc EXCEPT ![x] = "approved"],
                        agreement, lease, {DealListing[x]})
    BY <1>3 DEF Outcome, ActionOf, Documented
  <2>4. Verify(x, "approved")
    BY <2>1, <2>2, <2>3, MovedIsTransition DEF Verify
  <2>5. QED BY <1>0, <1>3, <2>1, <2>4 DEF Serve, ServeDesk
<1>4. CASE call[1] = "reject"
  <2>1. p \in Verifiers /\ x \in Deals /\ deal[x] = "docs_in_review" /\ doc[x] = "pending"
    BY <1>4 DEF DeskMayAsk
  <2>2. <<deal[x], "reject_documents", "docs_rejected">> \in DealTransitions
    BY <2>1 DEF DealTransitions
  <2>3. vars' = Becomes(Moved(x, "reject_documents"), [doc EXCEPT ![x] = "rejected"],
                        agreement, lease, {DealListing[x]})
    BY <1>4 DEF Outcome, ActionOf, Documented
  <2>4. Verify(x, "rejected")
    BY <2>1, <2>2, <2>3, MovedIsTransition DEF Verify
  <2>5. QED BY <1>0, <1>4, <2>1, <2>4 DEF Serve, ServeDesk
<1>5. CASE call[1] = "generate"
  <2>1. deal[x] = "approved"
    BY <1>5 DEF DeskMayAsk
  <2>2. vars' = <<deal, doc, [agreement EXCEPT ![x] = "generated"], lease, status>>
    BY <1>5 DEF Outcome
  <2>3. GenerateAgreement(x)
    BY <2>1, <2>2 DEF vars, GenerateAgreement
  <2>4. QED BY <1>0, <1>5, <2>3 DEF Serve, ServeDesk
<1>6. CASE call[1] = "sign"
  <2>1. agreement[x] # "none"
    BY <1>6 DEF DeskMayAsk
  <2>2. vars' = <<deal, doc, [agreement EXCEPT ![x] = "signed"], lease, status>>
    BY <1>6 DEF Outcome
  <2>3. UploadSigned(x)
    BY <2>1, <2>2 DEF vars, UploadSigned
  <2>4. QED BY <1>0, <1>6, <2>3 DEF Serve, ServeDesk
<1>7. CASE call[1] = "close"
  <2> DEFINE l == NewLease(DealListing[x])
             homes == {DealListing[e] : e \in SignedElsewhere(x) \cup {x}}
  <2>1. x \in Deals /\ deal[x] = "approved" /\ agreement[x] = "signed"
    BY <1>7 DEF DeskMayAsk
  <2>2. l \in Leases /\ lease[l].status = "none" /\ LeaseListing[l] = DealListing[x]
    BY <1>7 DEF RowsLeft, NewLease
  <2>3. vars' = Becomes(Closed(x), doc, agreement, [lease EXCEPT ![l] = Let(x)], homes)
    BY <1>7 DEF Outcome
  <2>4. /\ deal' = Closed(x) /\ lease' = [lease EXCEPT ![l] = Let(x)]
        /\ UNCHANGED <<doc, agreement>> /\ Recompute(homes)
    BY <2>3 DEF vars, Becomes, Recompute
  <2>5. HomeVacant(x) /\ <<deal[x], "close", "closed">> \in DealTransitions
    BY <1>7, <2>1 DEF HeldByAnother, DealTransitions
  <2>6. \A k \in Leases : lease[k].deal # x
    BY <2>1 DEF Trail, ClosedDealHasOneLease
  <2>7. Close(x, l)
    BY <2>1, <2>2, <2>4, <2>5, <2>6 DEF Close, Closed, Let
  <2>8. QED BY <1>0, <1>7, <2>2, <2>7 DEF Serve, ServeDesk
<1>8. CASE call[1] = "end"
  <2>1. x \in Leases /\ lease[x].status \in LeaseLiveStatuses
    BY <1>8 DEF DeskMayAsk
  <2>2. <<lease[x].status, "record_move_out", "vacated">> \in LeaseTransitions
    BY <2>1 DEF LeaseLiveStatuses, LeaseTransitions
  <2>3. vars' = Becomes(deal, doc, agreement, [lease EXCEPT ![x].status = "vacated"],
                        {LeaseListing[x]})
    BY <1>8 DEF Outcome
  <2>4. /\ lease' = [lease EXCEPT ![x].status = "vacated"]
        /\ UNCHANGED <<deal, doc, agreement>> /\ Recompute({LeaseListing[x]})
    BY <2>3 DEF vars, Becomes, Recompute
  <2>5. EndLease(x)
    BY <2>2, <2>4 DEF EndLease, LeaseTransition, LeaseStatuses
  <2>6. QED BY <1>0, <1>8, <2>5 DEF Serve, ServeTenancy
<1>9. CASE call[1] = "renew"
  <2> DEFINE new == NewLease(LeaseListing[x])
  <2>1. x \in Leases /\ lease[x].status = "ending_soon"
    BY <1>9 DEF DeskMayAsk
  <2>2. new \in Leases /\ lease[new].status = "none" /\ LeaseListing[new] = LeaseListing[x]
    BY <1>9 DEF RowsLeft, NewLease
  <2>3. vars' = Becomes(deal, doc, agreement,
                        [lease EXCEPT ![x].status = "renewed", ![new] = Renewal(x)],
                        {LeaseListing[x]})
    BY <1>9 DEF Outcome
  <2>4. /\ lease' = [lease EXCEPT ![x].status = "renewed", ![new] = Renewal(x)]
        /\ UNCHANGED <<deal, doc, agreement>> /\ Recompute({LeaseListing[x]})
    BY <2>3 DEF vars, Becomes, Recompute
  <2>5. \A k \in Leases : lease[k].renewedFrom # x
    BY <2>1 DEF Trail, RenewalChains
  <2>6. <<lease[x].status, "renew", "renewed">> \in LeaseTransitions
    BY <2>1 DEF LeaseTransitions
  <2>7. RenewLease(x, new)
    BY <2>2, <2>4, <2>5, <2>6 DEF RenewLease
  <2>8. QED BY <1>0, <1>9, <2>2, <2>7 DEF Serve, ServeTenancy
<1>10. QED BY <1>1, <1>2, <1>3, <1>4, <1>5, <1>6, <1>7, <1>8, <1>9 DEF DeskMayAsk

(* The conditions of the pages and the guards of the API agree: wherever   *)
(* the invariants of the engine hold, a button of a freshly drawn page is  *)
(* taken unless another deal or lease of the home stands against it        *)
(* (deals/[id]/page.tsx, requests/page.tsx, requests/[id]/page.tsx,        *)
(* tenancies/page.tsx against the services).  The last assumption names the *)
(* values of the primed variables; it restricts no state.                  *)
THEOREM OfferedCallsAreTaken ==
  ASSUME IInv, Trail,
         NEW p \in People, NEW page \in Reachable(p) \cup OwnPages(p),
         NEW call \in Offers(p, page, Answer(p, page)),
         RowsLeft(p, call), ~ HeldByAnother(p, call),
         vars' = Outcome(p, call)
  PROVE  Serve(p, call)
<1>1. CASE p \in Customers
  BY <1>1, CustomerAsks, CustomerCallIsTaken
<1>2. CASE p \in Desks
  BY <1>2, DeskAsks, DeskCallIsTaken DEF IInv
<1>3. QED BY <1>1, <1>2 DEF People

--------------------------------------------------------------------------------
(* THE FIGURES                                                             *)

(* Two functions on the subsets of a finite set that agree on the empty    *)
(* set, and on a set if they do on one with one element less, agree.       *)
LEMMA SetRecursionIsUnique ==
  ASSUME NEW S, IsFiniteSet(S), NEW f, NEW g, f[{}] = g[{}],
         \A s \in (SUBSET S) \ {{}} : \E x \in s : f[s \ {x}] = g[s \ {x}] => f[s] = g[s]
  PROVE  f[S] = g[S]
<1> DEFINE differ == {s \in SUBSET S : f[s] # g[s]}
<1>1. SUFFICES ASSUME f[S] # g[S] PROVE FALSE
  OBVIOUS
<1>2. IsWellFoundedOn(StrictSubsetOrdering(S), SUBSET S)
  BY FS_StrictSubsetOrderingWellFounded, FS_FiniteSubsetsOfFinite
<1>3. differ \subseteq SUBSET S /\ differ # {}
  BY <1>1
<1>4. PICK s \in differ : \A r \in differ : <<r, s>> \notin StrictSubsetOrdering(S)
  <2> HIDE DEF differ
  <2>1. QED BY <1>2, <1>3, WFMin
<1>5. s \in SUBSET S /\ s # {}
  OBVIOUS
<1>6. PICK x \in s : f[s \ {x}] = g[s \ {x}] => f[s] = g[s]
  BY <1>5
<1>7. <<s \ {x}, s>> \in StrictSubsetOrdering(S)
  BY <1>5, <1>6 DEF StrictSubsetOrdering
<1>8. QED BY <1>4, <1>5, <1>6, <1>7

--------------------------------------------------------------------------------
(* The homes of a set that say they are let, and the live leases on them.  *)
Rented(homes) == {h \in homes : status[h] = "rented"}

LiveOn(homes) == {l \in LiveLeases : LeaseListing[l] \in homes}

LEMMA RentedHasLease ==
  ASSUME StatusDerived, NEW h \in Listings
  PROVE  status[h] = "rented" <=> Live(lease, h) # {}
BY DEF StatusDerived, Derived, DeriveListingStatus

(* As many live leases as homes that are let: no home has two.             *)
LEMMA OneLeaseARentedHome ==
  ASSUME OneLiveLease, StatusDerived, NEW homes \in SUBSET Listings
  PROVE  /\ IsFiniteSet(LiveOn(homes))
         /\ Cardinality(LiveOn(homes)) \in Nat
         /\ Cardinality(LiveOn(homes)) = Cardinality(Rented(homes))
<1> DEFINE home == [l \in LiveOn(homes) |-> LeaseListing[l]]
<1>1. LiveOn(homes) \subseteq Leases /\ IsFiniteSet(LiveOn(homes))
  BY PortalsAssumption, FS_Subset DEF LiveOn, LiveLeases
<1>2. ASSUME NEW l \in LiveOn(homes) PROVE home[l] \in Rented(homes)
  <2>1. l \in Live(lease, LeaseListing[l]) /\ LeaseListing[l] \in homes
    BY DEF LiveOn, LiveLeases, Live
  <2>2. QED BY <2>1, RentedHasLease DEF Rented
<1>3. ASSUME NEW k \in LiveOn(homes), NEW l \in LiveOn(homes), home[k] = home[l]
      PROVE  k = l
  BY <1>3 DEF OneLiveLease, LiveOn, LiveLeases
<1>4. ASSUME NEW h \in Rented(homes) PROVE \E l \in LiveOn(homes) : home[l] = h
  <2>1. h \in Listings /\ h \in homes /\ Live(lease, h) # {}
    BY RentedHasLease DEF Rented
  <2>2. PICK l \in Live(lease, h) : TRUE
    BY <2>1
  <2>3. l \in LiveOn(homes) /\ LeaseListing[l] = h
    BY <2>1, <2>2 DEF Live, LiveOn, LiveLeases
  <2>4. QED BY <2>3
<1>5. home \in Bijection(LiveOn(homes), Rented(homes))
  <2>1. home \in [LiveOn(homes) -> Rented(homes)]
    BY <1>2
  <2> HIDE DEF home
  <2>2. QED BY <1>3, <1>4, <2>1 DEF Bijection, Injection, Surjection, IsInjective
<1>6. ExistsBijection(LiveOn(homes), Rented(homes))
  BY <1>5 DEF ExistsBijection
<1>7. QED BY <1>1, <1>6, FS_CardinalityType, FS_Bijection

(* Counting lease by lease, home by home or owner by owner is the same.    *)
LEMMA LeasesAddUp ==
  ASSUME OneLiveLease, StatusDerived, NEW A \in SUBSET Listings, NEW B \in SUBSET Listings,
         A \cap B = {}
  PROVE  Cardinality(LiveOn(A \cup B)) = Cardinality(LiveOn(A)) + Cardinality(LiveOn(B))
<1>1. LiveOn(A \cup B) = LiveOn(A) \cup LiveOn(B) /\ LiveOn(A) \cap LiveOn(B) = {}
  BY DEF LiveOn
<1>2. /\ IsFiniteSet(LiveOn(A)) /\ IsFiniteSet(LiveOn(B))
      /\ Cardinality(LiveOn(A)) \in Nat /\ Cardinality(LiveOn(B)) \in Nat
  BY OneLeaseARentedHome
<1>3. Cardinality(LiveOn(A \cup B)) = Cardinality(LiveOn(A)) + Cardinality(LiveOn(B))
                                        - Cardinality({})
  BY <1>1, <1>2, FS_Union, SMTT(30)
<1>4. QED BY <1>2, <1>3, FS_EmptySet

LEMMA NoHomesNoLeases == Cardinality(LiveOn({})) = 0
<1>1. LiveOn({}) = {}
  BY DEF LiveOn
<1>2. QED BY <1>1, FS_EmptySet

LEMMA AgencyCounts ==
  ASSUME OneLiveLease, StatusDerived
  PROVE  AgencyTenancies = Cardinality(LiveOn(Listings))
<1> DEFINE Pick(homes) == CHOOSE h \in homes : TRUE
           Sums(f) == f = [homes \in SUBSET Listings |->
                             IF homes = {} THEN 0
                             ELSE Cardinality(Live(lease, Pick(homes)))
                                    + f[homes \ {Pick(homes)}]]
           sum == CHOOSE f : Sums(f)
           total == [homes \in SUBSET Listings |-> Cardinality(LiveOn(homes))]
<1>1. AgencyTenancies = sum[Listings]
  BY DEF AgencyTenancies, MapThenSumSet, MapThenFoldSet
<1>2. \A homes \in (SUBSET Listings) \ {{}} : Pick(homes) \in homes
  OBVIOUS
<1> HIDE DEF Pick
<1>3. ASSUME NEW homes \in (SUBSET Listings) \ {{}}
      PROVE  total[homes] = Cardinality(Live(lease, Pick(homes)))
                              + total[homes \ {Pick(homes)}]
  <2> DEFINE h == Pick(homes)
  <2>1. h \in homes
    BY <1>2
  <2>2. Live(lease, h) = LiveOn({h})
    BY DEF Live, LiveOn, LiveLeases
  <2>3. {h} \cup (homes \ {h}) = homes /\ {h} \cap (homes \ {h}) = {}
    BY <2>1
  <2>4. Cardinality(LiveOn(homes)) = Cardinality(LiveOn({h})) + Cardinality(LiveOn(homes \ {h}))
    BY <2>1, <2>3, LeasesAddUp
  <2>5. QED BY <2>2, <2>4
<1>4. total[{}] = 0
  BY NoHomesNoLeases
<1>5. Sums(total)
  <2> HIDE DEF total
  <2>1. total = [homes \in SUBSET Listings |-> total[homes]]
    BY DEF total
  <2>2. QED BY <1>3, <1>4, <2>1
<1>6. Sums(sum)
  BY <1>5
<1> HIDE DEF sum
<1>7. /\ sum[{}] = 0
      /\ \A homes \in (SUBSET Listings) \ {{}} :
            sum[homes] = Cardinality(Live(lease, Pick(homes))) + sum[homes \ {Pick(homes)}]
  BY <1>6
<1> HIDE DEF total, Sums
<1>8. ASSUME NEW homes \in (SUBSET Listings) \ {{}}
      PROVE  \E h \in homes : sum[homes \ {h}] = total[homes \ {h}] => sum[homes] = total[homes]
  BY <1>2, <1>3, <1>7
<1>9. sum[Listings] = total[Listings]
  <2>1. sum[{}] = total[{}] /\ IsFiniteSet(Listings)
    BY <1>4, <1>7, PortalsAssumption
  <2>2. \A homes \in (SUBSET Listings) \ {{}} :
           \E h \in homes : sum[homes \ {h}] = total[homes \ {h}]
                                => sum[homes] = total[homes]
    BY <1>8
  <2>3. QED BY <2>1, <2>2, SetRecursionIsUnique
<1>10. QED BY <1>1, <1>9 DEF total

LEMMA OwnersCount ==
  ASSUME OneLiveLease, StatusDerived
  PROVE  MapThenSumSet(Occupied, Owners) = Cardinality(LiveOn(Listings))
<1> DEFINE Pick(people) == CHOOSE o \in people : TRUE
           Sums(f) == f = [people \in SUBSET Owners |->
                             IF people = {} THEN 0
                             ELSE Occupied(Pick(people)) + f[people \ {Pick(people)}]]
           sum == CHOOSE f : Sums(f)
           Homes(people) == {h \in Listings : OwnerOf[h] \in people}
           total == [people \in SUBSET Owners |-> Cardinality(LiveOn(Homes(people)))]
<1>1. MapThenSumSet(Occupied, Owners) = sum[Owners]
  BY DEF MapThenSumSet, MapThenFoldSet
<1>2. \A people \in (SUBSET Owners) \ {{}} : Pick(people) \in people
  OBVIOUS
<1> HIDE DEF Pick
<1>3. ASSUME NEW people \in (SUBSET Owners) \ {{}}
      PROVE  total[people] = Occupied(Pick(people)) + total[people \ {Pick(people)}]
  <2> DEFINE o == Pick(people)
  <2>1. o \in people
    BY <1>2
  <2>2. Occupied(o) = Cardinality(LiveOn(HomesOf(o)))
    BY DEF Occupied, OwnerDashboard, LiveOn
  <2>3. /\ Homes(people) = HomesOf(o) \cup Homes(people \ {o})
        /\ HomesOf(o) \cap Homes(people \ {o}) = {}
        /\ HomesOf(o) \subseteq Listings /\ Homes(people \ {o}) \subseteq Listings
    BY <2>1 DEF HomesOf
  <2>4. Cardinality(LiveOn(Homes(people)))
          = Cardinality(LiveOn(HomesOf(o))) + Cardinality(LiveOn(Homes(people \ {o})))
    <3> HIDE DEF Homes
    <3>1. QED BY <2>3, LeasesAddUp
  <2>5. QED BY <2>2, <2>4
<1>4. total[{}] = 0
  <2>1. Homes({}) = {}
    OBVIOUS
  <2>2. QED BY <2>1, NoHomesNoLeases
<1>5. Sums(total)
  <2> HIDE DEF total
  <2>1. total = [people \in SUBSET Owners |-> total[people]]
    BY DEF total
  <2>2. QED BY <1>3, <1>4, <2>1
<1>6. Sums(sum)
  BY <1>5
<1> HIDE DEF sum
<1>7. /\ sum[{}] = 0
      /\ \A people \in (SUBSET Owners) \ {{}} :
            sum[people] = Occupied(Pick(people)) + sum[people \ {Pick(people)}]
  BY <1>6
<1> HIDE DEF total, Sums
<1>8. ASSUME NEW people \in (SUBSET Owners) \ {{}}
      PROVE  \E o \in people : sum[people \ {o}] = total[people \ {o}] => sum[people] = total[people]
  BY <1>2, <1>3, <1>7
<1>9. sum[Owners] = total[Owners]
  <2>1. sum[{}] = total[{}] /\ IsFiniteSet(Owners)
    BY <1>4, <1>7, PortalsAssumption
  <2>2. \A people \in (SUBSET Owners) \ {{}} :
           \E o \in people : sum[people \ {o}] = total[people \ {o}]
                                => sum[people] = total[people]
    BY <1>8
  <2>3. QED BY <2>1, <2>2, SetRecursionIsUnique
<1>10. Homes(Owners) = Listings
  BY PortalsAssumption
<1>11. QED BY <1>1, <1>9, <1>10 DEF total

LEMMA NumbersOfTables ==
  ASSUME OneLiveLease, StatusDerived
  PROVE  NumbersAgree
<1>1. ASSUME NEW o \in Owners
      PROVE  LET cards == Properties(o) IN
             /\ Occupied(o) = Cardinality({h \in HomesOf(o) : SaysRented(cards[h])})
             /\ \A h \in HomesOf(o) :
                  /\ SaysRented(cards[h]) <=> SaysTenant(cards[h])
                  /\ PropertyDetail(h).currentLease = cards[h].currentLease
  <2> DEFINE cards == Properties(o)
  <2>1. ASSUME NEW h \in HomesOf(o)
        PROVE  /\ SaysRented(cards[h]) <=> status[h] = "rented"
               /\ SaysTenant(cards[h]) <=> Live(lease, h) # {}
               /\ PropertyDetail(h).currentLease = cards[h].currentLease
               /\ h \in Listings
    <3>1. cards[h] = [status |-> status[h],
                      currentLease |-> IF Live(lease, h) = {} THEN NoRow
                                       ELSE CHOOSE l \in Live(lease, h) : TRUE]
      BY DEF Properties
    <3>2. Live(lease, h) # {} => (CHOOSE l \in Live(lease, h) : TRUE) # NoRow
      BY DealLifecycleAssumption DEF Live
    <3>3. QED BY <3>1, <3>2 DEF SaysRented, SaysTenant, PropertyDetail, HomesOf
  <2>2. {h \in HomesOf(o) : SaysRented(cards[h])} = Rented(HomesOf(o))
    BY <2>1 DEF Rented
  <2>3. Occupied(o) = Cardinality(LiveOn(HomesOf(o)))
    BY DEF Occupied, OwnerDashboard, LiveOn
  <2>4. HomesOf(o) \in SUBSET Listings
    BY DEF HomesOf
  <2>5. Occupied(o) = Cardinality({h \in HomesOf(o) : SaysRented(cards[h])})
    BY <2>2, <2>3, <2>4, OneLeaseARentedHome
  <2> HIDE DEF cards
  <2>6. QED BY <2>1, <2>5, RentedHasLease DEF cards
<1>2. ListingsByStatus["rented"] = Cardinality(LiveOn(Listings))
  <2>1. ListingsByStatus["rented"] = Cardinality(Rented(Listings))
    BY DEF ListingsByStatus, Rented, ListingStatuses
  <2>2. QED BY <2>1, OneLeaseARentedHome
<1>3. LiveOn(Listings) = LiveLeases
  BY DealLifecycleAssumption DEF LiveOn, LiveLeases
<1>4. TenanciesListed = Cardinality(LiveLeases) /\ ActiveTenancies = Cardinality(LiveLeases)
  BY DEF TenanciesListed, Tenancies, ActiveTenancies
<1>5. {TenanciesListed, AgencyTenancies, ActiveTenancies} = {MetricsByStatus["rented"]}
  BY <1>2, <1>3, <1>4, AgencyCounts DEF MetricsByStatus
<1>6. MapThenSumSet(Occupied, Owners) = ListingsByStatus["rented"]
  BY <1>2, OwnersCount
<1>7. QED BY <1>1, <1>5, <1>6 DEF NumbersAgree

(* The counts that the owners, the agency and the platform are shown agree *)
(* for any number of homes, owners and leases, because each is a count of  *)
(* the live leases or of the homes whose status was derived from them, and *)
(* a home has one live lease.                                              *)
THEOREM NumbersAlwaysAgree == Spec => []NumbersAgree
<1>1. IInv => NumbersAgree
  BY NumbersOfTables DEF IInv
<1>2. QED BY <1>1, InitIInv, NextIInv, PTL DEF Spec
================================================================================
