------------------------------- MODULE DealViews -------------------------------
(***************************************************************************)
(* What the pages of the web app show of a deal and a lease, the links and *)
(* buttons they offer for what they show, and the calls those buttons      *)
(* make.  A page is named by the key of the query it is drawn from; it may *)
(* be drawn from an older answer, so links and buttons are functions of    *)
(* what is shown.  The API decides every call by its own rules             *)
(* (DealLifecycle); where the two disagree a person faces a button that    *)
(* never works, or a deal that nobody can move.                            *)
(***************************************************************************)
EXTENDS DealLifecycle

CONSTANTS Desks,       \* the active members of the agency
          Verifiers    \* those with can_verify

ASSUME DealViewsAssumption ==
  /\ Verifiers \subseteq Desks
  /\ Desks \cap Customers = {}

People == Desks \cup Customers

--------------------------------------------------------------------------------
(* What the API answers to each query.                                     *)

Open == {d \in Deals : deal[d] \in DealOpenStates}

(* A customer's requests, whatever became of them.                         *)
MyRequests(c) ==
  [d \in {x \in Deals : DealCustomer[x] = c /\ deal[x] # NoDeal} |-> deal[d]]

(* publicDetail: a published home of an active agency that is not let.     *)
PublicDetail(h) == status[h] \in {"available", "reserved"}

(* One deal, for its customer and for the desk.                            *)
DealForParty(d) == [state |-> deal[d], document |-> doc[d], agreement |-> agreement[d]]

(* The queue of one home, and whoever holds its active slot.               *)
ListingQueue(h) ==
  [active |-> Reserving(deal, h), queue |-> {d \in DealsOn(h) : deal[d] = "requested"}]

(* The requests inbox: every open deal of the agency.                      *)
AgencyRequests == [d \in Open |-> deal[d]]

(* The dashboard: of the open deals the latest few, and the counts.        *)
Dashboard == [leads |-> AgencyRequests, listings |-> status]

LiveLeases == {l \in Leases : lease[l].status \in LeaseLiveStatuses}

Tenancies == [l \in LiveLeases |-> lease[l].status]

(* getDealForParty: everybody else is told that there is no such deal.     *)
IsParty(p, d) == p \in Desks \/ DealCustomer[d] = p

Answer(p, page) ==
  CASE page[1] = "my-requests"     -> MyRequests(p)
    [] page[1] = "public-listing"  -> PublicDetail(page[2])
    [] page[1] = "deal"            -> DealForParty(page[2])
    [] page[1] = "queue"           -> ListingQueue(page[2])
    [] page[1] = "agency-requests" -> AgencyRequests
    [] page[1] = "dashboard"       -> Dashboard
    [] page[1] = "tenancies"       -> Tenancies

--------------------------------------------------------------------------------
(* The way to a page.                                                      *)

(* The navigation of the console; its list of homes leads to each queue.   *)
DeskMenu ==
  {<<"dashboard">>, <<"agency-requests">>, <<"tenancies">>}
    \cup {<<"queue", h>> : h \in Listings}

(* The navigation of the site; browsing leads to every home that is shown. *)
CustomerMenu ==
  {<<"my-requests">>} \cup {<<"public-listing", h>> : h \in {x \in Listings : PublicDetail(x)}}

DashboardLinks(shown) == {<<"deal", d>> : d \in DOMAIN shown.leads}

InboxLinks(shown) == {<<"deal", d>> : d \in DOMAIN shown}

(* Mutant: the way to the tracker opens when the photo has been sent.      *)
RequestLinks_InReview(shown) ==
  {<<"deal", d>> : d \in {x \in DOMAIN shown : shown[x] = "docs_in_review"}}

(* A request leads to its tracker while its documents are asked for.       *)
RequestLinks(shown) ==
  {<<"deal", d>> : d \in {x \in DOMAIN shown : shown[x] = "awaiting_docs"}}

QueueLinks(shown) == {<<"deal", d>> : d \in shown.active}

(* The pages a person can come to by links, all of them freshly drawn.     *)
Reachable(p) ==
  IF p \in Desks
  THEN DeskMenu \cup DashboardLinks(Dashboard) \cup InboxLinks(AgencyRequests)
         \cup UNION {QueueLinks(ListingQueue(h)) : h \in Listings}
  ELSE CustomerMenu \cup RequestLinks(MyRequests(p))

--------------------------------------------------------------------------------
(* The buttons of a page: calls <<what, row>>.                             *)

(* Every open request has its withdraw button.                             *)
RequestOffers(shown) ==
  {<<"withdraw", d>> : d \in {x \in DOMAIN shown : shown[x] \in DealOpenStates}}

ListingOffers(h, shown) == IF shown THEN {<<"request", h>>} ELSE {}

(* The ID step of the tracker.                                             *)
TrackerOffers(d, shown) ==
  IF shown.state \in {"awaiting_docs", "docs_rejected"} THEN {<<"upload", d>>} ELSE {}

(* Mutant: the schedule buttons do not look at the active slot.            *)
QueueOffers_SlotIgnored(shown) ==
  {<<what, d>> : what \in {"select", "decline_request"}, d \in shown.queue}

(* While a deal holds the slot the schedule buttons are disabled.          *)
QueueOffers(shown) ==
  {<<"decline_request", d>> : d \in shown.queue}
    \cup {<<"select", d>> : d \in IF shown.active = {} THEN shown.queue ELSE {}}

ViewingOffers(d, shown) ==
  {<<what, d>> : what \in IF shown.state # "viewing_scheduled" THEN {}
                          ELSE {"record_proceeding", "record_declined", "record_no_show",
                                "reschedule_viewing"}}

(* The review pane is everybody's, its buttons a verifier's.               *)
ReviewOffers(p, d, shown) ==
  {<<what, d>> : what \in IF /\ p \in Verifiers
                             /\ shown.state = "docs_in_review" /\ shown.document = "pending"
                          THEN {"approve", "reject"} ELSE {}}

(* The closing card: each button waits for the paper before it.            *)
ClosingOffers(d, shown) ==
  {<<what, d>> : what \in IF shown.state # "approved" THEN {}
                          ELSE CASE shown.agreement = "none" -> {"generate"}
                                 [] shown.agreement = "generated" -> {"generate", "sign"}
                                 [] shown.agreement = "signed" -> {"generate", "sign", "close"}}

(* Renewal is offered in a lease's last month, move-out always.            *)
TenancyOffers(shown) ==
  {<<"end", l>> : l \in DOMAIN shown}
    \cup {<<"renew", l>> : l \in {k \in DOMAIN shown : shown[k] = "ending_soon"}}

(* The papers a deal page opens: the customer's own photo in review and    *)
(* contract once closed; at the desk a verifier's photo, and the contract. *)
TrackerPapers(d, shown) ==
  CASE shown.state = "docs_in_review" -> {<<"view", d>>}
    [] shown.state = "closed" -> {<<"download", d>>}
    [] OTHER -> {}

DeskPapers(p, d, shown) ==
  {<<"view", d>> : x \in {p} \cap IF shown.document = "none" THEN {} ELSE Verifiers}
    \cup IF shown.state = "closed" \/ (shown.state = "approved" /\ shown.agreement # "none")
         THEN {<<"download", d>>} ELSE {}

Papers(p, d, shown) ==
  IF p \in Customers THEN TrackerPapers(d, shown) ELSE DeskPapers(p, d, shown)

Offers(p, page, shown) ==
  CASE page[1] = "my-requests"    -> RequestOffers(shown)
    [] page[1] = "public-listing" -> ListingOffers(page[2], shown)
    [] page[1] = "queue"          -> QueueOffers(shown)
    [] page[1] = "tenancies"      -> TenancyOffers(shown)
    [] page[1] = "deal" /\ p \in Customers -> TrackerOffers(page[2], shown)
    [] page[1] = "deal" /\ p \in Desks ->
         ViewingOffers(page[2], shown) \cup ReviewOffers(p, page[2], shown)
           \cup ClosingOffers(page[2], shown)
    [] OTHER -> {}

--------------------------------------------------------------------------------
(* The calls, as the controllers route them to the engine.                 *)

ServeCustomer(p, what, x) ==
  \/ what = "request" /\ \E d \in DealsOn(x) : DealCustomer[d] = p /\ CreateRequest(d)
  \/ what = "withdraw" /\ DealCustomer[x] = p /\ Plain(x, "withdraw")
  \/ what = "upload" /\ DealCustomer[x] = p /\ Upload(x)

ServeDesk(p, what, x) ==
  \/ what = "select" /\ Select(x)
  \/ /\ what \in {"decline_request", "reschedule_viewing", "record_proceeding",
                  "record_declined", "record_no_show"}
     /\ Plain(x, what)
  \/ what = "approve" /\ p \in Verifiers /\ Verify(x, "approved")
  \/ what = "reject" /\ p \in Verifiers /\ Verify(x, "rejected")
  \/ what = "generate" /\ GenerateAgreement(x)
  \/ what = "sign" /\ UploadSigned(x)
  \/ what = "close" /\ \E l \in Leases : Close(x, l)

ServeTenancy(what, x) ==
  \/ what = "end" /\ EndLease(x)
  \/ what = "renew" /\ \E new \in Leases : RenewLease(x, new)

Serve(p, call) ==
  IF p \in Customers THEN ServeCustomer(p, call[1], call[2])
  ELSE ServeDesk(p, call[1], call[2]) \/ ServeTenancy(call[1], call[2])

(* issueUrl(s): reads that change nothing but the audit log.               *)
MayView(p, d) == doc[d] # "none" /\ (DealCustomer[d] = p \/ p \in Verifiers)

MayDownload(p, d) == agreement[d] # "none" /\ IsParty(p, d)

(* Rows that the instance has left for a call that inserts one.            *)
RowsLeft(p, call) ==
  CASE call[1] = "request" ->
         \E d \in DealsOn(call[2]) : DealCustomer[d] = p /\ deal[d] = NoDeal
    [] call[1] = "close" ->
         \E l \in Leases : lease[l].status = "none" /\ LeaseListing[l] = DealListing[call[2]]
    [] call[1] = "renew" ->
         \E l \in Leases : lease[l].status = "none" /\ LeaseListing[l] = LeaseListing[call[2]]
    [] OTHER -> TRUE

--------------------------------------------------------------------------------
(* PROPERTIES                                                              *)

(* What a freshly drawn page cannot know: that its reader has asked for    *)
(* this home before, that another deal has taken the slot of a rejected    *)
(* one, or that the home is let.                                           *)
HeldByAnother(p, call) ==
  \/ call[1] = "request" /\ \E d \in DealsOn(call[2]) :
                               DealCustomer[d] = p /\ deal[d] \in DealOpenStates
  \/ call[1] = "upload" /\ ~ SlotFree(call[2])
  \/ call[1] = "close" /\ ~ HomeVacant(call[2])

(* The conditions of the pages and the guards of the API agree: a button   *)
(* of a page drawn from the present state works, unless what stands        *)
(* against it is another deal or lease of the home (deals/[id]/page.tsx,   *)
(* requests/page.tsx, requests/[id]/page.tsx against deal-state.service.ts, *)
(* documents.service.ts, agreements.service.ts).                           *)
FreshOfferAccepted ==
  \A p \in People :
     \A page \in Reachable(p) \cup {<<"deal", d>> : d \in {x \in Deals : IsParty(p, x)}} :
        \A call \in Offers(p, page, Answer(p, page)) :
           RowsLeft(p, call) /\ ~ HeldByAnother(p, call) => ENABLED Serve(p, call)

(* A paper that a deal page offers is there to be opened: the purge spares *)
(* the photo in review, closing leaves a contract behind.                  *)
OfferedPaperIsThere ==
  \A d \in Deals : \A p \in {x \in People : IsParty(x, d)} :
     \A call \in Papers(p, d, DealForParty(d)) :
        IF call[1] = "view" THEN MayView(p, d) ELSE MayDownload(p, d)

(* The calls that move a deal along, not out of play.                      *)
Forward == {"select", "record_proceeding", "upload", "approve", "generate", "sign", "close"}

(* No open deal is stranded: its customer or somebody at the desk comes by *)
(* links to a page that offers the call that moves it on, unless another   *)
(* deal or lease holds its home.                                           *)
OpenDealHasWayOn ==
  Verifiers # {} =>
  \A d \in Open :
     \/ \E p \in Desks \cup {DealCustomer[d]} : \E page \in Reachable(p) :
           \E call \in Offers(p, page, Answer(p, page)) :
              call[2] = d /\ call[1] \in Forward
     \/ ~ SlotFree(d)

--------------------------------------------------------------------------------
(* WHAT THE TEXTS PROMISE AND THE CODE DOES NOT ALWAYS KEEP.  No run       *)
(* checks these; README.md tells the steps that break each of them.        *)

(* requests/[id]/page.tsx:32: the ID step is an active camera card after a *)
(* rejection.  The list of requests does not lead there.                   *)
RejectedCanRecapture ==
  \A d \in Deals : deal[d] = "docs_rejected" =>
     \E page \in Reachable(DealCustomer[d]) :
        <<"upload", d>> \in Offers(DealCustomer[d], page, Answer(DealCustomer[d], page))

(* SPEC.md:146: the tracker has the agreement to download after closing.   *)
(* Nor does the list of requests lead there.                               *)
ClosedCanDownload ==
  \A d \in Deals : deal[d] = "closed" => <<"deal", d>> \in Reachable(DealCustomer[d])

(* deals/[id]/page.tsx:442: each missing precondition of the close is      *)
(* named; that the home is vacant is one, and is not.                      *)
CloseButtonWorks ==
  \A d \in Deals :
     <<"close", d>> \in ClosingOffers(d, DealForParty(d)) => HomeVacant(d)
================================================================================
