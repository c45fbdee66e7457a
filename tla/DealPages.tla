------------------------------- MODULE DealPages -------------------------------
(***************************************************************************)
(* One person at one browser, beside everybody else.  The app keeps the    *)
(* answer of each query for a minute and draws a page that is opened again *)
(* from it; a page that stays open is never drawn anew by itself.  An      *)
(* answered call throws away the kept answers its page names, and no       *)
(* others.  An answer may get lost on the way: the call is done, and the   *)
(* page still shows what it showed before.                                 *)
(***************************************************************************)
EXTENDS DealViews, Naturals, FiniteSets

CONSTANTS Users,       \* who may sit at the browser
          Nobody,      \* the engine alone, no browser
          Visits,      \* the pages the person looks at
          MaxKept,     \* bound: answers kept at once
          NearDeals,   \* bound: the rows that others move, by who sits
          NearLeases,  \*        at the browser
          Nothing

(* A page of a deal is the page of a row there can be.                     *)
ASSUME DealPagesAssumption == \A k \in Visits : k[1] = "deal" => k[2] \in Deals

VARIABLES
  user,     \* who sits at the browser
  cache,    \* the answers the app keeps, by query
  swapped,  \* kept deal pages whose document was replaced since they were drawn
  lost      \* the last call whose answer was lost, while what it moved has
            \* not been moved on

browser == <<user, cache, swapped, lost>>
pagesVars == <<vars, browser>>

Kept == {k \in Visits : cache[k] # Nothing}

PagesInit ==
  /\ Init
  /\ user \in Users \cup {Nobody}
  /\ cache = [k \in Visits |-> Nothing]
  /\ swapped = {} /\ lost = Nothing

(* A kept deal page goes on showing a document that another one replaced.  *)
Swap(kept) ==
  swapped' = {k \in kept : /\ k[1] = "deal"
                           /\ \/ k \in swapped
                              \/ doc[k[2]] # "pending" /\ doc'[k[2]] = "pending"}

(* The step leaves alone what a call has moved: the person's requests for  *)
(* the home, the lease, or the deal.                                       *)
Untouched(call) ==
  CASE call[1] = "request" ->
         \A d \in DealsOn(call[2]) : DealCustomer[d] = user => deal'[d] = deal[d]
    [] call[1] \in {"end", "renew"} -> lease'[call[2]] = lease[call[2]]
    [] OTHER -> deal'[call[2]] = deal[call[2]]

KeepLost == lost' = IF lost # Nothing /\ Untouched(lost) THEN lost ELSE Nothing

--------------------------------------------------------------------------------
MayOpen(k) ==
  /\ user # Nobody
  /\ CASE k[1] = "deal" -> IsParty(user, k[2]) /\ deal[k[2]] # NoDeal
       [] k[1] = "public-listing" -> user \in Customers
       [] k[1] = "my-requests" -> user \in Customers
       [] OTHER -> user \in Desks

(* A page is opened, opened again after its minute, or loaded anew.        *)
Draw(k) ==
  /\ MayOpen(k) /\ Cardinality(Kept \cup {k}) <= MaxKept
  /\ cache' = [cache EXCEPT ![k] = Answer(user, k)]
  /\ swapped' = swapped \ {k}
  /\ UNCHANGED <<vars, user, lost>>

(* The answer is dropped once nobody has looked at it for a while.         *)
Drop(k) ==
  /\ cache[k] # Nothing
  /\ cache' = [cache EXCEPT ![k] = Nothing]
  /\ swapped' = swapped \ {k}
  /\ UNCHANGED <<vars, user, lost>>

(* The queries that the calls of a page invalidate.  Asking for a home     *)
(* invalidates none.                                                       *)
RefreshesRequests == {<<"my-requests">>}

RefreshesListing == {}

RefreshesTracker(d) == {<<"deal", d>>, <<"my-requests">>}

RefreshesQueue(h) == {<<"queue", h>>, <<"dashboard">>}

RefreshesDeal(d) == {<<"deal", d>>, <<"dashboard">>}

RefreshesTenancies == {<<"tenancies">>, <<"dashboard">>}

Refreshes(page) ==
  CASE page[1] = "my-requests" -> RefreshesRequests
    [] page[1] = "public-listing" -> RefreshesListing
    [] page[1] = "deal" -> IF user \in Customers THEN RefreshesTracker(page[2])
                                                 ELSE RefreshesDeal(page[2])
    [] page[1] = "queue" -> RefreshesQueue(page[2])
    [] page[1] = "tenancies" -> RefreshesTenancies
    [] OTHER -> {}

(* The page that is open and the numbers of the console, shown on each of  *)
(* its pages, are asked for again at once; the rest when it is opened.     *)
Shown(page, k) == k = page \/ k = <<"dashboard">>

Buttons(page) == IF cache[page] = Nothing THEN {} ELSE Offers(user, page, cache[page])

(* A button is pressed on a page as it was drawn, and the answer arrives.  *)
Press(page, call) ==
  /\ call \in Buttons(page)
  /\ Serve(user, call)
  /\ user' = user /\ KeepLost
  /\ LET renewed == Refreshes(page) IN
     /\ cache' = [k \in Visits |->
                    IF k \in renewed /\ cache[k] # Nothing
                    THEN IF Shown(page, k) THEN Answer(user, k)' ELSE Nothing
                    ELSE cache[k]]
     /\ Swap(Kept \ renewed)

(* The same, but the answer does not arrive: the page says that the call   *)
(* has failed and asks for nothing.                                        *)
PressUnheard(page, call) ==
  /\ call \in Buttons(page)
  /\ Serve(user, call)
  /\ Swap(Kept)
  /\ lost' = call
  /\ UNCHANGED <<user, cache>>

(* Everybody else, and the timers.                                         *)
Others ==
  /\ Next
  /\ \A d \in Deals \ NearDeals[user] : deal'[d] = deal[d]
  /\ \A l \in Leases \ NearLeases[user] : lease'[l] = lease[l]
  /\ Swap(Kept)
  /\ KeepLost
  /\ UNCHANGED <<user, cache>>

PagesNext ==
  \/ \E k \in Visits : Draw(k) \/ Drop(k)
  \/ \E page \in Visits : \E call \in Buttons(page) :
        Press(page, call) \/ PressUnheard(page, call)
  \/ Others

PagesSpec == PagesInit /\ [][PagesNext]_pagesVars

--------------------------------------------------------------------------------
(* PROPERTIES                                                              *)

(* The two properties of the pages that depend on the engine only are      *)
(* looked at where no browser multiplies its states.                       *)

(* The conditions under which a page shows a button agree with the guards  *)
(* of the API behind it (see DealViews).                                   *)
PagesAgreeWithEngine ==
  user = Nobody => FreshOfferAccepted /\ OfferedPaperIsThere

(* Nobody's deal is stranded for want of a link or a button (see           *)
(* DealViews).                                                             *)
NoDealIsStranded == user = Nobody => OpenDealHasWayOn

(* Pressing the same button again does not do a call a second time whose   *)
(* answer was lost, whatever others have done meanwhile, as long as nobody *)
(* has moved its deal or lease on (for a request: the person's requests    *)
(* for that home).  After a decline, a rejection or a re-upload the call   *)
(* is a new one.  Three kinds may be repeated: a new date for the viewing, *)
(* another agreement, another scan.                                        *)
Repeatable == {"reschedule_viewing", "generate", "sign"}

LostCallIsOver ==
  [][lost # Nothing /\ lost[1] \notin Repeatable => ~ Serve(user, lost)]_pagesVars

(* A button of an old page does nothing that the same page, drawn anew,    *)
(* would not offer: whoever acts on what he saw a while ago is refused by  *)
(* the engine wherever the page would now tell him better (the conditions  *)
(* of queue, deals/[id], tenancies, requests and requests/[id] against     *)
(* deal-state.service.ts, documents.service.ts, agreements.service.ts).    *)
(* One call looks at no state: uploadSigned, agreements.service.ts:86.     *)
OldButtonsDoNoMore ==
  [][\A page \in Visits :
        \A call \in Buttons(page) \ Offers(user, page, Answer(user, page)) :
           call[1] # "sign" => ~ Serve(user, call)]_pagesVars

(* id-capture.tsx:15: the human verifier judges quality.  Whoever approves *)
(* a document has it before his eyes, not one it replaced.                 *)
ApprovedWasSeen ==
  [][\A d \in Deals :
        <<"deal", d>> \in swapped => ~ Press(<<"deal", d>>, <<"approve", d>>)]_pagesVars

--------------------------------------------------------------------------------
(* WHAT THE TEXTS PROMISE AND THE CODE DOES NOT ALWAYS KEEP.  No run       *)
(* checks this; README.md tells the steps that break it.                   *)

(* sw.ts:20: deal and lease state must never be stale.  An answer that was *)
(* up to date before a call of the person's own is up to date after it.    *)
(* The queue does not invalidate the deal it selects, the deal not the     *)
(* queue of its home, the close not the tenancies, asking for a home not   *)
(* the list of requests.                                                   *)
OwnCallsShow ==
  [][\A page \in Visits : \A call \in Buttons(page) : Press(page, call) =>
        \A k \in Kept : cache[k] = Answer(user, k)
                          => cache'[k] \in {Nothing, Answer(user, k)'}]_pagesVars
================================================================================
