--------------------------------- MODULE Market ---------------------------------
(***************************************************************************)
(* The listings of the agencies and what others see of them: the public    *)
(* list, which shoppers page through by offset while homes come and go,    *)
(* and the pages the editor's desk and the platform admin work from.  The  *)
(* editor is Listings, the agencies are Onboarding; here a desk works only *)
(* while its agency is active.  The status of a home is derived by the     *)
(* deal engine (DealLifecycle): of it only whether the home is let counts, *)
(* a reserved home stays on show.                                          *)
(***************************************************************************)
EXTENDS Listings, Onboarding, Integers

CONSTANTS AgencyOf,         \* listings.agency_id
          IdOf,             \* the order of the listings' ids
          Rents,            \* whole steps of the rent slider
          BROWSE_PAGE_SIZE

NoLimit == 0
Top == Max(Rents)
Sorts == {"newest", "price_asc", "price_desc"}

ASSUME MarketAssumption ==
  /\ IsFiniteSet(Listings)
  /\ AgencyOf \in [Listings -> Agencies]
  /\ IdOf \in [Listings -> Nat] /\ IsInjective(IdOf)
  /\ Rents \subseteq Nat \ {0}
  /\ BROWSE_PAGE_SIZE \in Nat \ {0}

VARIABLES
  rent,      \* listings.rent_usd
  let,       \* the homes whose derived status is rented
  news,      \* the published listings, by published_at
  shopper    \* the list one shopper has loaded; came, left and start are
             \* history: the homes that came into his list or left it since
             \* the first page, and those the list had then

street == <<rent, let, news, shopper>>
marketVars == <<vars, onboardingVars, street>>

(* What the two thumbs of the rent slider can send; at its top the slider  *)
(* sends no limit.                                                         *)
Filters == {[min |-> r[1], max |-> IF r[2] = Top THEN NoLimit ELSE r[2]] :
              r \in {r \in (0 .. Top) \X (0 .. Top) : r[1] < r[2]}}

Away == [pages |-> 0, more |-> FALSE, shown |-> <<>>, sort |-> "newest",
         filter |-> [min |-> 0, max |-> NoLimit],
         start |-> {}, came |-> {}, left |-> {}]

MarketInit ==
  /\ rent \in [Listings -> Rents]
  /\ let = {} /\ news = <<>>
  /\ shopper = Away

--------------------------------------------------------------------------------
(* WHO MAY ACT, AND WHAT IS ON SHOW                                        *)

(* AgencyGuard: staff of an agency that is not active are turned away.     *)
DeskOpen(l) == agency[AgencyOf[l]] # Null /\ agency[AgencyOf[l]].status = "active"

OnShow == {l \in published \ let : DeskOpen(l)}

Window(f) == {l \in OnShow : f.min <= rent[l] /\ (f.max = NoLimit \/ rent[l] <= f.max)}

SortKey(sort, l) ==
  CASE sort = "price_asc"  -> rent[l]
    [] sort = "price_desc" -> -rent[l]
    [] sort = "newest"     -> -(CHOOSE i \in DOMAIN news : news[i] = l)

(* Mutant: rows of one rent come in any order, another one every time.     *)
Orders_NoTiebreak(sort, S) ==
  {q \in [1 .. Cardinality(S) -> S] :
     \A i, j \in DOMAIN q : i < j =>
       q[i] # q[j] /\ SortKey(sort, q[i]) <= SortKey(sort, q[j])}

(* By the key asked for, then by id.                                       *)
Before(sort, k, l) ==
  \/ SortKey(sort, k) < SortKey(sort, l)
  \/ SortKey(sort, k) = SortKey(sort, l) /\ IdOf[k] < IdOf[l]

Orders(sort, S) ==
  {q \in [1 .. Cardinality(S) -> S] :
     \A i, j \in DOMAIN q : i < j => Before(sort, q[i], q[j])}

--------------------------------------------------------------------------------
(* THE SHOPPER                                                             *)

(* One answer of publicList: it asks for a row more than the page shows,   *)
(* to know whether there is a next one.                                    *)
Load(sort, f, page, before) ==
  \E q \in Orders(sort, Window(f)) :
    LET first == (page - 1) * BROWSE_PAGE_SIZE + 1
        rows  == SubSeq(q, first, Min({first + BROWSE_PAGE_SIZE, Len(q)}))
        more  == Len(rows) > BROWSE_PAGE_SIZE
    IN shopper' = [before EXCEPT
         !.pages = page, !.more = more,
         !.shown = @ \o (IF more THEN Front(rows) ELSE rows)]

(* A sort or a filter of its own starts a list of its own.                 *)
Look(sort, f) ==
  /\ Load(sort, f, 1, [Away EXCEPT !.sort = sort, !.filter = f, !.start = Window(f)])
  /\ UNCHANGED <<vars, onboardingVars, rent, let, news>>

LoadMore ==
  /\ shopper.more
  /\ Load(shopper.sort, shopper.filter, shopper.pages + 1, shopper)
  /\ UNCHANGED <<vars, onboardingVars, rent, let, news>>

Leave(homes) ==
  shopper' = [shopper EXCEPT !.left = @ \cup (homes \cap Window(shopper.filter))]
Come(homes) ==
  shopper' = [shopper EXCEPT !.came = @ \cup (homes \ Window(shopper.filter))]

--------------------------------------------------------------------------------
(* THE MARKET BESIDE HIM                                                   *)

(* A deal closed on it; its last lease ended.                              *)
Let(l) ==
  /\ l \in OnShow
  /\ let' = let \cup {l}
  /\ Leave({l})
  /\ UNCHANGED <<vars, onboardingVars, rent, news>>

Free(l) ==
  /\ l \in let /\ DeskOpen(l)
  /\ let' = let \ {l}
  /\ Come({l})
  /\ UNCHANGED <<vars, onboardingVars, rent, news>>

(* update with a new rent: wherever it was, it is somewhere else now.      *)
Reprice(l, r) ==
  /\ l \in exists /\ DeskOpen(l) /\ rent[l] # r
  /\ rent' = [rent EXCEPT ![l] = r]
  /\ shopper' = [shopper EXCEPT !.left = @ \cup {l}, !.came = @ \cup {l}]
  /\ UNCHANGED <<vars, onboardingVars, let, news>>

(* A home published twice at once has the later date of the two.           *)
GoPublic(w) ==
  /\ Publish(w)
  /\ LET l == job[w].listing IN
       /\ \/ l \notin published /\ news' = Append(news, l)
          \/ \E i \in DOMAIN news : news[i] = l /\ news' = Append(RemoveAt(news, i), l)
       /\ shopper' = [shopper EXCEPT !.came = @ \cup {l},
                                     !.left = @ \cup ({l} \cap published)]
  /\ UNCHANGED <<onboardingVars, rent, let>>

HomesOf(g) == {l \in Listings : AgencyOf[l] = g}

Suspend(p, g) ==
  /\ PatchAgency(p, g, "suspended")
  /\ Leave(HomesOf(g))
  /\ UNCHANGED <<vars, rent, let, news>>

Reactivate(p, g) ==
  /\ PatchAgency(p, g, "active")
  /\ Come(HomesOf(g))
  /\ UNCHANGED <<vars, rent, let, news>>

(* What is asked of a desk is asked while its agency is active; what a     *)
(* desk has begun goes through, suspended or not.                          *)
EditorCalls ==
  /\ \/ \E l \in Listings : DeskOpen(l) /\ (Create(l) \/ ConvertDraft(l))
     \/ \E w \in Workers :
          \/ \E l \in Listings : DeskOpen(l) /\ (BeginAdd(w, l) \/ Update(w, l))
          \/ Push(w) \/ Crash(w)
  /\ UNCHANGED <<onboardingVars, street>>

PublishCalls ==
  /\ \E w \in Workers, l \in Listings : DeskOpen(l) /\ BeginPublish(w, l)
  /\ UNCHANGED <<onboardingVars, street>>

Moves ==
  \/ \E w \in Workers : GoPublic(w)
  \/ \E p \in Admins, g \in Agencies : Suspend(p, g) \/ Reactivate(p, g)

Street ==
  \/ \E sort \in Sorts, f \in Filters : Look(sort, f)
  \/ LoadMore
  \/ \E l \in Listings : Let(l) \/ Free(l) \/ \E r \in Rents : Reprice(l, r)

MarketNext ==
  \/ Founding /\ UNCHANGED <<vars, street>>
  \/ EditorCalls
  \/ PublishCalls
  \/ Moves
  \/ Street

MarketSpec == Init /\ OnboardingInit /\ MarketInit /\ [][MarketNext]_marketVars

--------------------------------------------------------------------------------
(* PROPERTIES                                                              *)

(* Paging by offset over a list that changes under it (listings.service    *)
(* .ts:329): a shopper who has reached the end has seen every home of the  *)
(* list he started with, unless a home left it or moved in it; and no card *)
(* comes twice, unless one came into it or moved.                          *)
ScrollIsComplete ==
  /\ (shopper.pages > 0 /\ ~shopper.more /\ shopper.left = {}) =>
        shopper.start \subseteq Range(shopper.shown)
  /\ shopper.came = {} => IsInjective(shopper.shown)

--------------------------------------------------------------------------------
(* WHAT THE TEXTS PROMISE AND THE CODE DOES NOT ALWAYS KEEP.  No run       *)
(* checks these; README.md tells the steps that break each of them.        *)

(* listings.service.ts:329: the tiebreaker is there because "offset        *)
(* pagination can skip or repeat listings between pages".                  *)
SkipsNothing ==
  /\ (shopper.pages > 0 /\ ~shopper.more) =>
        shopper.start \cap Window(shopper.filter) \subseteq Range(shopper.shown)
  /\ IsInjective(shopper.shown)
================================================================================
