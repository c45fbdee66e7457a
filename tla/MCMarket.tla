-------------------------------- MODULE MCMarket --------------------------------
(***************************************************************************)
(* One market in four scenes, each a part of the market while the rest     *)
(* stands still: applicants and platform admins founding agencies; two     *)
(* desks editing the listings of an agency that may be suspended, one home *)
(* made by hand and one converted from an intake; a shopper going through  *)
(* the public list; an agency's books.                                     *)
(***************************************************************************)
EXTENDS Consoles, Books, TLC

CONSTANTS h1, h2, h3, i1, i2, i3, i4, w1, w2, a1, a2, g1, g2, g3, e1, p1, p2,
          l1, l2, l3, o1, o2

MaxMoved == 2   \* homes that come or leave while one list is read

VARIABLE scene

mcVars == <<marketVars, booksVars, scene>>

TwoDesks == w1 :> {"add"} @@ w2 :> {"update", "publish"}
SameFounder == [a \in Applications |-> e1]
Agency == h1 :> g1 @@ h2 :> g1 @@ h3 :> g2
Ids == h1 :> 1 @@ h2 :> 2 @@ h3 :> 3
LeaseOwner == l1 :> o1 @@ l2 :> o2 @@ l3 :> o1
LeaseAgency == l1 :> g1 @@ l2 :> g2 @@ l3 :> g2
ImageSymmetry == Permutations(Images)

(* Agencies made by hand, as the platform admin makes them.                *)
Founded ==
  /\ app = [a \in Applications |-> [status |-> "none", agency |-> Null]]
  /\ agency = [g \in Agencies |-> IF g = g3 THEN Null
                 ELSE [status |-> "active", founder |-> e1, from |-> Null]]
  /\ console = [p \in Admins |-> IdleConsole]

(* Drafts with a photo each, attested; some of them published, in turn.    *)
Drafted ==
  /\ exists = Listings /\ verified = Listings
  /\ \E keys \in [Listings -> Images] :
       /\ IsInjective(keys)
       /\ photos = [l \in Listings |-> <<keys[l]>>]
       /\ owned = {keys[l] : l \in Listings}
  /\ thumbs = [l \in Listings |-> IF l \in FromIntake THEN <<>> ELSE photos[l]]
  /\ job = [w \in Workers |-> Idle]
  /\ rent \in [Listings -> Rents] /\ let = {} /\ shopper = Away
  /\ news \in {<<h3, h1, h2>>, <<h3, h1>>} /\ published = Range(news)

MCInit ==
  /\ BooksInit
  /\ scene \in {"founding", "desk", "street", "books"}
  /\ IF scene = "founding" THEN OnboardingInit ELSE Founded
  /\ IF scene = "street" THEN Drafted
     ELSE Init /\ MarketInit /\ rent = [l \in Listings |-> 1]

MCNext ==
  /\ scene' = scene
  /\ \/ /\ scene = "founding" /\ OnboardingNext
        /\ UNCHANGED <<vars, street, booksVars>>
     \/ /\ scene = "desk" /\ (EditorCalls \/ PublishCalls \/ Moves)
        /\ exists' \subseteq {h1, h2}
        /\ UNCHANGED booksVars
     \/ /\ scene = "street" /\ (Street \/ PublishCalls \/ Moves)
        /\ Cardinality(shopper'.came) + Cardinality(shopper'.left) <= MaxMoved
        /\ UNCHANGED booksVars
     \/ /\ scene = "books" /\ BooksNext
        /\ UNCHANGED marketVars

MCSpec == MCInit /\ [][MCNext]_mcVars
================================================================================
