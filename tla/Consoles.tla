------------------------------- MODULE Consoles -------------------------------
(***************************************************************************)
(* What the pages of the market offer, freshly loaded, against what the    *)
(* service behind them takes, and the figures they show for the same       *)
(* homes: the listing editor, the public list, the page of a home, the     *)
(* directory of agencies, the sitemap and the two overviews.               *)
(***************************************************************************)
EXTENDS Market

(* What the editor's page shows of a listing.                              *)
EditorView(l) == [published |-> l \in published, verified |-> l \in verified,
                  photos |-> Len(photos[l])]

(* Mutant: the button is not disabled while there are no photos.           *)
EditorOffers_NoPhotos(view) ==
  {"save", "photos", "owner doc"} \cup
  (IF view.published THEN {"requests"}
   ELSE {"attest"} \cup IF view.verified THEN {"publish"} ELSE {})

EditorOffers(view) ==
  {"save", "photos", "owner doc"} \cup
  (IF view.published THEN {"requests"}
   ELSE {"attest"} \cup IF view.verified /\ view.photos > 0 THEN {"publish"} ELSE {})

(* The console's list leads to the editor of every listing of the agency.  *)
ConsoleList(g) == {l \in exists : AgencyOf[l] = g}

ServeEditor(call, l) ==
  /\ l \in exists /\ DeskOpen(l)
  /\ CASE call = "publish" -> Publishable(l)
       [] call = "photos"  -> Len(photos[l]) < MAX_PHOTOS
       [] OTHER            -> TRUE

(* Whoever looks for an agency to list a house with finds these.           *)
Directory == {g \in Made : agency[g].status = "active"}

--------------------------------------------------------------------------------
(* THE SAME HOMES, COUNTED                                                 *)

Everything == [min |-> 0, max |-> NoLimit]
Cards == Window(Everything)
DetailFound(l) == l \in OnShow

(* agencies-directory.service: it does not ask for the agency's status.    *)
LiveListings(g) == Cardinality({l \in published \ let : AgencyOf[l] = g})

(* The figure beside the badge on the page of one of the agency's homes.   *)
ListingCount(g) == Cardinality({l \in OnShow : AgencyOf[l] = g})

(* The agency's dashboard: available and reserved.                         *)
ActiveListings(g) == Cardinality({l \in ConsoleList(g) : l \in published /\ l \notin let})

(* The platform's overview counts every published home of active agencies. *)
PlatformListings == Cardinality({l \in published : DeskOpen(l)})

(* The sitemap goes through the first pages of the public list.            *)
Sitemap(pages) ==
  LET shown == pages * BROWSE_PAGE_SIZE IN
  {{q[i] : i \in 1 .. IF shown < Len(q) THEN shown ELSE Len(q)} :
     q \in Orders("newest", Cards)}

--------------------------------------------------------------------------------
(* PROPERTIES                                                              *)

(* What a fresh page of the editor offers the service takes - but for the  *)
(* photos, whose limit the page does not know (console/listings/[id]       *)
(* /page.tsx:177) - and publishing is offered as soon as it is taken.      *)
EditorAgrees ==
  \A l \in exists : DeskOpen(l) =>
    /\ \A call \in EditorOffers(EditorView(l)) \ {"photos"} : ServeEditor(call, l)
    /\ Publishable(l) => "publish" \in EditorOffers(EditorView(l))

(* The list, the pages it leads to, the directory, the agency's own        *)
(* dashboard and the sitemap mean the same homes.                          *)
SameHomes ==
  /\ \A l \in Cards : DetailFound(l)
  /\ \A g \in Directory :
       LET n == Cardinality({l \in Cards : AgencyOf[l] = g}) IN
       LiveListings(g) = n /\ ListingCount(g) = n /\ ActiveListings(g) = n
  /\ {Cards} = Sitemap(Cardinality(Listings))

(* The pages of the market offer what the service takes and count the same *)
(* homes.                                                                  *)
ConsolesAgree == EditorAgrees /\ SameHomes

--------------------------------------------------------------------------------
(* WHAT THE TEXTS PROMISE AND THE CODE DOES NOT ALWAYS KEEP.  No run       *)
(* checks these; README.md tells the steps that break each of them.        *)

(* en.json:511 and :775 call both figures "Active listings".               *)
ActiveListingsIsOneFigure ==
  PlatformListings = Cardinality(Cards)

(* layout.tsx:43 opens the console to everybody with a membership, the     *)
(* guard behind its pages to nobody of a suspended agency.                 *)
OpenConsoleServes == \A l \in exists : DeskOpen(l)
================================================================================
