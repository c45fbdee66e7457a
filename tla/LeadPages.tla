------------------------------- MODULE LeadPages -------------------------------
(***************************************************************************)
(* The owner's side of a lead in the browser: the wizard that submits a    *)
(* house, and the tracker that shows what became of it.  What they let the *)
(* owner do next, and to which agencies.                                   *)
(***************************************************************************)
EXTENDS Intakes

CONSTANTS Districts,
          DistrictOf,  \* the district of an intake
          Serves       \* agencies.districts: where an agency works

ASSUME LeadPagesAssumption ==
  /\ DistrictOf \in [Intakes -> Districts]
  /\ Serves \in [Agencies -> SUBSET Districts]

(* The agencies listed for a district, in the wizard and on the tracker.   *)
Directory(district) == {a \in active : district \in Serves[a]}

(* The wizard starts with the agency of its address, ?agency=, whatever    *)
(* that is, and keeps it when a district is chosen; its last step lists    *)
(* the directory and submits as soon as there is any agency.               *)
Forms == [district : Districts, photos : BOOLEAN, agency : Agencies \cup {Null}]
WizardOffers(form) ==
  IF form.photos /\ form.agency # Null THEN {"submit"} ELSE {}

TrackerOffers(i) ==
  CASE status[i] = "accepted"               -> {"contact"}
    [] status[i] = "converted"              -> {"view listing"}
    [] status[i] \in {"declined", "expired"} -> {"reassign"}
    [] OTHER                                -> {}

--------------------------------------------------------------------------------
(* WHAT THE TEXTS PROMISE AND THE CODE DOES NOT ALWAYS KEEP.  No run       *)
(* checks these; README.md tells the steps that break each of them.        *)

(* SPEC.md:374: until conversion the owner is free to try another agency.  *)
FreeUntilConverted ==
  \A i \in Intakes : ~(status[i] = "accepted" /\ agency[i] \notin active)

(* SPEC.md:367: the owner of an expired lead is prompted to choose another *)
(* agency; there is one to choose.                                         *)
OwnerCanChooseAgain ==
  \A i \in Intakes : "reassign" \in TrackerOffers(i) => Directory(DistrictOf[i]) # {}

(* SPEC.md:378: the wizard's agency is picked from the directory, by       *)
(* district.                                                               *)
PickedFromDirectory ==
  \A form \in Forms : "submit" \in WizardOffers(form) => form.agency \in Directory(form.district)

(* intake tracker, page.tsx:127: a converted lead's listing can be viewed; *)
(* before it is published its page is not found.                           *)
ListingCanBeViewed ==
  \A i \in Intakes : "view listing" \in TrackerOffers(i) => listing[i] \in published

(* intakes.service.ts:196: a lead is a listing once and for all: nobody is *)
(* offered to send it on.                                                  *)
NoDraftSentOn ==
  \A i \in Intakes : "reassign" \in TrackerOffers(i) => listing[i] = Null
================================================================================
