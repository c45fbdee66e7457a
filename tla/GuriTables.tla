------------------------------ MODULE GuriTables ------------------------------
(***************************************************************************)
(* The transition tables and the status derivation that the API, the web   *)
(* app and the jobs all import from packages/shared.  A table is a set of  *)
(* <<from, action, to>> rows.                                              *)
(***************************************************************************)

NoDeal == "none"    \* the `from: null' of a deal that has no row yet

DealStates ==
  {"requested", "viewing_scheduled", "awaiting_docs", "docs_in_review",
   "approved", "closed", "expired", "withdrawn", "declined_by_agency",
   "no_show", "declined", "docs_rejected"}

(* Still in play: the customer can withdraw from any of these.             *)
DealOpenStates ==
  {"requested", "viewing_scheduled", "awaiting_docs", "docs_in_review",
   "approved"}

(* Holds the listing's one active slot.  A bare request does not.          *)
DealReservingStates == DealOpenStates \ {"requested"}

DealTerminalStates == DealStates \ DealOpenStates

DealTransitions ==
  {<<NoDeal, "request", "requested">>,
   <<"requested", "schedule_viewing", "viewing_scheduled">>,
   <<"requested", "decline_request", "declined_by_agency">>,
   <<"requested", "expire", "expired">>,
   <<"viewing_scheduled", "reschedule_viewing", "viewing_scheduled">>,
   <<"viewing_scheduled", "record_no_show", "no_show">>,
   <<"viewing_scheduled", "record_declined", "declined">>,
   <<"viewing_scheduled", "record_proceeding", "awaiting_docs">>,
   <<"viewing_scheduled", "expire", "expired">>,
   <<"awaiting_docs", "submit_documents", "docs_in_review">>,
   <<"docs_rejected", "resubmit_documents", "docs_in_review">>,
   <<"docs_in_review", "approve_documents", "approved">>,
   <<"docs_in_review", "reject_documents", "docs_rejected">>,
   <<"approved", "close", "closed">>}
  \cup {<<s, "withdraw", "withdrawn">> : s \in DealOpenStates}

LeaseStatuses == {"active", "ending_soon", "renewed", "ended", "vacated"}

(* Mutant: the timer's status is forgotten among the live ones.            *)
LeaseLiveStatuses_ActiveOnly == {"active"}

LeaseLiveStatuses == {"active", "ending_soon"}

LeaseTransitions ==
  {<<"active", "mark_ending_soon", "ending_soon">>,
   <<"ending_soon", "renew", "renewed">>,
   <<"ending_soon", "record_move_out", "vacated">>,
   <<"active", "record_move_out", "vacated">>}

ListingStatuses == {"available", "reserved", "rented"}

(* Listing status is an output of this rule, never an input of a handler.  *)
DeriveListingStatus(hasLiveLease, hasReservingDeal) ==
  IF hasLiveLease THEN "rented"
  ELSE IF hasReservingDeal THEN "reserved"
  ELSE "available"

(* States whose identity documents the retention job deletes.              *)
PurgeDealStates == DealTerminalStates \ {"closed"}
===============================================================================
