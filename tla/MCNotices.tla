------------------------------- MODULE MCNotices -------------------------------
(***************************************************************************)
(* Two scenes.  The ticks: a viewing overdue, whose agent is nudged every  *)
(* day, and a lease that ends, with tenant and owner to be told: a part    *)
(* before the other.  And the bell of one of them, in an open page.        *)
(***************************************************************************)
EXTENDS Notices, Bell, TLC

CONSTANTS v1, l1, p1, p2, w1, w2, k1, k2

VARIABLE scene

mcVars == <<vars, bellVars, scene>>

MCPartOf == v1 :> "nudge" @@ l1 :> "end"
MCRecipientsOf == v1 :> <<p1>> @@ l1 :> <<p1, p2>>

MCInit == Init /\ BellInit /\ scene \in {"ticks", "bell"}

MCNext ==
  /\ scene' = scene
  /\ \/ scene = "ticks" /\ Next /\ UNCHANGED bellVars
     \/ scene = "bell" /\ BellNext /\ UNCHANGED vars

MCSpec ==
  /\ MCInit /\ [][MCNext]_mcVars
  /\ scene = "ticks" => TickFairness
  /\ scene = "bell" => BellFairness
================================================================================
