------------------------------- MODULE MCIntakes -------------------------------
(***************************************************************************)
(* One lead, and two agencies, so that it can be handed on.  Two scenes,   *)
(* after who overlaps the other: the timer everybody else, or the owner    *)
(* the agencies and the timer.                                             *)
(***************************************************************************)
EXTENDS LeadPages, TLC

CONSTANTS i1, a1, a2, p1, f1, f2, d1, d2, w1, w2

VARIABLE scene

MCOwnerOf == [i \in Intakes |-> p1]
MCDistrictOf == [i \in Intakes |-> d1]
MCServes == a1 :> {d1} @@ a2 :> {d1, d2}

OwnerSteps == {"insert", "resend"}

(* The first step of each call that w2 makes beside w1.                    *)
Beside == [timer |-> {"expired"}, owner |-> OwnerSteps]

MCDuties == w1 :> IntakeCalls @@ w2 :> {"submit", "reassign", "expire"}

MCInit == Init /\ scene \in DOMAIN Beside

MCNext ==
  /\ Next /\ scene' = scene
  /\ job[w1].at = "idle" => job'[w1].at \notin Beside[scene]
  /\ job[w2].at = "idle" => job'[w2].at \in Beside[scene] \cup {"idle"}

(* The timer has a worker of its own, or its turn at that of the agencies. *)
OwnTick == scene = "timer" /\ BeginExpire(w2)
TickBetween == scene = "owner" /\ BeginExpire(w1)

MCSpec ==
  /\ MCInit /\ [][MCNext]_<<vars, scene>>
  /\ WF_vars(OwnTick) /\ SF_vars(TickBetween) /\ GoesOn
================================================================================
