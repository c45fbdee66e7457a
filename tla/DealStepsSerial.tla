---------------------------- MODULE DealStepsSerial ----------------------------
(***************************************************************************)
(* Calls that run one at a time and to their end are atomic: DealSteps,    *)
(* watched whenever no call is half done, is DealLifecycle.  settled keeps *)
(* the tables as they were at the last such moment; a timer's loop is      *)
(* settled after each row it visits.                                       *)
(***************************************************************************)
EXTENDS DealSteps

VARIABLE settled

Tables == [deal |-> deal, agreement |-> agreement, lease |-> lease, status |-> status,
           doc |-> [d \in Deals |-> IF docs[d] = << >> THEN "none" ELSE docs[d][Len(docs[d])]]]

BetweenCalls(j) ==
  \/ j.at = "idle"
  \/ j.at = "read" /\ j.call \in {"expire_requests", "expire_viewings"}

SInit == Init /\ settled = Tables

SNext ==
  /\ Next
  /\ settled' = IF \A w \in Workers : BetweenCalls(job'[w]) THEN Tables' ELSE settled

SSpec == SInit /\ [][SNext]_<<vars, settled>>

Lifecycle == INSTANCE DealLifecycle
  WITH deal <- settled.deal, doc <- settled.doc, agreement <- settled.agreement,
       lease <- settled.lease, status <- settled.status

(* One call at a time behaves as one atomic step of DealLifecycle or as    *)
(* none: whatever a handler does between its first read and its last       *)
(* write, its effect as a whole is a handler of the abstract machine.      *)
ImplementsLifecycle == Lifecycle!Spec
================================================================================
