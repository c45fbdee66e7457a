--------------------------------- MODULE Staff ---------------------------------
(***************************************************************************)
(* The staff of one agency: adding agents, removing and restoring workers, *)
(* the permission to verify, and the hand-over of a removed worker's deals *)
(* to a colleague.  Handlers are split where they await the database; the  *)
(* guard that admits a request is part of the call's first step.  Deals    *)
(* follow the transition table; what else their handlers do is the         *)
(* business of DealLifecycle.                                              *)
(***************************************************************************)
EXTENDS GuriTables

CONSTANTS People, Deals,
          Founders,   \* who holds an admin row: createAgency gives one, the
                      \* tests and an operator may insert more
          NoOne,
          Workers, Duties,
          MayCrash

StaffCalls == {"add", "patch", "select", "advance"}

ASSUME StaffAssumption ==
  /\ Founders \subseteq People /\ Founders # {}
  /\ NoOne \notin People \cup Deals
  /\ Duties \in [Workers -> SUBSET StaffCalls]
  /\ MayCrash \in BOOLEAN

VARIABLES
  row,       \* agency_members: one row per person and role
  deal,      \* deals.state
  agent,     \* deals.agent_id
  job

vars == <<row, deal, agent, job>>

Roles == {"admin", "agent"}
Rows == [status : {"none", "active", "inactive"}, canVerify : BOOLEAN]

Has(p, role) == row[p][role].status = "active"

(* The people a guarded request of the agency may come from.               *)
Working(p) == \E role \in Roles : Has(p, role)

Steps == {"add", "find_admin", "find_deals", "find_agent", "find_head",
          "hand_over", "write", "schedule"}

(* active and canVerify are the fields of a patch, "same" when absent.     *)
Settings == {"on", "off", "same"}

JobRows == [at : Steps \cup {"idle"}, actor : People \cup {NoOne},
            person : People \cup {NoOne}, active : Settings, canVerify : Settings,
            deals : SUBSET Deals]

Idle == [at |-> "idle", actor |-> NoOne, person |-> NoOne,
         active |-> "same", canVerify |-> "same", deals |-> {}]

TypeOK ==
  /\ row \in [People -> [Roles -> Rows]]
  /\ deal \in [Deals -> DealStates]
  /\ agent \in [Deals -> People \cup {NoOne}]
  /\ job \in [Workers -> JobRows]

NoMember == [status |-> "none", canVerify |-> FALSE]

(* The admin rows there are can verify; deals are requests nobody has      *)
(* taken on.                                                               *)
Init ==
  /\ row = [p \in People |-> [role \in Roles |->
              IF role = "admin" /\ p \in Founders
              THEN [status |-> "active", canVerify |-> TRUE] ELSE NoMember]]
  /\ deal = [d \in Deals |-> "requested"]
  /\ agent = [d \in Deals |-> NoOne]
  /\ job = [w \in Workers |-> Idle]

Begin(w, call, j) ==
  /\ job[w].at = "idle" /\ call \in Duties[w]
  /\ job' = [job EXCEPT ![w] = j]
  /\ UNCHANGED <<row, deal, agent>>

Goto(w, step) == job' = [job EXCEPT ![w].at = step]
Return(w) == job' = [job EXCEPT ![w] = Idle]

--------------------------------------------------------------------------------
(* addAgent: one transaction; a former agent's row is switched on again    *)
(* with the permissions it had.                                            *)
BeginAdd(w, actor, p) ==
  /\ Has(actor, "admin")
  /\ Begin(w, "add", [Idle EXCEPT !.at = "add", !.actor = actor, !.person = p])

Add(w) ==
  LET p == job[w].person IN
  /\ job[w].at = "add"
  /\ row' = [row EXCEPT ![p]["agent"].status = "active"]
  /\ Return(w)
  /\ UNCHANGED <<deal, agent>>

(* patch reads the person's rows; removing an active admin asks for        *)
(* another one, removing anyone else does not.                             *)
BeginPatch(w, actor, p, active, canVerify) ==
  /\ Has(actor, "admin")
  /\ \E role \in Roles : row[p][role].status # "none"
  /\ ~(active = "same" /\ canVerify = "same")
  /\ Begin(w, "patch",
       [Idle EXCEPT !.at = IF active # "off" THEN "write"
                           ELSE IF Has(p, "admin") THEN "find_admin" ELSE "find_deals",
                    !.actor = actor, !.person = p,
                    !.active = active, !.canVerify = canVerify])

(* Mutant: any colleague will do.                                          *)
FindAdmin_AnyRole(w) ==
  /\ job[w].at = "find_admin"
  /\ IF \E q \in People \ {job[w].person} : Working(q)
     THEN Goto(w, "find_deals") ELSE Return(w)
  /\ UNCHANGED <<row, deal, agent>>

FindAdmin(w) ==
  /\ job[w].at = "find_admin"
  /\ IF \E q \in People \ {job[w].person} : Has(q, "admin")
     THEN Goto(w, "find_deals") ELSE Return(w)
  /\ UNCHANGED <<row, deal, agent>>

(* Mutant: deals whose documents are in are no longer the agent's to run.  *)
FindDeals_ViewingsOnly(w) ==
  /\ job[w].at = "find_deals"
  /\ LET live == {d \in Deals : agent[d] = job[w].person /\ deal[d] = "viewing_scheduled"} IN
     job' = [job EXCEPT ![w].deals = live,
                        ![w].at = IF live = {} THEN "write" ELSE "find_agent"]
  /\ UNCHANGED <<row, deal, agent>>

FindDeals(w) ==
  /\ job[w].at = "find_deals"
  /\ LET live == {d \in Deals : agent[d] = job[w].person /\ deal[d] \in DealOpenStates} IN
     job' = [job EXCEPT ![w].deals = live,
                        ![w].at = IF live = {} THEN "write" ELSE "find_agent"]
  /\ UNCHANGED <<row, deal, agent>>

(* The colleague who takes over: an active agent, else an active admin,    *)
(* else nobody.                                                            *)
Colleagues(p, role) == {q \in People \ {p} : Has(q, role)}

Chosen(w, q) == job' = [job EXCEPT ![w].at = "hand_over", ![w].actor = q]

FindAgent(w) ==
  LET found == Colleagues(job[w].person, "agent") IN
  /\ job[w].at = "find_agent"
  /\ IF found # {} THEN \E q \in found : Chosen(w, q) ELSE Goto(w, "find_head")
  /\ UNCHANGED <<row, deal, agent>>

FindHead(w) ==
  LET found == Colleagues(job[w].person, "admin") IN
  /\ job[w].at = "find_head"
  /\ \E q \in IF found # {} THEN found ELSE {NoOne} : Chosen(w, q)
  /\ UNCHANGED <<row, deal, agent>>

HandOver(w) ==
  /\ job[w].at = "hand_over"
  /\ agent' = [d \in Deals |-> IF d \in job[w].deals THEN job[w].actor ELSE agent[d]]
  /\ Goto(w, "write")
  /\ UNCHANGED <<row, deal>>

Changed(r, j) ==
  [status |-> IF r.status = "none" \/ j.active = "same" THEN r.status
              ELSE IF j.active = "on" THEN "active" ELSE "inactive",
   canVerify |-> IF r.status = "none" \/ j.canVerify = "same" THEN r.canVerify
                 ELSE j.canVerify = "on"]

(* updateMany on all rows of the person.                                   *)
Write(w) ==
  LET j == job[w] IN
  /\ j.at = "write"
  /\ row' = [row EXCEPT ![j.person] = [role \in Roles |-> Changed(@[role], j)]]
  /\ Return(w)
  /\ UNCHANGED <<deal, agent>>

--------------------------------------------------------------------------------
(* select makes the acting worker the deal's agent.                        *)
BeginSelect(w, actor, d) ==
  /\ Working(actor) /\ deal[d] = "requested"
  /\ Begin(w, "select", [Idle EXCEPT !.at = "schedule", !.actor = actor, !.deals = {d}])

Schedule(w) ==
  /\ job[w].at = "schedule"
  /\ deal' = [d \in Deals |-> IF d \in job[w].deals THEN "viewing_scheduled" ELSE deal[d]]
  /\ agent' = [d \in Deals |-> IF d \in job[w].deals THEN job[w].actor ELSE agent[d]]
  /\ Return(w)
  /\ UNCHANGED row

(* Every other step of a deal, by its customer, its agency or a timer.      *)
Advance(w, d) ==
  /\ job[w].at = "idle" /\ "advance" \in Duties[w]
  /\ \E action \in {t[2] : t \in DealTransitions} \ {"schedule_viewing"}, to \in DealStates :
        /\ <<deal[d], action, to>> \in DealTransitions
        /\ deal' = [deal EXCEPT ![d] = to]
  /\ UNCHANGED <<row, agent, job>>

Crash(w) ==
  /\ MayCrash /\ job[w].at # "idle"
  /\ Return(w)
  /\ UNCHANGED <<row, deal, agent>>

BeginCall(w) ==
  \E actor \in People :
     \/ \E p \in People :
           \/ BeginAdd(w, actor, p)
           \/ \E active, canVerify \in Settings : BeginPatch(w, actor, p, active, canVerify)
     \/ \E d \in Deals : BeginSelect(w, actor, d)

Step(w) ==
  \/ Add(w) \/ FindAdmin(w) \/ FindDeals(w) \/ FindAgent(w) \/ FindHead(w)
  \/ HandOver(w) \/ Write(w) \/ Schedule(w)

Next ==
  \E w \in Workers :
     \/ BeginCall(w) \/ Step(w) \/ Crash(w)
     \/ \E d \in Deals : Advance(w, d)

Spec == Init /\ [][Next]_vars

--------------------------------------------------------------------------------
(* PROPERTIES                                                              *)

(* The agency keeps an active admin, through any sequence of removals,     *)
(* re-hirings and restorations (staff.service.ts:119).                     *)
NeverHeadless == \E p \in People : Has(p, "admin")

(* Removing a worker leaves none of the deals in play with him, and a deal *)
(* only ever changes hands to somebody who works there.                    *)
RemovalOrphansNoDeal ==
  [][/\ \A p \in People : Working(p) /\ ~Working(p)' =>
          \A d \in Deals : deal[d] \in DealOpenStates => agent[d] # p
     /\ \A d \in Deals : agent'[d] # agent[d] => \E p \in People : agent'[d] = p /\ Working(p)']_vars

--------------------------------------------------------------------------------
(* WHAT THE TEXTS PROMISE AND THE CODE DOES NOT ALWAYS KEEP.  No run       *)
(* checks these; README.md tells the steps that break each of them.        *)

(* staff.service.ts:136: a deactivated agent's live deals must never be    *)
(* orphaned.                                                               *)
NoOrphanDeal ==
  \A d \in Deals : deal[d] \in DealReservingStates => agent[d] # NoOne /\ Working(agent[d])
================================================================================
