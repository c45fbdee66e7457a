----------------------------- MODULE Staff_proofs -----------------------------
(***************************************************************************)
(* One agency's staff, for every number of people, founders and deals,     *)
(* with calls cut short after any step.                                    *)
(*                                                                         *)
(* IInv says what a call in the middle of its work still knows when calls  *)
(* run in turn: that somebody else is an active admin, which deals are to  *)
(* be handed over and that the colleague who gets them works there, and,   *)
(* before the write that removes a worker, that no deal in play is left    *)
(* with them. Headed keeps of it what is true when only removals take      *)
(* turns, Typed what is true whatever overlaps.                            *)
(***************************************************************************)
EXTENDS Staff, TLAPS

(* One worker makes all the calls.                                         *)
InTurn == \A v, w \in Workers : Duties[v] # {} /\ Duties[w] # {} => v = w

Removing == {"find_admin", "find_deals", "find_agent", "find_head", "hand_over"}

JobFacts(w, j) ==
  /\ j \in JobRows
  /\ j.at # "idle" => Duties[w] # {}
  /\ j.at \in Removing => j.active = "off"
  /\ j.at \in Removing \cup {"add", "write"} => j.person \in People
  /\ j.at \in {"schedule", "hand_over"} => j.actor \in People

OtherAdmin(p) == \E q \in People \ {p} : Has(q, "admin")

InPlay(p) == {d \in Deals : agent[d] = p /\ deal[d] \in DealOpenStates}

Holds(j) ==
  /\ j.at \in (Removing \ {"find_admin"}) \cup {"write"} /\ j.active = "off"
       => OtherAdmin(j.person)
  /\ j.at \in {"find_agent", "find_head", "hand_over"} => j.deals = InPlay(j.person)
  /\ j.at = "hand_over" => Working(j.actor) /\ j.actor # j.person
  /\ j.at = "write" /\ j.active = "off" => InPlay(j.person) = {}
  /\ j.at = "schedule" => Working(j.actor)

Jobs == job \in [Workers -> JobRows] /\ \A w \in Workers : JobFacts(w, job[w])

IInv == TypeOK /\ Jobs /\ NeverHeadless /\ \A w \in Workers : Holds(job[w])

--------------------------------------------------------------------------------
LEMMA IdleFacts == ASSUME NEW w PROVE JobFacts(w, Idle) /\ Holds(Idle)
BY DEF JobFacts, Holds, Idle, JobRows, Settings, Removing

(* A job that is somewhere else than idle knows nothing if the others do   *)
(* not, and in turn there are no others.                                   *)
LEMMA JobMoves ==
  ASSUME InTurn, Jobs, NEW w \in Workers, Duties[w] # {}, NEW j, JobFacts(w, j),
         job' = [job EXCEPT ![w] = j]
  PROVE  /\ Jobs' /\ job'[w] = j
         /\ \A v \in Workers \ {w} : job'[v].at = "idle"
<1>1. /\ job' \in [Workers -> JobRows] /\ job'[w] = j
      /\ \A v \in Workers \ {w} : job'[v] = job[v]
  BY DEF Jobs, JobFacts
<1>2. \A v \in Workers : JobFacts(v, job'[v])
  BY <1>1 DEF Jobs
<1>3. \A v \in Workers \ {w} : job[v].at = "idle"
  BY DEF Jobs, JobFacts, InTurn
<1>4. QED BY <1>1, <1>2, <1>3 DEF Jobs

(* The frame of every step: the tables it leaves well-formed, somebody in  *)
(* charge, and its own job with what it knows.                             *)
LEMMA Frame ==
  ASSUME InTurn, IInv, NEW w \in Workers, Duties[w] # {}, NEW j, JobFacts(w, j),
         job' = [job EXCEPT ![w] = j], Holds(j)', NeverHeadless',
         row' \in [People -> [Roles -> Rows]],
         deal' \in [Deals -> DealStates],
         agent' \in [Deals -> People \cup {NoOne}]
  PROVE  IInv'
<1>1. /\ Jobs' /\ job'[w] = j /\ \A v \in Workers \ {w} : job'[v].at = "idle"
  BY JobMoves DEF IInv
<1>2. \A v \in Workers : Holds(job[v])'
  <2>1. Holds(job[w])'
    BY <1>1 DEF Holds, InPlay, OtherAdmin, Working, Has
  <2>2. ASSUME NEW v \in Workers \ {w} PROVE Holds(job[v])'
    BY <1>1 DEF Holds, Removing
  <2>3. QED BY <2>1, <2>2
<1>3. QED BY <1>1, <1>2 DEF IInv, TypeOK, Jobs

(* Steps that change nothing but their job.                                *)
LEMMA Looks ==
  ASSUME InTurn, IInv, NEW w \in Workers, Duties[w] # {}, NEW j, JobFacts(w, j),
         job' = [job EXCEPT ![w] = j], Holds(j), UNCHANGED <<row, deal, agent>>
  PROVE  IInv'
<1>1. Holds(j)' /\ NeverHeadless'
  BY DEF IInv, Holds, NeverHeadless, OtherAdmin, InPlay, Working, Has
<1>2. QED BY <1>1, Frame DEF IInv, TypeOK

(* A worker who is not the only admin, or no admin, leaves another one.    *)
LEMMA SomebodyElse ==
  ASSUME NeverHeadless, NEW p \in People, ~ Has(p, "admin")
  PROVE  OtherAdmin(p)
BY DEF NeverHeadless, OtherAdmin

--------------------------------------------------------------------------------
LEMMA BeginStep ==
  ASSUME InTurn, IInv, NEW w \in Workers, BeginCall(w) PROVE IInv' /\ UNCHANGED <<row, deal, agent>>
<1> USE DEF Steps, Settings, Removing
<1>1. ASSUME NEW actor \in People, NEW p \in People, BeginAdd(w, actor, p)
      PROVE  IInv' /\ UNCHANGED <<row, deal, agent>>
  <2> DEFINE j == [Idle EXCEPT !.at = "add", !.actor = actor, !.person = p]
  <2>1. /\ job' = [job EXCEPT ![w] = j] /\ Duties[w] # {}
        /\ UNCHANGED <<row, deal, agent>>
    BY <1>1 DEF BeginAdd, Begin
  <2>2. j \in JobRows /\ j.at = "add" /\ j.person = p
    BY DEF Idle, JobRows
  <2> HIDE DEF j
  <2>3. JobFacts(w, j) /\ Holds(j)
    BY <2>1, <2>2 DEF JobFacts, Holds
  <2>4. QED BY <2>1, <2>3, Looks
<1>2. ASSUME NEW actor \in People, NEW p \in People,
             NEW active \in Settings, NEW canVerify \in Settings,
             BeginPatch(w, actor, p, active, canVerify)
      PROVE  IInv' /\ UNCHANGED <<row, deal, agent>>
  <2> DEFINE at == IF active # "off" THEN "write"
                   ELSE IF Has(p, "admin") THEN "find_admin" ELSE "find_deals"
             j == [Idle EXCEPT !.at = at, !.actor = actor, !.person = p,
                               !.active = active, !.canVerify = canVerify]
  <2>1. /\ job' = [job EXCEPT ![w] = j] /\ Duties[w] # {}
        /\ UNCHANGED <<row, deal, agent>>
    BY <1>2 DEF BeginPatch, Begin
  <2>2. at \in {"write", "find_admin", "find_deals"}
    OBVIOUS
  <2>3. /\ at = "write" <=> active # "off"
        /\ at = "find_deals" => OtherAdmin(p)
    BY SomebodyElse DEF IInv
  <2> HIDE DEF at
  <2>4. j \in JobRows /\ j.at = at /\ j.person = p /\ j.active = active
    BY <2>2 DEF Idle, JobRows
  <2> HIDE DEF j
  <2>5. JobFacts(w, j) /\ Holds(j)
    BY <2>1, <2>2, <2>3, <2>4 DEF JobFacts, Holds
  <2>6. QED BY <2>1, <2>5, Looks
<1>3. ASSUME NEW actor \in People, NEW d \in Deals, BeginSelect(w, actor, d)
      PROVE  IInv' /\ UNCHANGED <<row, deal, agent>>
  <2> DEFINE j == [Idle EXCEPT !.at = "schedule", !.actor = actor, !.deals = {d}]
  <2>1. /\ job' = [job EXCEPT ![w] = j] /\ Duties[w] # {} /\ Working(actor)
        /\ UNCHANGED <<row, deal, agent>>
    BY <1>3 DEF BeginSelect, Begin
  <2>2. j \in JobRows /\ j.at = "schedule" /\ j.actor = actor
    BY DEF Idle, JobRows
  <2> HIDE DEF j
  <2>3. JobFacts(w, j) /\ Holds(j)
    BY <2>1, <2>2 DEF JobFacts, Holds
  <2>4. QED BY <2>1, <2>3, Looks
<1>4. QED BY <1>1, <1>2, <1>3 DEF BeginCall

--------------------------------------------------------------------------------
(* The looks of a removal: for an admin who stays, for the deals in play,  *)
(* for a colleague who takes them.                                         *)
LEMMA FindStep ==
  ASSUME InTurn, IInv, NEW w \in Workers,
         \/ FindAdmin(w) \/ FindDeals(w) \/ FindAgent(w) \/ FindHead(w) \/ Crash(w)
  PROVE  IInv' /\ UNCHANGED <<row, deal, agent>>
<1> DEFINE j == job[w]
<1>1. /\ j \in JobRows /\ JobFacts(w, j) /\ Holds(j)
      /\ job \in [Workers -> JobRows]
  BY DEF IInv, Jobs
<1>2. j.at # "idle" /\ Duties[w] # {}
  BY <1>1 DEF FindAdmin, FindDeals, FindAgent, FindHead, Crash, JobFacts
<1>3. UNCHANGED <<row, deal, agent>>
  BY DEF FindAdmin, FindDeals, FindAgent, FindHead, Crash
<1> HIDE DEF j
<1>4. CASE Return(w)
  BY <1>2, <1>3, <1>4, IdleFacts, Looks DEF Return
<1>5. ASSUME NEW k \in JobRows, job' = [job EXCEPT ![w] = k], k.at \in Removing \cup {"write"},
             k.person = j.person, j.person \in People, k.active = "off",
             k.at = "hand_over" => k.actor \in People, Holds(k)
      PROVE  IInv'
  <2>1. JobFacts(w, k)
    BY <1>2, <1>5 DEF JobFacts, Removing
  <2>2. QED BY <1>2, <1>3, <1>5, <2>1, Looks
<1> USE DEF Removing, Steps
<1>6. CASE FindAdmin(w) /\ ~ Return(w)
  <2> DEFINE k == [j EXCEPT !.at = "find_deals"]
  <2>1. job' = [job EXCEPT ![w] = k] /\ OtherAdmin(j.person) /\ j.at = "find_admin"
    BY <1>1, <1>6 DEF FindAdmin, Goto, OtherAdmin, j
  <2>2. k \in JobRows /\ k.at = "find_deals" /\ k.person = j.person /\ k.active = j.active
    BY <1>1 DEF JobRows
  <2> HIDE DEF k
  <2>3. Holds(k)
    BY <2>1, <2>2 DEF Holds
  <2>4. QED BY <1>1, <1>3, <1>5, <2>1, <2>2, <2>3 DEF JobFacts
<1>7. CASE FindDeals(w)
  <2> DEFINE live == InPlay(j.person)
             k == [j EXCEPT !.deals = live, !.at = IF live = {} THEN "write" ELSE "find_agent"]
  <2>1. job' = [job EXCEPT ![w] = k] /\ j.at = "find_deals"
    BY <1>1, <1>7 DEF FindDeals, InPlay, j
  <2>2. /\ k \in JobRows /\ k.person = j.person /\ k.active = j.active /\ k.deals = live
        /\ k.at = IF live = {} THEN "write" ELSE "find_agent"
    BY <1>1 DEF JobRows, InPlay
  <2> HIDE DEF k
  <2>3. Holds(k)
    BY <1>1, <2>1, <2>2 DEF Holds, JobFacts
  <2>4. QED BY <1>1, <1>3, <1>5, <2>1, <2>2, <2>3 DEF JobFacts
<1>8. ASSUME NEW q \in People \ {j.person}, Working(q), Chosen(w, q),
             j.at \in {"find_agent", "find_head"}
      PROVE  IInv'
  <2> DEFINE k == [j EXCEPT !.at = "hand_over", !.actor = q]
  <2>1. job' = [job EXCEPT ![w] = k]
    BY <1>1, <1>8 DEF Chosen, j
  <2>2. /\ k \in JobRows /\ k.at = "hand_over" /\ k.person = j.person
        /\ k.active = j.active /\ k.actor = q /\ k.deals = j.deals
    BY <1>1 DEF JobRows
  <2> HIDE DEF k
  <2>3. Holds(k)
    BY <1>1, <1>8, <2>2 DEF Holds, JobFacts
  <2>4. QED BY <1>1, <1>5, <1>8, <2>1, <2>2, <2>3 DEF JobFacts
<1>9. CASE FindAgent(w)
  <2>1. CASE Goto(w, "find_head")
    <3> DEFINE k == [j EXCEPT !.at = "find_head"]
    <3>1. job' = [job EXCEPT ![w] = k] /\ j.at = "find_agent"
      BY <1>1, <1>9, <2>1 DEF FindAgent, Goto, j
    <3>2. /\ k \in JobRows /\ k.at = "find_head" /\ k.person = j.person
          /\ k.active = j.active /\ k.deals = j.deals
      BY <1>1 DEF JobRows
    <3> HIDE DEF k
    <3>3. Holds(k)
      BY <1>1, <3>1, <3>2 DEF Holds, JobFacts
    <3>4. QED BY <1>1, <1>3, <1>5, <3>1, <3>2, <3>3 DEF JobFacts
  <2>2. CASE ~ Goto(w, "find_head")
    <3>1. PICK q \in Colleagues(j.person, "agent") : Chosen(w, q)
      BY <1>9, <2>2 DEF FindAgent, j
    <3>2. q \in People \ {j.person} /\ Working(q)
      BY DEF Colleagues, Working, Roles
    <3>3. QED BY <1>3, <1>8, <1>9, <3>1, <3>2 DEF FindAgent, j
  <2>3. QED BY <2>1, <2>2, <1>3
<1>10. CASE FindHead(w)
  <2>1. j.at = "find_head" /\ OtherAdmin(j.person)
    BY <1>1, <1>10 DEF FindHead, Holds, JobFacts, j
  <2>2. Colleagues(j.person, "admin") # {}
    BY <2>1 DEF OtherAdmin, Colleagues
  <2>3. PICK q \in Colleagues(j.person, "admin") : Chosen(w, q)
    BY <1>10, <2>2 DEF FindHead, j
  <2>4. q \in People \ {j.person} /\ Working(q)
    BY DEF Colleagues, Working, Roles
  <2>5. QED BY <1>3, <1>8, <2>1, <2>3, <2>4
<1>11. CASE Crash(w)
  BY <1>3, <1>4, <1>11 DEF Crash
<1>12. QED BY <1>3, <1>4, <1>6, <1>7, <1>9, <1>10, <1>11

--------------------------------------------------------------------------------
(* The hand-over leaves the removed worker without a deal in play.         *)
LEMMA HandOverStep ==
  ASSUME InTurn, IInv, NEW w \in Workers, HandOver(w)
  PROVE  /\ IInv' /\ row' = row
         /\ \A d \in Deals : agent'[d] # agent[d]
              => \E p \in People : agent'[d] = p /\ Working(p)'
<1>j. PICK j : j = job[w]
  OBVIOUS
<1>k. PICK k : k = [j EXCEPT !.at = "write"]
  OBVIOUS
<1>1. /\ j \in JobRows /\ JobFacts(w, j) /\ Holds(j) /\ j.at = "hand_over"
      /\ job' = [job EXCEPT ![w] = k]
  BY <1>j, <1>k DEF IInv, Jobs, HandOver, Goto
<1>2. /\ agent' = [d \in Deals |-> IF d \in j.deals THEN j.actor ELSE agent[d]]
      /\ UNCHANGED <<row, deal>>
  BY <1>j DEF HandOver
<1>3. /\ k \in JobRows /\ k.at = "write" /\ k.person = j.person /\ k.active = j.active
  BY <1>k, <1>1 DEF JobRows, Steps
<1>4. /\ j.actor \in People /\ j.actor # j.person /\ Working(j.actor) /\ j.active = "off"
      /\ j.person \in People /\ j.deals = InPlay(j.person) /\ OtherAdmin(j.person)
      /\ Duties[w] # {}
  BY <1>1 DEF JobFacts, Holds, Removing
<1>5. InPlay(j.person)' = {}
  BY <1>2, <1>4 DEF InPlay
<1>6. OtherAdmin(j.person)' /\ NeverHeadless'
  BY <1>2, <1>4 DEF IInv, OtherAdmin, Has, NeverHeadless
<1>7. Holds(k)'
  <2>1. InPlay(k.person)' = {} /\ OtherAdmin(k.person)'
    BY <1>3, <1>5, <1>6
  <2>2. QED BY <1>3, <2>1 DEF Holds, Removing
<1>8. JobFacts(w, k)
  BY <1>3, <1>4 DEF JobFacts, Removing
<1>9. agent' \in [Deals -> People \cup {NoOne}]
  BY <1>2, <1>4 DEF IInv, TypeOK
<1>10. IInv'
  BY <1>1, <1>2, <1>4, <1>6, <1>7, <1>8, <1>9, Frame DEF IInv, TypeOK
<1>11. QED BY <1>2, <1>4, <1>10 DEF Working, Has

(* What a write leaves of the rows: only the patched person stops being    *)
(* anything, and only if the patch says so.                                *)
LEMMA WritesRows ==
  ASSUME TypeOK, NEW w \in Workers, Write(w), job[w].person \in People
  PROVE  /\ row' \in [People -> [Roles -> Rows]]
         /\ \A p \in People, role \in Roles :
               Has(p, role) /\ ~ Has(p, role)' => p = job[w].person /\ job[w].active = "off"
<1> DEFINE j == job[w]
<1>1. j \in JobRows /\ j.person \in People BY DEF TypeOK
<1>2. row' = [row EXCEPT ![j.person] = [role \in Roles |-> Changed(row[j.person][role], j)]]
  BY <1>1 DEF Write, TypeOK
<1> HIDE DEF j
<1>3. \A r \in Rows : /\ Changed(r, j) \in Rows
                       /\ j.active # "off" /\ r.status = "active"
                            => Changed(r, j).status = "active"
  BY <1>1 DEF Rows, Changed, JobRows, Settings
<1>4. /\ row' \in [People -> [Roles -> Rows]]
      /\ \A p \in People \ {j.person} : row'[p] = row[p]
      /\ \A role \in Roles : row'[j.person][role] = Changed(row[j.person][role], j)
  <2>1. \A p \in People : row[p] \in [Roles -> Rows]
    BY DEF TypeOK
  <2>2. [role \in Roles |-> Changed(row[j.person][role], j)] \in [Roles -> Rows]
    <3>1. \A role \in Roles : row[j.person][role] \in Rows
      BY <1>1, <2>1
    <3>2. \A role \in Roles : Changed(row[j.person][role], j) \in Rows
      BY <1>1, <3>1 DEF Rows, Changed, JobRows, Settings
    <3>3. QED BY <3>2
  <2>3. row' \in [People -> [Roles -> Rows]]
    BY <1>2, <2>2 DEF TypeOK
  <2>4. /\ \A p \in People \ {j.person} : row'[p] = row[p]
        /\ row'[j.person] = [role \in Roles |-> Changed(row[j.person][role], j)]
    BY <1>1, <1>2 DEF TypeOK
  <2>5. QED BY <2>3, <2>4
<1>5. \A p \in People, role \in Roles :
         Has(p, role) /\ ~ Has(p, role)' => p = j.person /\ j.active = "off"
  BY <1>1, <1>3, <1>4 DEF Has, TypeOK
<1> QED BY <1>4, <1>5 DEF j

(* The write of a removal: another admin stays, and nothing in play is     *)
(* with the one who goes.  Nobody else stops working here.                 *)
LEMMA WriteStep ==
  ASSUME InTurn, IInv, NEW w \in Workers, Write(w)
  PROVE  /\ IInv' /\ agent' = agent
         /\ \A p \in People : Working(p) /\ ~ Working(p)' => InPlay(p) = {}
<1> DEFINE j == job[w]
<1>1. /\ j \in JobRows /\ j.person \in People /\ Duties[w] # {}
      /\ j.active = "off" => OtherAdmin(j.person) /\ InPlay(j.person) = {}
  BY DEF IInv, Jobs, JobFacts, Holds, Write, Removing
<1>2. /\ row' = [row EXCEPT ![j.person] = [role \in Roles |-> Changed(row[j.person][role], j)]]
      /\ job' = [job EXCEPT ![w] = Idle] /\ UNCHANGED <<deal, agent>>
  BY <1>1 DEF Write, Return, IInv, TypeOK
<1>4. row' \in [People -> [Roles -> Rows]]
  BY <1>1, WritesRows DEF IInv
<1>5. \A p \in People, role \in Roles :
         Has(p, role) /\ ~ Has(p, role)' => p = j.person /\ j.active = "off"
  BY <1>1, WritesRows DEF IInv
<1> HIDE DEF j
<1>6. NeverHeadless'
  <2>1. CASE j.active = "off"
    <3>1. PICK q \in People \ {j.person} : Has(q, "admin")
      BY <1>1, <2>1 DEF OtherAdmin
    <3>2. QED BY <1>5, <3>1 DEF NeverHeadless, Roles
  <2>2. CASE j.active # "off"
    BY <1>5, <2>2 DEF IInv, NeverHeadless, Roles
  <2>3. QED BY <2>1, <2>2
<1>7. \A p \in People : Working(p) /\ ~ Working(p)' => InPlay(p) = {}
  BY <1>1, <1>5 DEF Working
<1>8. Holds(Idle)'
  BY DEF Holds, Idle, Removing
<1>9. IInv'
  BY <1>1, <1>2, <1>4, <1>6, <1>8, IdleFacts, Frame DEF IInv, TypeOK
<1>10. QED BY <1>2, <1>7, <1>9

LEMMA AddsAgent ==
  ASSUME TypeOK, NEW w \in Workers, Add(w), job[w].person \in People
  PROVE  /\ row' \in [People -> [Roles -> Rows]]
         /\ \A p \in People, role \in Roles : Has(p, role) => Has(p, role)'
BY DEF Add, TypeOK, Has, Rows, Roles

(* A hired agent starts to work; nobody stops.                             *)
LEMMA AddStep ==
  ASSUME InTurn, IInv, NEW w \in Workers, Add(w)
  PROVE  /\ IInv' /\ agent' = agent
         /\ \A p \in People : Working(p) => Working(p)'
<1> DEFINE j == job[w]
<1>1. j.person \in People /\ Duties[w] # {}
  BY DEF IInv, Jobs, JobFacts, Add
<1>2. /\ row' = [row EXCEPT ![j.person]["agent"].status = "active"]
      /\ job' = [job EXCEPT ![w] = Idle] /\ UNCHANGED <<deal, agent>>
  BY DEF Add, Return
<1>3. /\ row' \in [People -> [Roles -> Rows]]
      /\ \A p \in People, role \in Roles : Has(p, role) => Has(p, role)'
  BY <1>1, AddsAgent DEF IInv
<1> HIDE DEF j
<1>4. NeverHeadless' /\ \A p \in People : Working(p) => Working(p)'
  BY <1>3 DEF IInv, NeverHeadless, Working, Roles
<1>5. Holds(Idle)'
  BY DEF Holds, Idle, Removing
<1>6. IInv'
  BY <1>1, <1>2, <1>3, <1>4, <1>5, IdleFacts, Frame DEF IInv, TypeOK
<1>7. QED BY <1>2, <1>4, <1>6

(* A selected deal goes to somebody who works here.                        *)
LEMMA ScheduleStep ==
  ASSUME InTurn, IInv, NEW w \in Workers, Schedule(w)
  PROVE  /\ IInv' /\ row' = row
         /\ \A d \in Deals : agent'[d] # agent[d]
              => \E p \in People : agent'[d] = p /\ Working(p)'
<1> DEFINE j == job[w]
<1>1. j.actor \in People /\ Working(j.actor) /\ Duties[w] # {}
  BY DEF IInv, Jobs, JobFacts, Holds, Schedule
<1>2. /\ deal' = [d \in Deals |-> IF d \in j.deals THEN "viewing_scheduled" ELSE deal[d]]
      /\ agent' = [d \in Deals |-> IF d \in j.deals THEN j.actor ELSE agent[d]]
      /\ job' = [job EXCEPT ![w] = Idle] /\ row' = row
  BY DEF Schedule, Return
<1> HIDE DEF j
<1>3. /\ deal' \in [Deals -> DealStates]
      /\ agent' \in [Deals -> People \cup {NoOne}]
  BY <1>1, <1>2 DEF IInv, TypeOK, DealStates
<1>4. NeverHeadless' /\ Holds(Idle)'
  BY <1>2 DEF IInv, NeverHeadless, Has, Holds, Idle, Removing
<1>5. IInv'
  BY <1>1, <1>2, <1>3, <1>4, IdleFacts, Frame DEF IInv, TypeOK
<1>6. QED BY <1>1, <1>2, <1>5 DEF Working, Has

(* A deal moves on between the calls.                                      *)
LEMMA AdvanceStep ==
  ASSUME InTurn, IInv, NEW w \in Workers, NEW d \in Deals, Advance(w, d)
  PROVE  IInv' /\ UNCHANGED <<row, agent>>
<1>1. /\ deal' \in [Deals -> DealStates] /\ UNCHANGED <<row, agent, job>>
      /\ Duties[w] # {} /\ job[w].at = "idle"
  BY DEF Advance, IInv, TypeOK
<1>2. \A v \in Workers : job[v].at = "idle"
  BY <1>1 DEF IInv, Jobs, JobFacts, InTurn
<1>3. \A v \in Workers : Holds(job[v])'
  BY <1>1, <1>2 DEF Holds, Removing
<1>4. NeverHeadless'
  BY <1>1 DEF IInv, NeverHeadless, Has
<1>5. QED BY <1>1, <1>3, <1>4 DEF IInv, TypeOK, Jobs

--------------------------------------------------------------------------------
LEMMA InitIInv == Init => IInv
<1> SUFFICES ASSUME Init PROVE IInv
  OBVIOUS
<1>1. TypeOK
  <2>1. Idle \in JobRows
    BY IdleFacts DEF JobFacts
  <2>2. QED BY <2>1 DEF Init, TypeOK, NoMember, Rows, DealStates
<1>2. Jobs /\ \A w \in Workers : Holds(job[w])
  BY <1>1, IdleFacts DEF Init, Jobs, TypeOK
<1>3. NeverHeadless
  BY StaffAssumption DEF Init, NeverHeadless, Has, Roles
<1>4. QED BY <1>1, <1>2, <1>3 DEF IInv

(* One step, with what it does to workers and to the agents of deals.      *)
LEMMA NextStep ==
  ASSUME InTurn, IInv, Next
  PROVE  /\ IInv'
         /\ \A p \in People : Working(p) /\ ~ Working(p)' => InPlay(p) = {}
         /\ \A d \in Deals : agent'[d] # agent[d]
              => \E p \in People : agent'[d] = p /\ Working(p)'
<1>1. PICK w \in Workers :
         BeginCall(w) \/ Step(w) \/ Crash(w) \/ \E d \in Deals : Advance(w, d)
  BY DEF Next
<1>2. CASE \/ BeginCall(w) \/ Crash(w)
           \/ FindAdmin(w) \/ FindDeals(w) \/ FindAgent(w) \/ FindHead(w)
  BY <1>2, BeginStep, FindStep DEF Working, Has
<1>3. CASE HandOver(w)
  BY <1>3, HandOverStep DEF Working, Has
<1>4. CASE Write(w)
  BY <1>4, WriteStep
<1>5. CASE Add(w)
  BY <1>5, AddStep
<1>6. CASE Schedule(w)
  BY <1>6, ScheduleStep DEF Working, Has
<1>7. ASSUME NEW d \in Deals, Advance(w, d)
      PROVE  IInv' /\ UNCHANGED <<row, agent>>
  BY <1>7, AdvanceStep
<1>8. CASE \E d \in Deals : Advance(w, d)
  BY <1>7, <1>8 DEF Working, Has
<1>9. QED BY <1>1, <1>2, <1>3, <1>4, <1>5, <1>6, <1>8 DEF Step

LEMMA NextIInv == InTurn /\ IInv /\ [Next]_vars => IInv'
<1>1. ASSUME IInv, UNCHANGED vars PROVE IInv'
  BY <1>1 DEF vars, IInv, TypeOK, Jobs, NeverHeadless, Holds, OtherAdmin, InPlay, Working, Has
<1>2. QED BY <1>1, NextStep

--------------------------------------------------------------------------------
(* WHATEVER OVERLAPS                                                       *)
(* Types need no turns at all, and the last admin only that removals take  *)
(* turns: hiring, deals and selections may run beside them.                *)
OnePatcher ==
  \A v, w \in Workers : "patch" \in Duties[v] \cap Duties[w] => v = w

Concerns(j) == j.at \in Removing \cup {"add", "write"} => j.person \in People

(* A patch that removes somebody, past its check, leaves another admin.    *)
Checked(w, j) ==
  /\ j.at \in Removing \cup {"write"} => "patch" \in Duties[w]
  /\ j.at \in Removing => j.active = "off"
  /\ j.at \in (Removing \ {"find_admin"}) \cup {"write"} /\ j.active = "off"
       => OtherAdmin(j.person)

Typed == TypeOK /\ \A w \in Workers : Concerns(job[w])
Headed == Typed /\ NeverHeadless /\ \A w \in Workers : Checked(w, job[w])

(* What each action has to show: of the tables, and of its own job.        *)
KeepsTypes(w, j) ==
  /\ j \in JobRows /\ Concerns(j) /\ job' = [job EXCEPT ![w] = j]
  /\ row' \in [People -> [Roles -> Rows]]
  /\ deal' \in [Deals -> DealStates]
  /\ agent' \in [Deals -> People \cup {NoOne}]

KeepsHead(w, j) ==
  NeverHeadless /\ Checked(w, job[w]) =>
    /\ NeverHeadless' /\ Checked(w, j)'
    /\ "patch" \in Duties[w] \/ \A p \in People : Has(p, "admin") => Has(p, "admin")'

StepKeeps(w) == \E j : KeepsTypes(w, j) /\ KeepsHead(w, j)

LEMMA SameRows ==
  ASSUME row' = row
  PROVE  /\ NeverHeadless => NeverHeadless'
         /\ \A w, j : Checked(w, j) => Checked(w, j)'
         /\ \A p \in People : Has(p, "admin") => Has(p, "admin")'
BY DEF NeverHeadless, Checked, OtherAdmin, Has

LEMMA OnlyLooks ==
  ASSUME Typed, NEW w \in Workers, NEW j \in JobRows, Concerns(j),
         job' = [job EXCEPT ![w] = j], UNCHANGED <<row, deal, agent>>,
         NeverHeadless /\ Checked(w, job[w]) => Checked(w, j)
  PROVE  StepKeeps(w)
<1>1. KeepsTypes(w, j) BY DEF KeepsTypes, Typed, TypeOK
<1>2. KeepsHead(w, j) BY SameRows DEF KeepsHead
<1> QED BY <1>1, <1>2 DEF StepKeeps

LEMMA IdleChecked == Idle \in JobRows /\ Concerns(Idle) /\ \A w : Checked(w, Idle)
BY DEF Idle, JobRows, Settings, Concerns, Checked, Removing

LEMMA BeginKeeps == ASSUME Typed, NEW w \in Workers, BeginCall(w) PROVE StepKeeps(w)
<1> USE DEF Steps, Settings, Removing
<1>1. ASSUME NEW actor \in People, NEW p \in People, BeginAdd(w, actor, p) PROVE StepKeeps(w)
  <2> DEFINE j == [Idle EXCEPT !.at = "add", !.actor = actor, !.person = p]
  <2>1. job' = [job EXCEPT ![w] = j] /\ UNCHANGED <<row, deal, agent>>
    BY <1>1 DEF BeginAdd, Begin
  <2>2. j \in JobRows /\ j.at = "add" /\ j.person = p BY DEF Idle, JobRows
  <2> HIDE DEF j
  <2>3. Concerns(j) /\ Checked(w, j) BY <2>2 DEF Concerns, Checked
  <2> QED BY <2>1, <2>2, <2>3, OnlyLooks
<1>2. ASSUME NEW actor \in People, NEW p \in People, NEW active \in Settings,
             NEW canVerify \in Settings, BeginPatch(w, actor, p, active, canVerify)
      PROVE  StepKeeps(w)
  <2> DEFINE at == IF active # "off" THEN "write"
                   ELSE IF Has(p, "admin") THEN "find_admin" ELSE "find_deals"
             j == [Idle EXCEPT !.at = at, !.actor = actor, !.person = p,
                               !.active = active, !.canVerify = canVerify]
  <2>1. /\ job' = [job EXCEPT ![w] = j] /\ UNCHANGED <<row, deal, agent>>
        /\ "patch" \in Duties[w]
    BY <1>2 DEF BeginPatch, Begin
  <2>2. j \in JobRows /\ j.at = at /\ j.person = p /\ j.active = active
    BY DEF Idle, JobRows
  <2> HIDE DEF j
  <2>3. Concerns(j) BY <2>2 DEF Concerns
  <2>4. NeverHeadless => Checked(w, j)
    BY <2>1, <2>2, SomebodyElse DEF Checked
  <2> QED BY <2>1, <2>2, <2>3, <2>4, OnlyLooks
<1>3. ASSUME NEW actor \in People, NEW d \in Deals, BeginSelect(w, actor, d) PROVE StepKeeps(w)
  <2> DEFINE j == [Idle EXCEPT !.at = "schedule", !.actor = actor, !.deals = {d}]
  <2>1. job' = [job EXCEPT ![w] = j] /\ UNCHANGED <<row, deal, agent>>
    BY <1>3 DEF BeginSelect, Begin
  <2>2. j \in JobRows /\ j.at = "schedule" BY DEF Idle, JobRows
  <2> HIDE DEF j
  <2>3. Concerns(j) /\ Checked(w, j) BY <2>2 DEF Concerns, Checked
  <2> QED BY <2>1, <2>2, <2>3, OnlyLooks
<1> QED BY <1>1, <1>2, <1>3 DEF BeginCall

(* The looks of a removal, and a call cut short.                           *)
LEMMA LookKeeps ==
  ASSUME Typed, NEW w \in Workers,
         \/ FindAdmin(w) \/ FindDeals(w) \/ FindAgent(w) \/ FindHead(w) \/ Crash(w)
  PROVE  StepKeeps(w)
<1> DEFINE k == job[w]
<1>1. k \in JobRows /\ Concerns(k) /\ job \in [Workers -> JobRows] BY DEF Typed, TypeOK
<1>2. UNCHANGED <<row, deal, agent>>
  BY DEF FindAdmin, FindDeals, FindAgent, FindHead, Crash
<1> HIDE DEF k
<1>3. CASE Return(w)
  BY <1>2, <1>3, IdleChecked, OnlyLooks DEF Return
<1>4. ASSUME k.at \in Removing,
             NEW j \in JobRows, job' = [job EXCEPT ![w] = j],
             j.at \in (Removing \ {"find_admin"}) \cup {"write"},
             j.person = k.person, j.active = k.active,
             k.at = "find_admin" => OtherAdmin(k.person)
      PROVE  StepKeeps(w)
  <2>1. Concerns(j) BY <1>1, <1>4 DEF Concerns
  <2>2. Checked(w, k) => Checked(w, j) BY <1>4 DEF Checked
  <2> QED BY <1>2, <1>4, <2>1, <2>2, OnlyLooks DEF k
<1> USE DEF Removing, Steps
<1>5. CASE FindAdmin(w) /\ ~ Return(w)
  <2> DEFINE j == [k EXCEPT !.at = "find_deals"]
  <2>1. /\ k.at = "find_admin" /\ OtherAdmin(k.person) /\ job' = [job EXCEPT ![w] = j]
    BY <1>1, <1>5 DEF FindAdmin, Goto, OtherAdmin, k
  <2>2. j \in JobRows /\ j.at = "find_deals" /\ j.person = k.person /\ j.active = k.active
    BY <1>1 DEF JobRows
  <2> HIDE DEF j
  <2> QED BY <1>4, <2>1, <2>2
<1>6. CASE FindDeals(w)
  <2> DEFINE live == {d \in Deals : agent[d] = k.person /\ deal[d] \in DealOpenStates}
             j == [k EXCEPT !.deals = live, !.at = IF live = {} THEN "write" ELSE "find_agent"]
  <2>1. k.at = "find_deals" /\ job' = [job EXCEPT ![w] = j]
    BY <1>1, <1>6 DEF FindDeals, k
  <2>2. /\ j \in JobRows /\ j.at \in {"write", "find_agent"}
        /\ j.person = k.person /\ j.active = k.active
    BY <1>1 DEF JobRows
  <2> HIDE DEF j
  <2> QED BY <1>4, <2>1, <2>2
<1>7. ASSUME NEW q \in People \cup {NoOne}, Chosen(w, q), k.at \in {"find_agent", "find_head"}
      PROVE  StepKeeps(w)
  <2> DEFINE j == [k EXCEPT !.at = "hand_over", !.actor = q]
  <2>1. job' = [job EXCEPT ![w] = j] BY <1>1, <1>7 DEF Chosen, k
  <2>2. j \in JobRows /\ j.at = "hand_over" /\ j.person = k.person /\ j.active = k.active
    BY <1>1 DEF JobRows
  <2> HIDE DEF j
  <2> QED BY <1>4, <1>7, <2>1, <2>2
<1>8. CASE FindAgent(w) /\ Goto(w, "find_head")
  <2> DEFINE j == [k EXCEPT !.at = "find_head"]
  <2>1. k.at = "find_agent" /\ job' = [job EXCEPT ![w] = j]
    BY <1>1, <1>8 DEF FindAgent, Goto, k
  <2>2. j \in JobRows /\ j.at = "find_head" /\ j.person = k.person /\ j.active = k.active
    BY <1>1 DEF JobRows
  <2> HIDE DEF j
  <2> QED BY <1>4, <2>1, <2>2
<1>9. CASE FindAgent(w) /\ ~ Goto(w, "find_head")
  <2>1. PICK q \in Colleagues(k.person, "agent") : Chosen(w, q) BY <1>9 DEF FindAgent, k
  <2>2. q \in People BY DEF Colleagues
  <2> QED BY <1>7, <1>9, <2>1, <2>2 DEF FindAgent, k
<1>10. CASE FindHead(w)
  <2>1. PICK q \in People \cup {NoOne} : Chosen(w, q)
    BY <1>10 DEF FindHead, Colleagues
  <2> QED BY <1>7, <1>10, <2>1 DEF FindHead, k
<1>11. CASE Crash(w) BY <1>3, <1>11 DEF Crash
<1> QED BY <1>3, <1>5, <1>6, <1>8, <1>9, <1>10, <1>11

(* The steps that write deals and their agents.                            *)
LEMMA DealsKeep ==
  ASSUME Typed, NEW w \in Workers, HandOver(w) \/ Schedule(w) PROVE StepKeeps(w)
<1> DEFINE k == job[w]
<1>1. k \in JobRows /\ k.actor \in People \cup {NoOne} BY DEF Typed, TypeOK, JobRows
<1>2. row' = row BY DEF HandOver, Schedule
<1>3. /\ deal' \in [Deals -> DealStates]
      /\ agent' \in [Deals -> People \cup {NoOne}]
  BY <1>1 DEF HandOver, Schedule, Typed, TypeOK, DealStates, DealOpenStates
<1>4. PICK j \in JobRows :
        /\ job' = [job EXCEPT ![w] = j] /\ Concerns(j)
        /\ Checked(w, k) => Checked(w, j)
  <2>1. CASE Schedule(w) BY <2>1, IdleChecked DEF Schedule, Return
  <2>2. CASE HandOver(w)
    <3> DEFINE j == [k EXCEPT !.at = "write"]
    <3>1. /\ k.at = "hand_over" /\ Concerns(k) /\ job' = [job EXCEPT ![w] = j]
      BY <2>2 DEF HandOver, Goto, Typed, TypeOK
    <3>2. j \in JobRows /\ j.at = "write" /\ j.person = k.person /\ j.active = k.active
      BY <1>1 DEF JobRows, Steps
    <3> HIDE DEF j, k
    <3>3. Concerns(j) /\ (Checked(w, k) => Checked(w, j))
      BY <3>1, <3>2 DEF Concerns, Checked, Removing
    <3> QED BY <3>1, <3>2, <3>3
  <2> QED BY <2>1, <2>2
<1>5. KeepsTypes(w, j) BY <1>2, <1>3, <1>4 DEF KeepsTypes, Typed, TypeOK
<1>6. KeepsHead(w, j) BY <1>2, <1>4, SameRows DEF KeepsHead
<1> QED BY <1>5, <1>6 DEF StepKeeps

(* The steps that write the staff's rows.                                  *)
LEMMA RowsKeep ==
  ASSUME Typed, NEW w \in Workers, Add(w) \/ Write(w) PROVE StepKeeps(w)
<1> DEFINE k == job[w]
<1>1. k \in JobRows /\ k.person \in People
  BY DEF Typed, TypeOK, Concerns, Add, Write
<1>2. job' = [job EXCEPT ![w] = Idle] /\ UNCHANGED <<deal, agent>>
  BY DEF Add, Write, Return
<1>3. row' \in [People -> [Roles -> Rows]]
  BY <1>1, AddsAgent, WritesRows DEF Typed
<1>4. KeepsTypes(w, Idle)
  BY <1>2, <1>3, IdleChecked DEF KeepsTypes, Typed, TypeOK
<1>5. KeepsHead(w, Idle)
  <2> SUFFICES ASSUME NeverHeadless, Checked(w, k)
      PROVE  NeverHeadless' /\ ("patch" \in Duties[w]
               \/ \A p \in People : Has(p, "admin") => Has(p, "admin")')
    BY DEF KeepsHead, Checked, Idle, Removing
  <2>1. CASE Add(w)
    BY <1>1, <2>1, AddsAgent DEF Typed, NeverHeadless, Roles
  <2>2. CASE Write(w)
    <3>1. "patch" \in Duties[w] /\ (k.active = "off" => OtherAdmin(k.person))
      BY <2>2 DEF Write, Checked
    <3>2. \A p \in People : Has(p, "admin") /\ ~ Has(p, "admin")'
                               => p = k.person /\ k.active = "off"
      BY <1>1, <2>2, WritesRows DEF Typed, Roles
    <3>3. NeverHeadless' BY <3>1, <3>2 DEF NeverHeadless, OtherAdmin
    <3> QED BY <3>1, <3>3
  <2> QED BY <2>1, <2>2
<1> QED BY <1>4, <1>5 DEF StepKeeps

LEMMA InitHeaded == Init => Headed
<1> SUFFICES ASSUME Init PROVE Headed OBVIOUS
<1>1. TypeOK /\ NeverHeadless BY InitIInv DEF IInv
<1>2. \A w \in Workers : job[w] = Idle BY DEF Init
<1> QED BY <1>1, <1>2, IdleChecked DEF Headed, Typed

LEMMA EveryStepKeeps ==
  ASSUME Typed, Next
  PROVE  \E w \in Workers : StepKeeps(w) \/ \E d \in Deals : Advance(w, d)
BY BeginKeeps, LookKeeps, DealsKeep, RowsKeep DEF Next, Step

LEMMA AdvanceKeeps ==
  ASSUME Typed, NEW w \in Workers, NEW d \in Deals, Advance(w, d)
  PROVE  Typed' /\ UNCHANGED <<row, job>>
<1>1. deal' \in [Deals -> DealStates] /\ UNCHANGED <<row, agent, job>>
  BY DEF Advance, Typed, TypeOK
<1> QED BY <1>1 DEF Typed, TypeOK, Concerns

LEMMA NextTyped == Typed /\ [Next]_vars => Typed'
<1> SUFFICES ASSUME Typed, [Next]_vars PROVE Typed' OBVIOUS
<1>1. CASE UNCHANGED vars BY <1>1 DEF vars, Typed, TypeOK, Concerns
<1>2. ASSUME NEW w \in Workers, StepKeeps(w) PROVE Typed'
  <2>1. PICK j : KeepsTypes(w, j) BY <1>2 DEF StepKeeps
  <2> QED BY <2>1 DEF KeepsTypes, Typed, TypeOK
<1> QED BY <1>1, <1>2, EveryStepKeeps, AdvanceKeeps

LEMMA NextHeaded == OnePatcher /\ Headed /\ [Next]_vars => Headed'
<1> SUFFICES ASSUME OnePatcher, Headed, [Next]_vars PROVE Headed' OBVIOUS
<1>1. Typed' BY NextTyped DEF Headed
<1>2. ASSUME UNCHANGED <<row, job>> PROVE Headed'
  BY <1>1, <1>2, SameRows DEF Headed
<1>3. ASSUME NEW w \in Workers, StepKeeps(w) PROVE Headed'
  <2>1. PICK j : KeepsTypes(w, j) /\ KeepsHead(w, j) BY <1>3 DEF StepKeeps
  <2>2. /\ \A v \in Workers : job'[v] = IF v = w THEN j ELSE job[v]
        /\ NeverHeadless' /\ Checked(w, j)'
    BY <2>1 DEF KeepsTypes, KeepsHead, Headed, Typed, TypeOK
  <2>3. ASSUME NEW v \in Workers \ {w} PROVE Checked(v, job[v])'
    <3>1. Checked(v, job[v]) /\ job'[v] = job[v] BY <2>2 DEF Headed
    <3>2. CASE "patch" \in Duties[w]
      BY <2>3, <3>1, <3>2 DEF Checked, OnePatcher
    <3>3. CASE \A p \in People : Has(p, "admin") => Has(p, "admin")'
      BY <3>1, <3>3 DEF Checked, OtherAdmin
    <3> QED BY <2>1, <3>2, <3>3 DEF KeepsHead, Headed
  <2> QED BY <1>1, <2>2, <2>3 DEF Headed
<1>4. CASE UNCHANGED vars BY <1>2, <1>4 DEF vars
<1> QED BY <1>2, <1>3, <1>4, EveryStepKeeps, AdvanceKeeps DEF Headed

(* The rows of staff and deals and the jobs keep their shape, whatever     *)
(* overlaps and wherever a call is cut short.                              *)
THEOREM TypeCorrect == Spec => []TypeOK
<1>1. Init => Typed BY InitHeaded DEF Headed
<1>2. Typed /\ [Next]_vars => Typed' BY NextTyped
<1>3. Typed => TypeOK BY DEF Typed
<1> QED BY <1>1, <1>2, <1>3, PTL DEF Spec

(* Patches in turn leave the agency an active admin (patch's last-admin    *)
(* check), whoever is removed, restored or hired, in whatever order and    *)
(* whatever else overlaps them.                                            *)
THEOREM AnAdminRemains == OnePatcher => (Spec => []NeverHeadless)
<1> SUFFICES ASSUME OnePatcher PROVE Spec => []NeverHeadless OBVIOUS
<1>1. Headed /\ [Next]_vars => Headed' BY NextHeaded
<1>2. Headed => NeverHeadless BY DEF Headed
<1> QED BY <1>1, <1>2, InitHeaded, PTL DEF Spec

--------------------------------------------------------------------------------
(* Calls in turn orphan no deal in play (patch's hand-over), and a deal    *)
(* changes hands to a colleague only.                                      *)
THEOREM RemovalsHandOver ==
  ASSUME InTurn PROVE Spec => RemovalOrphansNoDeal
<1> DEFINE Keeps ==
      /\ \A p \in People : Working(p) /\ ~Working(p)' =>
           \A d \in Deals : deal[d] \in DealOpenStates => agent[d] # p
      /\ \A d \in Deals : agent'[d] # agent[d]
           => \E p \in People : agent'[d] = p /\ Working(p)'
<1>1. ASSUME IInv, Next PROVE Keeps
  BY <1>1, NextStep DEF InPlay
<1>2. IInv /\ [Next]_vars => IInv' /\ [Keeps]_vars
  BY <1>1, NextIInv
<1>3. QED BY <1>2, InitIInv, PTL DEF Spec, RemovalOrphansNoDeal
================================================================================
