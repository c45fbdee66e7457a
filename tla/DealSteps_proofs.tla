---------------------------- MODULE DealSteps_proofs ----------------------------
(***************************************************************************)
(* What stays true of deals and leases however the handlers overlap, for   *)
(* every number of workers, rows and homes, with crashes or without.       *)
(*                                                                         *)
(* IInv needs no assumption on who calls what: a closed deal and its lease *)
(* come out of one transaction, and the unique key settles a race.  Desk   *)
(* adds what holds when one worker makes all calls that write leases:      *)
(* then what that worker has read of the leases is still so when it writes. *)
(* Slots adds the same for the active slot of a home and the calls that    *)
(* take a deal on while it holds the slot.  Papers, DealsKnown and         *)
(* StaleIsBeingCounted do it for the three promises of the texts that      *)
(* overlapping calls break: which calls break which.  With a single worker *)
(* and no crash the handlers do not overlap at all: SerialInv keeps, for   *)
(* the call in flight, what it has read and written, and from that the     *)
(* machine is shown to implement DealLifecycle.                            *)
(***************************************************************************)
EXTENDS DealStepsSerial, SequenceTheorems, TLAPS

(* A lease row that is not inserted yet refers to nothing.                 *)
BlankRows == \A l \in Leases : lease[l].status = "none" => lease[l].deal = NoRow

LeaseCalls == {"close", "renew", "mark_ending_soon", "record_move_out"}

LeaseSteps == {"check_lease", "check_scan", "find_queue", "close_tx",
               "lease_commit", "renew_tx"}

(* What a job is, whatever the tables say: no transition in flight closes  *)
(* a deal (only the transaction of close does), and only calls about       *)
(* leases come to the steps about leases.                                  *)
JobFacts(w, j) ==
  /\ j \in JobRows
  /\ j.action # "close"
  /\ j.at = "commit" => j.to \in DealStates \ {"closed"}
  /\ j.at = "lease_commit" => j.lease \in Leases /\ j.to \in {"ending_soon", "vacated"}
  /\ j.at = "renew_tx" => j.lease \in Leases
  /\ j.at \in LeaseSteps => j.call \in LeaseCalls \cap Duties[w]

TablesTyped ==
  /\ deal \in [Deals -> DealStates \cup {NoDeal}]
  /\ docs \in [Deals -> Seq({"pending", "approved", "rejected"})]
  /\ agreement \in [Deals -> {"none", "generated", "signed"}]
  /\ lease \in [Leases -> [status : LeaseStatuses \cup {"none"},
                           deal : Deals \cup {NoRow},
                           renewedFrom : Leases \cup {NoRow}]]
  /\ status \in [Listings -> ListingStatuses]

Jobs == job \in [Workers -> JobRows] /\ \A w \in Workers : JobFacts(w, job[w])

IInv == TablesTyped /\ Jobs /\ ClosedDealHasLease /\ BlankRows

--------------------------------------------------------------------------------
LEMMA IdleFacts == ASSUME NEW w \in Workers PROVE JobFacts(w, Idle)
BY DEF JobFacts, Idle, JobRows, Counts, LeaseSteps

(* A step of one worker leaves the jobs of the others alone.               *)
LEMMA JobMoves ==
  ASSUME Jobs, NEW w \in Workers, NEW j, JobFacts(w, j), job' = [job EXCEPT ![w] = j]
  PROVE  /\ Jobs' /\ job'[w] = j
         /\ \A v \in Workers \ {w} : job'[v] = job[v]
<1>1. j \in JobRows
  BY DEF JobFacts
<1>2. /\ job' \in [Workers -> JobRows] /\ job'[w] = j
      /\ \A v \in Workers \ {w} : job'[v] = job[v]
  BY <1>1 DEF Jobs
<1>3. \A v \in Workers : JobFacts(v, job'[v])
  BY <1>2 DEF Jobs
<1>4. QED BY <1>2, <1>3 DEF Jobs

(* Going on to a step that asks nothing of the job, or back to idle.       *)
LEMMA GotoFacts ==
  ASSUME Jobs, NEW w \in Workers, NEW step \in Steps,
         step \notin {"commit", "lease_commit", "renew_tx"},
         step \in LeaseSteps => job[w].at \in LeaseSteps
  PROVE  JobFacts(w, [job[w] EXCEPT !.at = step])
BY DEF Jobs, JobFacts, JobRows, Steps

LEMMA GotoStep ==
  ASSUME Jobs, NEW w \in Workers, NEW step \in Steps, Goto(w, step),
         step \notin {"commit", "lease_commit", "renew_tx"},
         step \in LeaseSteps => job[w].at \in LeaseSteps
  PROVE  Jobs'
<1>1. job' = [job EXCEPT ![w] = [job[w] EXCEPT !.at = step]]
  BY DEF Goto, Jobs
<1>2. QED BY <1>1, GotoFacts, JobMoves

LEMMA ReturnStep == ASSUME Jobs, NEW w \in Workers, Return(w) PROVE Jobs'
BY IdleFacts, JobMoves DEF Return

LEMMA RequireStep ==
  ASSUME Jobs, NEW w \in Workers, NEW step \in Steps, NEW condition,
         Require(w, condition, step),
         step \notin {"commit", "lease_commit", "renew_tx"},
         step \in LeaseSteps => job[w].at \in LeaseSteps
  PROVE  Jobs'
BY GotoStep, ReturnStep DEF Require

(* The recompute after a write keeps the row it is about.                  *)
LEMMA RecountFacts ==
  ASSUME NEW w \in Workers, NEW j \in JobRows
  PROVE  /\ Recount(j) \in JobRows /\ Recount(j).at = "recount"
         /\ Recount(j).call = j.call /\ Recount(j).action = "none"
         /\ JobFacts(w, Recount(j))
<1> DEFINE r == Recount(j)
<1>1. r \in JobRows
  <2>1. "recount" \in Steps /\ "unknown" \in Counts
    BY DEF Steps, Counts
  <2>2. QED BY <2>1 DEF Recount, JobRows
<1>2. r.at = "recount" /\ r.action = "none" /\ r.call = j.call
  BY DEF Recount, JobRows
<1> HIDE DEF r
<1>3. JobFacts(w, r)
  BY <1>1, <1>2 DEF JobFacts, LeaseSteps
<1>4. QED BY <1>1, <1>2, <1>3 DEF r

(* Every visit of a loop is a job that starts with transition()'s read.    *)
LEMMA VisitFacts ==
  ASSUME NEW w \in Workers, NEW j \in JobRows, j.action # "close", NEW k \in Visits(j)
  PROVE  JobFacts(w, k)
<1>1. CASE k = Idle
  BY <1>1, IdleFacts
<1>2. CASE k # Idle
  <2>1. PICK e \in j.rest : k = [j EXCEPT !.at = "read", !.deal = e, !.rest = @ \ {e}]
    BY <1>2 DEF Visits
  <2>2. QED BY <2>1 DEF JobFacts, JobRows, Steps, LeaseSteps
<1>3. QED BY <1>1, <1>2

LEMMA ContinueStep ==
  ASSUME Jobs, NEW w \in Workers, NEW j \in JobRows, j.action # "close", Continue(w, j)
  PROVE  Jobs'
BY VisitFacts, JobMoves DEF Continue

(* A call begins with a job that keeps these facts once it is stamped with *)
(* the call, which is one of its worker's duties.                          *)
LEMMA BeginStep ==
  ASSUME Jobs, NEW w \in Workers, NEW call \in Calls, NEW j \in JobRows, Begin(w, call, j),
         j.action # "close",
         j.at = "commit" => j.to \in DealStates \ {"closed"},
         j.at = "lease_commit" => j.lease \in Leases /\ j.to \in {"ending_soon", "vacated"},
         j.at = "renew_tx" => j.lease \in Leases,
         j.at \in LeaseSteps => call \in LeaseCalls
  PROVE  Jobs'
<1>1. JobFacts(w, [j EXCEPT !.call = call])
  BY DEF Begin, JobFacts, JobRows
<1>2. QED BY <1>1, JobMoves DEF Begin

LEMMA ActionsAreTableActions ==
  /\ {t[2] : t \in DealTransitions} =
       {"request", "schedule_viewing", "decline_request", "expire", "reschedule_viewing",
        "record_no_show", "record_declined", "record_proceeding", "submit_documents",
        "resubmit_documents", "approve_documents", "reject_documents", "close", "withdraw"}
<1> DEFINE names == {"request", "schedule_viewing", "decline_request", "expire",
        "reschedule_viewing", "record_no_show", "record_declined", "record_proceeding",
        "submit_documents", "resubmit_documents", "approve_documents", "reject_documents",
        "close", "withdraw"}
<1>1. \A t \in DealTransitions : t[2] \in names
  BY DEF DealTransitions
<1>2. \A n \in names : \E t \in DealTransitions : t[2] = n
  <2>1. /\ <<NoDeal, "request", "requested">> \in DealTransitions
        /\ <<"requested", "schedule_viewing", "viewing_scheduled">> \in DealTransitions
        /\ <<"requested", "decline_request", "declined_by_agency">> \in DealTransitions
        /\ <<"requested", "expire", "expired">> \in DealTransitions
        /\ <<"viewing_scheduled", "reschedule_viewing", "viewing_scheduled">> \in DealTransitions
        /\ <<"viewing_scheduled", "record_no_show", "no_show">> \in DealTransitions
        /\ <<"viewing_scheduled", "record_declined", "declined">> \in DealTransitions
        /\ <<"viewing_scheduled", "record_proceeding", "awaiting_docs">> \in DealTransitions
        /\ <<"awaiting_docs", "submit_documents", "docs_in_review">> \in DealTransitions
        /\ <<"docs_rejected", "resubmit_documents", "docs_in_review">> \in DealTransitions
        /\ <<"docs_in_review", "approve_documents", "approved">> \in DealTransitions
        /\ <<"docs_in_review", "reject_documents", "docs_rejected">> \in DealTransitions
        /\ <<"approved", "close", "closed">> \in DealTransitions
        /\ <<"requested", "withdraw", "withdrawn">> \in DealTransitions
    BY DEF DealTransitions, DealOpenStates
  <2>2. QED BY <2>1
<1>3. QED BY <1>1, <1>2

(* A row of the table leads to `closed' by close only.                     *)
LEMMA TargetFacts ==
  ASSUME NEW from, NEW action, NEW to \in Targets(from, action), action # "close"
  PROVE  to \in DealStates \ {"closed"}
BY DEF Targets, DealTransitions, DealOpenStates

LEMMA LeaseTargetFacts ==
  ASSUME NEW from, NEW action \in {"mark_ending_soon", "record_move_out"},
         NEW to \in LeaseTargets(from, action)
  PROVE  to \in {"ending_soon", "vacated"} /\ from \in LeaseLiveStatuses
BY DEF LeaseTargets, LeaseTransitions, LeaseLiveStatuses

LEMMA IdleRow ==
  /\ Idle \in JobRows /\ Idle.action = "none" /\ Idle.at = "idle"
  /\ \A d \in Deals, step \in Steps : On(d, step) \in JobRows
  /\ \A l \in Leases, step \in Steps : OnLease(l, step) \in JobRows
BY DEF Idle, On, OnLease, JobRows, Counts

--------------------------------------------------------------------------------
(* The beginning of a call reads, and writes its own job only.             *)
LEMMA BeginCallStep ==
  ASSUME IInv, NEW w \in Workers, BeginCall(w)
  PROVE  Jobs' /\ UNCHANGED db
<1> USE DEF IInv
<1> USE ActionsAreTableActions
<1>1. ASSUME NEW d \in Deals, BeginRequest(w, d) PROVE Jobs' /\ UNCHANGED db
  <2>1. On(d, "find_twin") \in JobRows /\ Begin(w, "request", On(d, "find_twin"))
    BY <1>1, IdleRow DEF BeginRequest, Steps
  <2>2. QED BY <1>1, <2>1, BeginStep, ZenonT(60) DEF BeginRequest, Calls, On, Idle, LeaseSteps
<1>2. ASSUME NEW d \in Deals, BeginSelect(w, d) PROVE Jobs' /\ UNCHANGED db
  <2> DEFINE j == [On(d, "read") EXCEPT !.action = "schedule_viewing"]
  <2>1. j \in JobRows /\ j.at = "read" /\ j.action = "schedule_viewing"
    BY DEF JobRows, Steps, On, Idle, Counts
  <2>2. Begin(w, "select", j) /\ UNCHANGED db
    BY <1>2 DEF BeginSelect
  <2> HIDE DEF j
  <2>3. QED BY <2>1, <2>2, BeginStep DEF Calls, LeaseSteps
<1>3. ASSUME NEW d \in Deals, BeginUpload(w, d) PROVE Jobs' /\ UNCHANGED db
  <2>1. PICK j \in {[On(d, "insert_doc") EXCEPT !.action = "submit_documents"],
                    [On(d, "check_slot") EXCEPT !.action = "resubmit_documents"]} :
           Begin(w, "upload", j)
    BY <1>3 DEF BeginUpload
  <2>2. CASE j = [On(d, "insert_doc") EXCEPT !.action = "submit_documents"]
    <3>1. j \in JobRows /\ j.at = "insert_doc" /\ j.action = "submit_documents"
      BY <2>2 DEF JobRows, Steps, On, Idle, Counts
    <3>2. QED BY <1>3, <2>1, <3>1, BeginStep DEF BeginUpload, Calls, LeaseSteps
  <2>3. CASE j = [On(d, "check_slot") EXCEPT !.action = "resubmit_documents"]
    <3>1. j \in JobRows /\ j.at = "check_slot" /\ j.action = "resubmit_documents"
      BY <2>3 DEF JobRows, Steps, On, Idle, Counts
    <3>2. QED BY <1>3, <2>1, <3>1, BeginStep DEF BeginUpload, Calls, LeaseSteps
  <2>4. QED BY <2>1, <2>2, <2>3
<1>4. ASSUME NEW d \in Deals, NEW action \in PlainActions, BeginPlain(w, d, action)
      PROVE  Jobs' /\ UNCHANGED db
  <2>1. PICK to \in Targets(deal[d], action) :
           Begin(w, action, [On(d, "commit") EXCEPT !.action = action, !.to = to])
    BY <1>4 DEF BeginPlain
  <2> DEFINE j == [On(d, "commit") EXCEPT !.action = action, !.to = to]
  <2>2. to \in DealStates \ {"closed"} /\ action # "close"
    BY TargetFacts DEF PlainActions
  <2>3. j \in JobRows /\ j.at = "commit" /\ j.to = to /\ j.action = action
    BY <2>2 DEF JobRows, Steps, On, Idle, Counts, PlainActions
  <2>4. Begin(w, action, j) /\ UNCHANGED db
    BY <1>4, <2>1 DEF BeginPlain
  <2> HIDE DEF j
  <2>5. QED BY <2>2, <2>3, <2>4, BeginStep DEF Calls, PlainActions, LeaseSteps
<1>5. ASSUME NEW d \in Deals, NEW action \in {"approve_documents", "reject_documents"},
             BeginVerify(w, d, action)
      PROVE  Jobs' /\ UNCHANGED db
  <2> DEFINE j == [On(d, "read") EXCEPT !.action = action, !.doc = Len(docs[d])]
  <2>1. Len(docs[d]) \in Nat
    BY DEF TablesTyped
  <2>2. j \in JobRows /\ j.at = "read" /\ j.action = action
    BY <2>1 DEF JobRows, Steps, On, Idle, Counts
  <2>3. Begin(w, "verify", j) /\ UNCHANGED db
    BY <1>5 DEF BeginVerify
  <2> HIDE DEF j
  <2>4. QED BY <2>2, <2>3, BeginStep DEF Calls, LeaseSteps
<1>6. ASSUME NEW d \in Deals, NEW call, NEW step,
             <<call, step>> \in {<<"generate", "write_paper">>, <<"sign", "write_scan">>,
                                 <<"close", "check_lease">>},
             Begin(w, call, On(d, step))
      PROVE  Jobs'
  <2>1. /\ On(d, step) \in JobRows /\ On(d, step).at = step
        /\ On(d, step).action = "none" /\ call \in Calls
    BY <1>6, IdleRow DEF Steps, On, Idle, Calls
  <2>2. QED BY <1>6, <2>1, BeginStep DEF LeaseSteps, LeaseCalls
<1>7. ASSUME NEW d \in Deals, BeginGenerate(w, d) \/ BeginSign(w, d) \/ BeginClose(w, d)
      PROVE  Jobs' /\ UNCHANGED db
  BY <1>6, <1>7 DEF BeginGenerate, BeginSign, BeginClose
<1>8. ASSUME NEW call \in {"expire_requests", "expire_viewings"}, NEW from,
             BeginExpiry(w, call, from)
      PROVE  Jobs' /\ UNCHANGED db
  <2>1. PICK batch \in SUBSET Deals :
           \E j \in Visits([Idle EXCEPT !.action = "expire", !.rest = batch]) :
              Begin(w, call, j) /\ UNCHANGED db
    BY <1>8 DEF BeginExpiry
  <2> DEFINE i == [Idle EXCEPT !.action = "expire", !.rest = batch]
  <2>2. i \in JobRows /\ i.action # "close" /\ i.at = "idle"
    BY DEF Idle, JobRows, Counts
  <2> HIDE DEF i
  <2>3. PICK j \in Visits(i) : Begin(w, call, j) /\ UNCHANGED db
    BY <2>1 DEF i
  <2>4. JobFacts(w, j)
    BY <2>2, VisitFacts
  <2>5. j.at \in {"read", "idle"}
    <3>1. CASE j = Idle
      BY <3>1, IdleRow
    <3>2. CASE j # Idle
      <4>1. PICK e \in i.rest : j = [i EXCEPT !.at = "read", !.deal = e, !.rest = @ \ {e}]
        BY <3>2 DEF Visits
      <4>2. QED BY <2>2, <4>1 DEF JobRows
    <3>3. QED BY <3>1, <3>2
  <2>6. QED BY <2>3, <2>4, <2>5, BeginStep DEF JobFacts, Calls, LeaseSteps
<1>9. ASSUME NEW l \in Leases, NEW action \in {"mark_ending_soon", "record_move_out"},
             BeginLease(w, l, action)
      PROVE  Jobs' /\ UNCHANGED db
  <2>1. PICK to \in LeaseTargets(lease[l].status, action) :
           Begin(w, action, [OnLease(l, "lease_commit") EXCEPT !.to = to])
    BY <1>9 DEF BeginLease
  <2> DEFINE j == [OnLease(l, "lease_commit") EXCEPT !.to = to]
  <2>2. to \in {"ending_soon", "vacated"}
    BY LeaseTargetFacts
  <2>3. /\ j \in JobRows /\ j.at = "lease_commit" /\ j.to = to
        /\ j.lease = l /\ j.action = "none"
    BY <2>2 DEF JobRows, Steps, OnLease, Idle, Counts, LeaseStatuses
  <2>4. Begin(w, action, j) /\ UNCHANGED db
    BY <1>9, <2>1 DEF BeginLease
  <2> HIDE DEF j
  <2>5. QED BY <2>2, <2>3, <2>4, BeginStep DEF Calls, LeaseCalls
<1>10. ASSUME NEW l \in Leases, BeginRenew(w, l) PROVE Jobs' /\ UNCHANGED db
  <2> DEFINE j == OnLease(l, "renew_tx")
  <2>1. j \in JobRows /\ j.at = "renew_tx" /\ j.lease = l /\ j.action = "none"
    BY DEF JobRows, Steps, OnLease, Idle, Counts
  <2>2. Begin(w, "renew", j) /\ UNCHANGED db
    BY <1>10 DEF BeginRenew
  <2> HIDE DEF j
  <2>3. QED BY <2>1, <2>2, BeginStep DEF Calls, LeaseCalls
<1>11. QED BY <1>1, <1>2, <1>3, <1>4, <1>5, <1>7, <1>8, <1>9, <1>10 DEF BeginCall

--------------------------------------------------------------------------------
(* Every later step of a handler leaves its worker with a job of the same  *)
(* facts.                                                                  *)
LEMMA StepJobs ==
  ASSUME IInv, NEW w \in Workers, Step(w) \/ Crash(w) PROVE Jobs'
<1> DEFINE j == job[w]
<1>0. Jobs /\ JobFacts(w, j) /\ j \in JobRows /\ j.action # "close"
  BY DEF IInv, Jobs, JobFacts
<1> USE <1>0
<1> HIDE DEF j
<1> USE DEF Steps, LeaseSteps
<1>1. CASE FindTwin(w) \/ CheckSlot(w)
  BY <1>1, RequireStep DEF FindTwin, CheckSlot
<1>2. CASE InsertDeal(w)
  <2>1. PICK d \in Deals : job' = [job EXCEPT ![w] = Recount([j EXCEPT !.deal = d])]
    BY <1>2 DEF InsertDeal, Jobs, j
  <2>2. [j EXCEPT !.deal = d] \in JobRows
    BY DEF JobRows
  <2>3. QED BY <2>1, <2>2, RecountFacts, JobMoves
<1>3. CASE Read(w)
  <2>1. CASE Return(w)
    BY <2>1, ReturnStep
  <2>2. CASE \E to \in Targets(deal[j.deal], j.action) :
                job' = [job EXCEPT ![w] = [j EXCEPT !.at = "commit", !.to = to]]
    <3>1. PICK to \in Targets(deal[j.deal], j.action) :
             job' = [job EXCEPT ![w] = [j EXCEPT !.at = "commit", !.to = to]]
      BY <2>2
    <3>2. to \in DealStates \ {"closed"}
      BY TargetFacts
    <3> DEFINE k == [j EXCEPT !.at = "commit", !.to = to]
    <3>3. k \in JobRows /\ k.at = "commit" /\ k.to = to /\ k.action = j.action
      BY <3>2, ZenonT(60) DEF JobRows
    <3> HIDE DEF k
    <3>4. JobFacts(w, k)
      BY <3>2, <3>3 DEF JobFacts
    <3>5. QED BY <3>1, <3>4, JobMoves DEF k
  <2>3. QED BY <1>3, <2>1, <2>2 DEF Read, Jobs, j
<1>4. CASE Commit(w)
  <2> DEFINE r == Recount(j)
  <2>1. r \in JobRows /\ r.at = "recount"
    BY RecountFacts
  <2>2. job' = [job EXCEPT ![w] = [r EXCEPT !.action = j.action]]
    BY <1>4 DEF Commit, j
  <2> HIDE DEF r
  <2>3. j.action \in {t[2] : t \in DealTransitions} \cup {"none"}
    BY DEF JobRows
  <2>4. JobFacts(w, [r EXCEPT !.action = j.action])
    BY <2>1, <2>3 DEF JobFacts, JobRows
  <2>5. QED BY <2>2, <2>4, JobMoves
<1>5. CASE CountReserving(w) \/ CountLive(w)
  <2>1. PICK count \in Counts :
           \/ job' = [job EXCEPT ![w] = [j EXCEPT !.reserving = count]]
           \/ job' = [job EXCEPT ![w] = [j EXCEPT !.live = count]]
    BY <1>5 DEF CountReserving, CountLive, Counts, Jobs, j
  <2>2. /\ JobFacts(w, [j EXCEPT !.reserving = count])
        /\ JobFacts(w, [j EXCEPT !.live = count])
    BY DEF JobFacts, JobRows
  <2>3. QED BY <2>1, <2>2, JobMoves
<1>6. CASE WriteStatus(w)
  <2>1. \/ Goto(w, "stamp_doc") \/ Goto(w, "find_others") \/ Continue(w, j)
    BY <1>6 DEF WriteStatus, j
  <2>2. QED BY <2>1, GotoStep, ContinueStep
<1>7. CASE InsertDoc(w)
  BY <1>7, GotoStep DEF InsertDoc
<1>8. CASE StampDoc(w) \/ WritePaper(w) \/ WriteScan(w) \/ Crash(w)
  BY <1>8, ReturnStep DEF StampDoc, WritePaper, WriteScan, Crash
<1>9. CASE CheckLease(w) \/ CheckScan(w)
  BY <1>9, RequireStep DEF CheckLease, CheckScan, At
<1>10. CASE FindQueue(w)
  <2>1. PICK queue \in SUBSET Deals :
           job' = [job EXCEPT ![w] = [j EXCEPT !.at = "close_tx", !.rest = queue]]
    BY <1>10 DEF FindQueue, DealsOn, Jobs, j
  <2>2. JobFacts(w, [j EXCEPT !.at = "close_tx", !.rest = queue])
    BY <1>10, ZenonT(60) DEF FindQueue, At, JobFacts, JobRows, j
  <2>3. QED BY <2>1, <2>2, JobMoves
<1>11. CASE CloseTx(w)
  <2>1. Return(w) \/ job' = [job EXCEPT ![w] = Recount([j EXCEPT !.rest = {}])]
    BY <1>11 DEF CloseTx, j
  <2>2. [j EXCEPT !.rest = {}] \in JobRows
    BY DEF JobRows
  <2>3. QED BY <2>1, <2>2, RecountFacts, JobMoves, ReturnStep
<1>12. CASE FindOthers(w)
  <2>1. PICK others \in SUBSET Deals :
           Continue(w, [j EXCEPT !.rest = others, !.action = "withdraw"])
    BY <1>12 DEF FindOthers, j
  <2> DEFINE k == [j EXCEPT !.rest = others, !.action = "withdraw"]
  <2>2. "withdraw" \in {t[2] : t \in DealTransitions}
    BY ActionsAreTableActions
  <2>3. k \in JobRows /\ k.action = "withdraw"
    BY <2>2, ZenonT(60) DEF JobRows
  <2>4. Continue(w, k)
    BY <2>1
  <2> HIDE DEF k
  <2>5. QED BY <2>3, <2>4, ContinueStep
<1>13. CASE LeaseCommit(w) \/ RenewTx(w)
  <2>1. Return(w) \/ job' = [job EXCEPT ![w] = Recount(j)]
    BY <1>13 DEF LeaseCommit, RenewTx, j
  <2>2. QED BY <2>1, RecountFacts, JobMoves, ReturnStep
<1>14. QED
  BY <1>1, <1>2, <1>3, <1>4, <1>5, <1>6, <1>7, <1>8, <1>9, <1>10, <1>11, <1>12, <1>13
  DEF Step

--------------------------------------------------------------------------------
(* With the leases untouched it is enough that no deal becomes closed.     *)
LEMMA SameLeases ==
  ASSUME ClosedDealHasLease, BlankRows, UNCHANGED lease,
         \A d \in Deals : deal'[d] = "closed" => deal[d] = "closed"
  PROVE  ClosedDealHasLease' /\ BlankRows'
BY DEF ClosedDealHasLease, BlankRows

(* The steps that write deals: a new request, a transition.                *)
LEMMA DealWrites ==
  ASSUME IInv, NEW w \in Workers, InsertDeal(w) \/ Commit(w)
  PROVE  TablesTyped' /\ ClosedDealHasLease' /\ BlankRows'
<1>1. /\ UNCHANGED <<docs, agreement, lease, status>>
      /\ \E d, to : /\ deal' = [deal EXCEPT ![d] = to]
                    /\ to \in DealStates \ {"closed"}
  <2>1. CASE InsertDeal(w)
    <3>1. UNCHANGED <<docs, agreement, lease, status>>
      BY <2>1 DEF InsertDeal
    <3>2. PICK d \in Deals : deal' = [deal EXCEPT ![d] = "requested"]
      BY <2>1 DEF InsertDeal
    <3>3. "requested" \in DealStates \ {"closed"}
      BY DEF DealStates
    <3>4. QED BY <3>1, <3>2, <3>3
  <2>2. CASE Commit(w)
    <3>1. /\ deal' = [deal EXCEPT ![job[w].deal] = job[w].to]
          /\ UNCHANGED <<docs, agreement, lease, status>>
      BY <2>2 DEF Commit
    <3>2. job[w].to \in DealStates \ {"closed"}
      BY <2>2 DEF Commit, At, IInv, Jobs, JobFacts
    <3>3. QED BY <3>1, <3>2
  <2>3. QED BY <2>1, <2>2
<1>2. PICK d, to : deal' = [deal EXCEPT ![d] = to] /\ to \in DealStates \ {"closed"}
  BY <1>1
<1>3. /\ deal' \in [Deals -> DealStates \cup {NoDeal}]
      /\ \A e \in Deals : deal'[e] = "closed" => deal[e] = "closed"
  BY <1>2 DEF IInv, TablesTyped
<1>4. QED BY <1>1, <1>3, SameLeases DEF IInv, TablesTyped

(* The steps that write documents, agreements and statuses.                *)
LEMMA OtherWrites ==
  ASSUME IInv, NEW w \in Workers,
         \/ InsertDoc(w) \/ StampDoc(w) \/ WritePaper(w) \/ WriteScan(w) \/ WriteStatus(w)
  PROVE  TablesTyped' /\ ClosedDealHasLease' /\ BlankRows'
<1>1. UNCHANGED <<deal, lease>>
  BY DEF InsertDoc, StampDoc, WritePaper, WriteScan, WriteStatus
<1>2. TablesTyped'
  <2>1. CASE InsertDoc(w)
    <3>1. \A d \in Deals :
             Append(docs[d], "pending") \in Seq({"pending", "approved", "rejected"})
      BY DEF IInv, TablesTyped
    <3>2. QED BY <1>1, <2>1, <3>1 DEF InsertDoc, IInv, TablesTyped
  <2>2. CASE StampDoc(w)
    <3> DEFINE n == job[w].doc
               stamp == IF job[w].action = "approve_documents" THEN "approved" ELSE "rejected"
    <3>1. docs' = [docs EXCEPT ![job[w].deal][n] = stamp]
      BY <2>2 DEF StampDoc
    <3>0. stamp \in {"approved", "rejected"}
      OBVIOUS
    <3> HIDE DEF n, stamp
    <3>2. ASSUME NEW s \in Seq({"pending", "approved", "rejected"})
          PROVE  [s EXCEPT ![n] = stamp] \in Seq({"pending", "approved", "rejected"})
      <4>1. CASE n \in 1 .. Len(s)
        BY <3>0, <4>1, ExceptSeq
      <4>2. CASE n \notin 1 .. Len(s)
        <5>1. [s EXCEPT ![n] = stamp] = s
          BY <4>2
        <5>2. QED BY <5>1
      <4>3. QED BY <4>1, <4>2
    <3>3. docs' \in [Deals -> Seq({"pending", "approved", "rejected"})]
      BY <3>1, <3>2 DEF IInv, TablesTyped
    <3>4. QED BY <1>1, <2>2, <3>3 DEF StampDoc, IInv, TablesTyped
  <2>3. CASE WritePaper(w) \/ WriteScan(w)
    BY <1>1, <2>3 DEF WritePaper, WriteScan, IInv, TablesTyped
  <2>4. CASE WriteStatus(w)
    BY <1>1, <2>4 DEF WriteStatus, IInv, TablesTyped, DeriveListingStatus, ListingStatuses
  <2>5. QED BY <2>1, <2>2, <2>3, <2>4
<1>3. QED BY <1>1, <1>2, SameLeases DEF IInv

(* close's transaction: the deal and its lease appear together, in a row   *)
(* that meant nothing, unless the deal has a lease already.                *)
LEMMA CloseWrites ==
  ASSUME IInv, NEW w \in Workers, CloseTx(w)
  PROVE  TablesTyped' /\ ClosedDealHasLease' /\ BlankRows'
<1> DEFINE d == job[w].deal
<1>1. d \in Deals \cup {NoRow}
  BY DEF IInv, Jobs, JobRows
<1>2. CASE UNCHANGED db
  BY <1>2 DEF db, IInv, TablesTyped, ClosedDealHasLease, BlankRows
<1>3. CASE ~ UNCHANGED db
  <2>1. PICK l \in Leases :
           /\ lease[l].status = "none"
           /\ lease' = [lease EXCEPT ![l] =
                          [status |-> "active", deal |-> d, renewedFrom |-> NoRow]]
    BY <1>3 DEF CloseTx
  <2>2. /\ \A k \in Leases : lease[k].deal # d
        /\ UNCHANGED <<docs, agreement, status>>
        /\ deal' = [e \in Deals |-> IF e = d THEN "closed"
                                    ELSE IF e \in job[w].rest THEN "expired" ELSE deal[e]]
    BY <1>3 DEF CloseTx
  <2>3. /\ lease'[l] = [status |-> "active", deal |-> d, renewedFrom |-> NoRow]
        /\ \A k \in Leases \ {l} : lease'[k] = lease[k]
        /\ lease[l].deal = NoRow /\ NoRow \notin Deals
    BY <2>1, DealStepsAssumption DEF IInv, TablesTyped, BlankRows
  <2> HIDE DEF d
  <2>4. TablesTyped'
    <3>1. deal' \in [Deals -> DealStates \cup {NoDeal}]
      BY <2>2 DEF IInv, TablesTyped, DealStates
    <3>2. lease' \in [Leases -> [status : LeaseStatuses \cup {"none"},
                                 deal : Deals \cup {NoRow},
                                 renewedFrom : Leases \cup {NoRow}]]
      BY <1>1, <2>1 DEF IInv, TablesTyped, LeaseStatuses
    <3>3. QED BY <2>2, <3>1, <3>2 DEF IInv, TablesTyped
  <2>5. ClosedDealHasLease'
    <3>1. ASSUME NEW e \in Deals
          PROVE  /\ deal'[e] = "closed" => \E k \in Leases : lease'[k].deal = e
                 /\ \A j, k \in Leases : lease'[j].deal = e /\ lease'[k].deal = e => j = k
      <4>1. CASE e = d
        BY <2>2, <2>3, <4>1
      <4>2. CASE e # d
        <5>1. \A k \in Leases : lease'[k].deal = e <=> lease[k].deal = e
          BY <2>3, <4>2
        <5>2. deal'[e] = "closed" => deal[e] = "closed"
          BY <2>2, <4>2
        <5>3. QED BY <5>1, <5>2 DEF IInv, ClosedDealHasLease
      <4>3. QED BY <4>1, <4>2
    <3>2. QED BY <3>1 DEF ClosedDealHasLease
  <2>6. BlankRows'
    BY <2>3 DEF IInv, BlankRows
  <2>7. QED BY <2>4, <2>5, <2>6
<1>4. QED BY <1>2, <1>3

(* A lease that changes status, or is continued by a new row.              *)
LEMMA LeaseWrites ==
  ASSUME IInv, NEW w \in Workers, LeaseCommit(w) \/ RenewTx(w)
  PROVE  TablesTyped' /\ ClosedDealHasLease' /\ BlankRows'
<1> DEFINE l == job[w].lease
<1>1. CASE UNCHANGED db
  BY <1>1 DEF db, IInv, TablesTyped, ClosedDealHasLease, BlankRows
<1>2. CASE LeaseCommit(w)
  <2>1. /\ lease' = [lease EXCEPT ![l].status = job[w].to]
        /\ UNCHANGED <<deal, docs, agreement, status>>
        /\ l \in Leases /\ job[w].to \in {"ending_soon", "vacated"}
    BY <1>2 DEF LeaseCommit, At, IInv, Jobs, JobFacts
  <2> HIDE DEF l
  <2>2. /\ lease' \in [Leases -> [status : LeaseStatuses \cup {"none"},
                                  deal : Deals \cup {NoRow},
                                  renewedFrom : Leases \cup {NoRow}]]
        /\ \A k \in Leases : /\ lease'[k].deal = lease[k].deal
                             /\ lease'[k].status = "none" => lease[k].status = "none"
    BY <2>1, ZenonT(60) DEF IInv, TablesTyped, LeaseStatuses
  <2>3. QED BY <2>1, <2>2 DEF IInv, TablesTyped, ClosedDealHasLease, BlankRows
<1>3. CASE RenewTx(w) /\ ~ UNCHANGED db
  <2>1. PICK new \in Leases :
           /\ lease[new].status = "none"
           /\ lease' = [lease EXCEPT ![l].status = "renewed", ![new] = Renewal(l)]
    BY <1>3 DEF RenewTx
  <2>2. UNCHANGED <<deal, docs, agreement, status>> /\ l \in Leases
    BY <1>3 DEF RenewTx, At, IInv, Jobs, JobFacts
  <2> HIDE DEF l
  <2>3. /\ lease' \in [Leases -> [status : LeaseStatuses \cup {"none"},
                                  deal : Deals \cup {NoRow},
                                  renewedFrom : Leases \cup {NoRow}]]
        /\ \A k \in Leases \ {new} :
              /\ lease'[k].deal = lease[k].deal
              /\ lease'[k].status = "none" => lease[k].status = "none"
        /\ lease'[new].deal = NoRow
    BY <2>1, <2>2, ZenonT(60) DEF Renewal, IInv, TablesTyped, LeaseStatuses
  <2>4. lease[new].deal = NoRow
    BY <2>1 DEF IInv, BlankRows
  <2>5. \A k \in Leases : lease'[k].deal = lease[k].deal
    BY <2>3, <2>4
  <2>6. QED BY <2>2, <2>3, <2>5 DEF IInv, TablesTyped, ClosedDealHasLease, BlankRows
<1>4. QED BY <1>1, <1>2, <1>3

--------------------------------------------------------------------------------
LEMMA InitIInv == Init => IInv
<1> SUFFICES ASSUME Init PROVE IInv
  OBVIOUS
<1>1. TablesTyped
  BY DEF Init, TablesTyped, NoDeal, ListingStatuses
<1>2. Jobs
  BY IdleFacts, IdleRow DEF Init, Jobs
<1>3. ClosedDealHasLease /\ BlankRows
  BY DealStepsAssumption DEF Init, ClosedDealHasLease, BlankRows, NoDeal
<1>4. QED BY <1>1, <1>2, <1>3 DEF IInv

LEMMA NextIInv == IInv /\ [Next]_vars => IInv'
<1> SUFFICES ASSUME IInv, [Next]_vars PROVE IInv'
  OBVIOUS
<1>1. ASSUME UNCHANGED db PROVE TablesTyped' /\ ClosedDealHasLease' /\ BlankRows'
  BY <1>1 DEF db, IInv, TablesTyped, ClosedDealHasLease, BlankRows
<1>2. ASSUME NEW w \in Workers, BeginCall(w) PROVE IInv'
  BY <1>1, <1>2, BeginCallStep DEF IInv
<1>3. ASSUME NEW w \in Workers, Step(w) \/ Crash(w) PROVE IInv'
  <2>1. CASE InsertDeal(w) \/ Commit(w)
    BY <1>3, <2>1, StepJobs, DealWrites DEF IInv
  <2>2. CASE \/ InsertDoc(w) \/ StampDoc(w) \/ WritePaper(w) \/ WriteScan(w) \/ WriteStatus(w)
    BY <1>3, <2>2, StepJobs, OtherWrites DEF IInv
  <2>3. CASE CloseTx(w)
    BY <1>3, <2>3, StepJobs, CloseWrites DEF IInv
  <2>4. CASE LeaseCommit(w) \/ RenewTx(w)
    BY <1>3, <2>4, StepJobs, LeaseWrites DEF IInv
  <2>5. CASE \/ FindTwin(w) \/ Read(w) \/ CountReserving(w) \/ CountLive(w) \/ CheckSlot(w)
             \/ CheckLease(w) \/ CheckScan(w) \/ FindQueue(w) \/ FindOthers(w) \/ Crash(w)
    <3>1. UNCHANGED db
      BY <2>5 DEF FindTwin, Read, CountReserving, CountLive, CheckSlot, CheckLease,
                  CheckScan, FindQueue, FindOthers, Crash
    <3>2. QED BY <1>1, <1>3, <3>1, StepJobs DEF IInv
  <2>6. QED BY <1>3, <2>1, <2>2, <2>3, <2>4, <2>5 DEF Step
<1>4. CASE UNCHANGED vars
  BY <1>1, <1>4 DEF vars, IInv, Jobs
<1>5. QED BY <1>2, <1>3, <1>4 DEF Next

(* Every table and every job in flight keeps its shape, whatever overlaps. *)
THEOREM TypeCorrect == Spec => []TypeOK
<1>1. IInv => TypeOK
  BY DEF IInv, TablesTyped, Jobs, TypeOK
<1>2. QED BY <1>1, InitIInv, NextIInv, PTL DEF Spec

(* A closed deal has its lease and none has two, under any overlap and any *)
(* crash (close's transaction, the unique leases.deal_id).                 *)
THEOREM ClosedDealKeepsItsLease == Spec => []ClosedDealHasLease
<1>1. IInv => ClosedDealHasLease
  BY DEF IInv
<1>2. QED BY <1>1, InitIInv, NextIInv, PTL DEF Spec

--------------------------------------------------------------------------------
(* Leases with one desk: one worker makes all the calls that write them,   *)
(* beside any number of workers that make the others.                      *)
OneLeaseDesk ==
  \A v, w \in Workers :
     Duties[v] \cap LeaseCalls # {} /\ Duties[w] \cap LeaseCalls # {} => v = w

(* What a worker in the middle of a lease call has read, and still holds.  *)
Knows(w) ==
  /\ job[w].at \in {"check_scan", "find_queue", "close_tx"}
       => Live(DealListing[job[w].deal]) = {}
  /\ job[w].at = "lease_commit" => lease[job[w].lease].status \in LeaseLiveStatuses
  /\ job[w].at = "renew_tx" => lease[job[w].lease].status = "ending_soon"

Desk == OneLiveLease /\ \A w \in Workers : Knows(w)

KnowSteps == LeaseSteps \ {"check_lease"}

LEMMA KnowsNothing ==
  ASSUME NEW w \in Workers, job[w].at \notin KnowSteps PROVE Knows(w)
BY DEF Knows, KnowSteps, LeaseSteps

(* A job that begins has its step from the job it begins with.             *)
LEMMA BeginAt ==
  ASSUME IInv, NEW w \in Workers, NEW call, NEW j \in JobRows, Begin(w, call, j)
  PROVE  /\ job'[w].at = j.at /\ job'[w].deal = j.deal /\ job'[w].lease = j.lease
         /\ \A v \in Workers \ {w} : job'[v] = job[v]
BY DEF Begin, IInv, Jobs, JobRows

(* What a call reads before its first step is known to that step, for the  *)
(* calls about a lease; the others do not begin at such a step.            *)
LEMMA BeginKnows ==
  ASSUME IInv, NEW w \in Workers, BeginCall(w), UNCHANGED lease
  PROVE  Knows(w)' /\ \A v \in Workers \ {w} : job'[v] = job[v]
<1> USE DEF KnowSteps, LeaseSteps, Steps
<1> USE ActionsAreTableActions
<1>0. \A l \in Leases : lease[l].status \in LeaseStatuses \cup {"none"}
  BY DEF IInv, TablesTyped
<1>1. ASSUME NEW call, NEW j \in JobRows, Begin(w, call, j), j.at \notin KnowSteps
      PROVE  Knows(w)' /\ \A v \in Workers \ {w} : job'[v] = job[v]
  BY <1>1, BeginAt DEF Knows
<1>2. ASSUME NEW d \in Deals,
             BeginRequest(w, d) \/ BeginGenerate(w, d) \/ BeginSign(w, d) \/ BeginClose(w, d)
      PROVE  Knows(w)' /\ \A v \in Workers \ {w} : job'[v] = job[v]
  <2>1. PICK call \in {"request", "generate", "sign", "close"},
             step \in {"find_twin", "write_paper", "write_scan", "check_lease"} :
           Begin(w, call, On(d, step))
    BY <1>2 DEF BeginRequest, BeginGenerate, BeginSign, BeginClose
  <2>2. On(d, step) \in JobRows /\ On(d, step).at = step
    BY IdleRow DEF On, Idle
  <2>3. QED BY <1>1, <2>1, <2>2
<1>3. ASSUME NEW d \in Deals,
             \/ BeginSelect(w, d) \/ BeginUpload(w, d)
             \/ \E action \in PlainActions : BeginPlain(w, d, action)
             \/ \E action \in {"approve_documents", "reject_documents"} :
                   BeginVerify(w, d, action)
      PROVE  Knows(w)' /\ \A v \in Workers \ {w} : job'[v] = job[v]
  <2>1. PICK call, j : Begin(w, call, j) /\ j \in JobRows /\ j.at \notin KnowSteps
    <3>1. CASE BeginSelect(w, d)
      <4>1. /\ [On(d, "read") EXCEPT !.action = "schedule_viewing"] \in JobRows
            /\ [On(d, "read") EXCEPT !.action = "schedule_viewing"].at = "read"
        BY DEF JobRows, On, Idle, Counts
      <4>2. QED BY <3>1, <4>1 DEF BeginSelect
    <3>2. CASE BeginUpload(w, d)
      <4>1. /\ [On(d, "insert_doc") EXCEPT !.action = "submit_documents"] \in JobRows
            /\ [On(d, "insert_doc") EXCEPT !.action = "submit_documents"].at = "insert_doc"
        BY DEF JobRows, On, Idle, Counts
      <4>2. /\ [On(d, "check_slot") EXCEPT !.action = "resubmit_documents"] \in JobRows
            /\ [On(d, "check_slot") EXCEPT !.action = "resubmit_documents"].at = "check_slot"
        BY DEF JobRows, On, Idle, Counts
      <4>3. QED BY <3>2, <4>1, <4>2 DEF BeginUpload
    <3>3. ASSUME NEW action \in PlainActions, BeginPlain(w, d, action)
          PROVE  \E call, j : Begin(w, call, j) /\ j \in JobRows /\ j.at \notin KnowSteps
      <4>1. PICK to \in Targets(deal[d], action) :
               Begin(w, action, [On(d, "commit") EXCEPT !.action = action, !.to = to])
        BY <3>3 DEF BeginPlain
      <4>2. /\ [On(d, "commit") EXCEPT !.action = action, !.to = to] \in JobRows
            /\ [On(d, "commit") EXCEPT !.action = action, !.to = to].at = "commit"
        BY DEF JobRows, On, Idle, Counts, PlainActions, Targets
      <4>3. QED BY <4>1, <4>2
    <3>4. ASSUME NEW action \in {"approve_documents", "reject_documents"},
                 BeginVerify(w, d, action)
          PROVE  \E call, j : Begin(w, call, j) /\ j \in JobRows /\ j.at \notin KnowSteps
      <4>1. Len(docs[d]) \in Nat
        BY DEF IInv, TablesTyped
      <4>2. /\ [On(d, "read") EXCEPT !.action = action, !.doc = Len(docs[d])] \in JobRows
            /\ [On(d, "read") EXCEPT !.action = action, !.doc = Len(docs[d])].at = "read"
        BY <4>1 DEF JobRows, On, Idle, Counts
      <4>3. QED BY <3>4, <4>2 DEF BeginVerify
    <3>5. QED BY <1>3, <3>1, <3>2, <3>3, <3>4
  <2>2. QED BY <1>1, <2>1
<1>4. ASSUME NEW call, NEW from, BeginExpiry(w, call, from)
      PROVE  Knows(w)' /\ \A v \in Workers \ {w} : job'[v] = job[v]
  <2>1. PICK batch \in SUBSET Deals :
           \E j \in Visits([Idle EXCEPT !.action = "expire", !.rest = batch]) :
              Begin(w, call, j)
    BY <1>4 DEF BeginExpiry
  <2> DEFINE i == [Idle EXCEPT !.action = "expire", !.rest = batch]
  <2>2. i \in JobRows /\ i.action # "close"
    BY DEF Idle, JobRows, Counts
  <2> HIDE DEF i
  <2>3. PICK j \in Visits(i) : Begin(w, call, j)
    BY <2>1 DEF i
  <2>4. j \in JobRows
    BY <2>2, VisitFacts DEF JobFacts
  <2>5. CASE j = Idle
    BY <1>1, <2>3, <2>5, IdleRow
  <2>6. CASE j # Idle
    <3>1. PICK e \in i.rest : j = [i EXCEPT !.at = "read", !.deal = e, !.rest = @ \ {e}]
      BY <2>3, <2>6 DEF Visits
    <3>2. j.at = "read"
      BY <2>2, <3>1 DEF JobRows
    <3>3. QED BY <1>1, <2>3, <2>4, <3>2
  <2>7. QED BY <2>5, <2>6
<1>5. ASSUME NEW l \in Leases, NEW action \in {"mark_ending_soon", "record_move_out"},
             BeginLease(w, l, action)
      PROVE  Knows(w)' /\ \A v \in Workers \ {w} : job'[v] = job[v]
  <2>1. PICK to \in LeaseTargets(lease[l].status, action) :
           Begin(w, action, [OnLease(l, "lease_commit") EXCEPT !.to = to])
    BY <1>5 DEF BeginLease
  <2> DEFINE j == [OnLease(l, "lease_commit") EXCEPT !.to = to]
  <2>2. to \in {"ending_soon", "vacated"} /\ lease[l].status \in LeaseLiveStatuses
    BY LeaseTargetFacts
  <2>3. j \in JobRows /\ j.at = "lease_commit" /\ j.lease = l
    BY <2>2 DEF JobRows, OnLease, Idle, Counts, LeaseStatuses
  <2>4. Begin(w, action, j)
    BY <2>1
  <2> HIDE DEF j
  <2>5. QED BY <2>2, <2>3, <2>4, BeginAt DEF Knows
<1>6. ASSUME NEW l \in Leases, BeginRenew(w, l)
      PROVE  Knows(w)' /\ \A v \in Workers \ {w} : job'[v] = job[v]
  <2> DEFINE j == OnLease(l, "renew_tx")
  <2>1. j \in JobRows /\ j.at = "renew_tx" /\ j.lease = l
    BY DEF JobRows, OnLease, Idle, Counts
  <2>2. Begin(w, "renew", j) /\ lease[l].status = "ending_soon"
    BY <1>6 DEF BeginRenew, LeaseTargets, LeaseTransitions
  <2> HIDE DEF j
  <2>3. QED BY <2>1, <2>2, BeginAt DEF Knows
<1>7. QED BY <1>2, <1>3, <1>4, <1>5, <1>6 DEF BeginCall

(* The later steps of a call: close carries its knowledge from check to    *)
(* check, the steps that write leases end what was known, and the others   *)
(* know nothing.                                                           *)
LEMMA StepKnows ==
  ASSUME IInv, NEW w \in Workers, Knows(w), Step(w) \/ Crash(w)
  PROVE  Knows(w)' /\ \A v \in Workers \ {w} : job'[v] = job[v]
<1> DEFINE j == job[w]
<1>0. job \in [Workers -> JobRows] /\ j \in JobRows /\ j.action # "close"
  BY DEF IInv, Jobs, JobFacts
<1> USE DEF KnowSteps, LeaseSteps
<1>1. ASSUME NEW k, job' = [job EXCEPT ![w] = k], k.at \notin KnowSteps
      PROVE  Knows(w)' /\ \A v \in Workers \ {w} : job'[v] = job[v]
  BY <1>0, <1>1 DEF Knows
<1>2. ASSUME NEW step \in Steps, Goto(w, step), step \notin KnowSteps
      PROVE  Knows(w)' /\ \A v \in Workers \ {w} : job'[v] = job[v]
  BY <1>0, <1>2 DEF Goto, Knows, JobRows
<1>3. ASSUME Return(w)
      PROVE  Knows(w)' /\ \A v \in Workers \ {w} : job'[v] = job[v]
  BY <1>1, <1>3, IdleRow DEF Return
<1>4. ASSUME NEW k \in JobRows, Continue(w, k)
      PROVE  Knows(w)' /\ \A v \in Workers \ {w} : job'[v] = job[v]
  <2>1. PICK i \in Visits(k) : job' = [job EXCEPT ![w] = i]
    BY <1>4 DEF Continue
  <2>2. CASE i = Idle
    BY <1>1, <2>1, <2>2, IdleRow
  <2>3. CASE i # Idle
    <3>1. PICK e \in k.rest : i = [k EXCEPT !.at = "read", !.deal = e, !.rest = @ \ {e}]
      BY <2>1, <2>3 DEF Visits
    <3>2. i.at = "read"
      BY <3>1 DEF JobRows
    <3>3. QED BY <1>1, <2>1, <3>2
  <2>4. QED BY <2>2, <2>3
<1>5. ASSUME NEW k \in JobRows, job' = [job EXCEPT ![w] = Recount(k)]
      PROVE  Knows(w)' /\ \A v \in Workers \ {w} : job'[v] = job[v]
  BY <1>1, <1>5, RecountFacts
<1>6. CASE FindTwin(w) \/ CheckSlot(w) \/ InsertDoc(w)
  BY <1>2, <1>3, <1>6 DEF FindTwin, CheckSlot, InsertDoc, Require, Steps
<1>7. CASE StampDoc(w) \/ WritePaper(w) \/ WriteScan(w) \/ Crash(w)
  BY <1>3, <1>7 DEF StampDoc, WritePaper, WriteScan, Crash
<1>8. CASE InsertDeal(w)
  <2>1. PICK d \in Deals : job' = [job EXCEPT ![w] = Recount([j EXCEPT !.deal = d])]
    BY <1>0, <1>8 DEF InsertDeal
  <2>2. [j EXCEPT !.deal = d] \in JobRows
    BY <1>0 DEF JobRows
  <2>3. QED BY <1>5, <2>1, <2>2
<1>9. CASE Read(w)
  <2>1. CASE Return(w)
    BY <1>3, <2>1
  <2>2. CASE ~ Return(w)
    <3>1. PICK to : job' = [job EXCEPT ![w] = [j EXCEPT !.at = "commit", !.to = to]]
      BY <1>0, <1>9, <2>2 DEF Read
    <3>2. [j EXCEPT !.at = "commit", !.to = to].at = "commit"
      BY <1>0 DEF JobRows
    <3>3. QED BY <1>1, <3>1, <3>2
  <2>3. QED BY <2>1, <2>2
<1>10. CASE Commit(w)
  <2> DEFINE r == Recount(j)
  <2>1. job' = [job EXCEPT ![w] = [r EXCEPT !.action = j.action]]
    BY <1>10 DEF Commit
  <2>2. r \in JobRows /\ r.at = "recount"
    BY <1>0, RecountFacts
  <2> HIDE DEF r
  <2>3. [r EXCEPT !.action = j.action].at = "recount"
    BY <2>2 DEF JobRows
  <2>4. QED BY <1>1, <2>1, <2>3
<1>11. CASE CountReserving(w) \/ CountLive(w)
  <2>1. PICK count :
           \/ job' = [job EXCEPT ![w] = [j EXCEPT !.reserving = count]]
           \/ job' = [job EXCEPT ![w] = [j EXCEPT !.live = count]]
    BY <1>0, <1>11 DEF CountReserving, CountLive
  <2>2. /\ [j EXCEPT !.reserving = count].at = "recount"
        /\ [j EXCEPT !.live = count].at = "recount"
    BY <1>0, <1>11 DEF CountReserving, CountLive, At, JobRows
  <2>3. QED BY <1>1, <2>1, <2>2
<1>12. CASE WriteStatus(w)
  <2>1. Goto(w, "stamp_doc") \/ Goto(w, "find_others") \/ Continue(w, j)
    BY <1>12 DEF WriteStatus
  <2>2. QED BY <1>0, <1>2, <1>4, <2>1 DEF Steps
<1>13. CASE FindOthers(w)
  <2>1. PICK others \in SUBSET Deals :
           Continue(w, [j EXCEPT !.rest = others, !.action = "withdraw"])
    BY <1>13 DEF FindOthers
  <2>2. "withdraw" \in {t[2] : t \in DealTransitions}
    BY ActionsAreTableActions
  <2>3. [j EXCEPT !.rest = others, !.action = "withdraw"] \in JobRows
    BY <1>0, <2>2 DEF JobRows
  <2>4. QED BY <1>4, <2>1, <2>3
<1>14. CASE CloseTx(w)
  <2>1. Return(w) \/ job' = [job EXCEPT ![w] = Recount([j EXCEPT !.rest = {}])]
    BY <1>14 DEF CloseTx
  <2>2. [j EXCEPT !.rest = {}] \in JobRows
    BY <1>0 DEF JobRows
  <2>3. QED BY <1>3, <1>5, <2>1, <2>2
<1>15. CASE LeaseCommit(w) \/ RenewTx(w)
  <2>1. Return(w) \/ job' = [job EXCEPT ![w] = Recount(j)]
    BY <1>15 DEF LeaseCommit, RenewTx
  <2>2. QED BY <1>0, <1>3, <1>5, <2>1
<1>16. CASE CheckLease(w) \/ CheckScan(w) \/ FindQueue(w)
  <2>1. UNCHANGED lease
    BY <1>16 DEF CheckLease, CheckScan, FindQueue, db
  <2>2. CASE Return(w)
    BY <1>3, <2>2
  <2>3. CASE ~ Return(w)
    <3>1. /\ job'[w].at \in {"check_scan", "find_queue", "close_tx"}
          /\ job'[w].deal = j.deal
          /\ \A v \in Workers \ {w} : job'[v] = job[v]
      BY <1>0, <1>16, <2>3 DEF CheckLease, CheckScan, FindQueue, Require, Goto, JobRows
    <3>2. Live(DealListing[j.deal]) = {}
      BY <1>16, <2>3 DEF CheckLease, CheckScan, FindQueue, Require, At, Knows
    <3>3. QED BY <2>1, <3>1, <3>2 DEF Knows, Live
  <2>4. QED BY <2>2, <2>3
<1>17. QED
  BY <1>6, <1>7, <1>8, <1>9, <1>10, <1>11, <1>12, <1>13, <1>14, <1>15, <1>16 DEF Step

(* Who writes a lease is the one desk, so nobody else holds knowledge that *)
(* the write could make stale.                                             *)
LEMMA OthersKnowNothing ==
  ASSUME IInv, OneLeaseDesk, NEW w \in Workers, job[w].at \in LeaseSteps,
         NEW v \in Workers \ {w}
  PROVE  job[v].at \notin LeaseSteps
BY DEF IInv, Jobs, JobFacts, OneLeaseDesk

(* The three writes of leases: each keeps one live lease on a home, and    *)
(* touches no lease that was renewed or vacated.                           *)
LEMMA LeaseWritesExclude ==
  ASSUME IInv, OneLiveLease, NEW w \in Workers, Knows(w),
         CloseTx(w) \/ LeaseCommit(w) \/ RenewTx(w)
  PROVE  /\ OneLiveLease'
         /\ \A l \in Leases : lease[l].status \in {"renewed", "vacated"}
                               => lease'[l].status = lease[l].status
<1> DEFINE d == job[w].deal
           l == job[w].lease
           Kept == \A k \in Leases : lease[k].status \in {"renewed", "vacated"}
                                       => lease'[k].status = lease[k].status
<1> USE DEF LeaseLiveStatuses
<1>1. CASE UNCHANGED lease
  BY <1>1 DEF OneLiveLease, Live
<1>2. CASE CloseTx(w) /\ ~ UNCHANGED lease
  <2>1. PICK n \in Leases :
           /\ lease[n].status = "none" /\ LeaseListing[n] = DealListing[d]
           /\ lease' = [lease EXCEPT ![n] =
                          [status |-> "active", deal |-> d, renewedFrom |-> NoRow]]
    BY <1>2 DEF CloseTx, db
  <2>2. Live(DealListing[d]) = {}
    BY <1>2 DEF CloseTx, At, Knows
  <2> HIDE DEF d
  <2>3. \A k \in Leases \ {n} : lease'[k] = lease[k]
    BY <2>1
  <2>4. OneLiveLease'
    BY <2>1, <2>2, <2>3 DEF OneLiveLease, Live
  <2>5. Kept
    BY <2>1, <2>3
  <2>6. QED BY <2>4, <2>5
<1>3. CASE LeaseCommit(w)
  <2>1. /\ lease' = [lease EXCEPT ![l].status = job[w].to]
        /\ l \in Leases /\ lease[l].status \in LeaseLiveStatuses
    BY <1>3 DEF LeaseCommit, At, IInv, Jobs, JobFacts, Knows
  <2> HIDE DEF l
  <2>2. \A k \in Leases \ {l} : lease'[k] = lease[k]
    BY <2>1 DEF IInv, TablesTyped
  <2>3. \A h \in Listings : Live(h)' \subseteq Live(h)
    BY <2>1, <2>2 DEF Live
  <2>4. QED BY <2>1, <2>2, <2>3 DEF OneLiveLease
<1>4. CASE RenewTx(w) /\ ~ UNCHANGED lease
  <2>1. PICK new \in Leases :
           /\ lease[new].status = "none" /\ LeaseListing[new] = LeaseListing[l]
           /\ lease' = [lease EXCEPT ![l].status = "renewed", ![new] = Renewal(l)]
    BY <1>4 DEF RenewTx, db
  <2>2. l \in Leases /\ lease[l].status = "ending_soon"
    BY <1>4 DEF RenewTx, At, IInv, Jobs, JobFacts, Knows
  <2> HIDE DEF l
  <2>3. /\ lease'[l].status = "renewed" /\ new # l
        /\ \A k \in Leases \ {l, new} : lease'[k] = lease[k]
    BY <2>1, <2>2 DEF IInv, TablesTyped, Renewal
  <2>4. OneLiveLease'
    <3>1. ASSUME NEW h \in Listings, NEW k \in Live(h)' PROVE k = new \/ k \in Live(h)
      BY <2>3, <3>1 DEF Live
    <3>2. ASSUME NEW h \in Listings, new \in Live(h)', NEW k \in Live(h)' PROVE k = new
      <4>1. l \in Live(h)
        BY <2>1, <2>2, <3>2 DEF Live
      <4>2. k # l
        BY <2>3, <3>2 DEF Live
      <4>3. QED BY <3>1, <3>2, <4>1, <4>2 DEF OneLiveLease
    <3>3. QED BY <3>1, <3>2 DEF OneLiveLease
  <2>5. Kept
    BY <2>1, <2>2, <2>3
  <2>6. QED BY <2>4, <2>5
<1>5. QED BY <1>1, <1>2, <1>3, <1>4

LEMMA NextDesk ==
  ASSUME OneLeaseDesk, IInv, Desk, Next
  PROVE  /\ Desk'
         /\ \A l \in Leases : lease[l].status \in {"renewed", "vacated"}
                               => lease'[l].status = lease[l].status
<1>1. PICK w \in Workers : BeginCall(w) \/ Step(w) \/ Crash(w)
  BY DEF Next
<1>2. Knows(w)' /\ \A v \in Workers \ {w} : job'[v] = job[v]
  <2>1. CASE BeginCall(w)
    BY <2>1, BeginCallStep, BeginKnows DEF db
  <2>2. CASE Step(w) \/ Crash(w)
    BY <2>2, StepKnows DEF Desk
  <2>3. QED BY <1>1, <2>1, <2>2
<1>3. CASE CloseTx(w) \/ LeaseCommit(w) \/ RenewTx(w)
  <2>1. job[w].at \in LeaseSteps
    BY <1>3 DEF CloseTx, LeaseCommit, RenewTx, At, LeaseSteps
  <2>2. ASSUME NEW v \in Workers \ {w} PROVE Knows(v)'
    <3>1. job'[v].at \notin LeaseSteps
      BY <1>2, <2>1, OthersKnowNothing
    <3>2. QED BY <3>1 DEF Knows, LeaseSteps
  <2>3. QED BY <1>2, <1>3, <2>2, LeaseWritesExclude DEF Desk
<1>4. CASE ~ (CloseTx(w) \/ LeaseCommit(w) \/ RenewTx(w))
  <2>1. UNCHANGED lease
    <3>1. CASE BeginCall(w)
      BY <3>1, BeginCallStep DEF db
    <3>2. CASE Step(w)
      BY <1>4, <3>2 DEF Step, FindTwin, InsertDeal, Read, Commit, CountReserving, CountLive,
           WriteStatus, CheckSlot, InsertDoc, StampDoc, WritePaper, WriteScan, CheckLease,
           CheckScan, FindQueue, FindOthers, db
    <3>3. CASE Crash(w)
      BY <3>3 DEF Crash, db
    <3>4. QED BY <1>1, <3>1, <3>2, <3>3
  <2>2. ASSUME NEW v \in Workers \ {w} PROVE Knows(v)'
    BY <1>2, <2>1 DEF Desk, Knows, Live
  <2>3. QED BY <1>2, <2>1, <2>2 DEF Desk, OneLiveLease, Live
<1>5. QED BY <1>3, <1>4

LEMMA InitDesk == Init => Desk
BY DEF Init, Idle, Desk, Knows, OneLiveLease, Live, LeaseLiveStatuses

LEMMA StepDesk == OneLeaseDesk /\ IInv /\ Desk /\ [Next]_vars => Desk'
<1>1. ASSUME IInv, Desk, UNCHANGED vars PROVE Desk'
  BY <1>1 DEF vars, db, Desk, Knows, OneLiveLease, Live
<1>2. QED BY <1>1, NextDesk

(* With one desk for the lease calls a home has one live lease at most,    *)
(* whatever runs beside them (close, renewLease, markLeaseEndingSoon).     *)
THEOREM LiveLeaseIsExclusive ==
  ASSUME OneLeaseDesk PROVE Spec => []OneLiveLease
<1>1. Desk => OneLiveLease
  BY DEF Desk
<1>2. IInv /\ Desk /\ [Next]_vars => Desk'
  BY StepDesk
<1>3. QED BY <1>1, <1>2, InitIInv, NextIInv, InitDesk, PTL DEF Spec

(* With one desk for the lease calls no lease comes back to life.          *)
THEOREM EndedLeasesStayEnded ==
  ASSUME OneLeaseDesk PROVE Spec => EndedLeaseStaysEnded
<1> DEFINE Kept == \A l \in Leases : lease[l].status \in {"renewed", "vacated"}
                                       => lease'[l].status = lease[l].status
<1>1. IInv /\ Desk /\ [Next]_vars => Desk' /\ [Kept]_vars
  BY StepDesk, NextDesk
<1>2. QED BY <1>1, InitIInv, NextIInv, InitDesk, PTL DEF Spec, EndedLeaseStaysEnded

--------------------------------------------------------------------------------
(* The active slot with one desk: one worker makes the calls that take a   *)
(* deal on while it holds the slot, beside any number of workers that make *)
(* all the others: requests, refusals, withdrawals, timers, closes.        *)
SlotCalls == {"select", "upload", "verify", "reschedule_viewing", "record_proceeding"}

OneSlotDesk ==
  \A v, w \in Workers :
     Duties[v] \cap SlotCalls # {} /\ Duties[w] \cap SlotCalls # {} => v = w

(* The transitions that lead to a state that reserves, and of these the    *)
(* two that start from one that does not.                                  *)
SlotActions == {"schedule_viewing", "reschedule_viewing", "record_proceeding",
                "submit_documents", "resubmit_documents", "approve_documents"}
TakingActions == {"schedule_viewing", "resubmit_documents"}

(* In a table of deals, no other deal reserves the home of d.              *)
Alone(d, table) ==
  \A e \in Deals :
     DealListing[e] = DealListing[d] /\ table[e] \in DealReservingStates => e = d

(* What the worker w with job j knows about the slot.                      *)
Slotted(w, j, table) ==
  /\ j.action \in SlotActions =>
       j.call \in SlotCalls \cap Duties[w] /\ j.deal \in Deals /\ j.rest = {}
  /\ j.at \in {"insert_doc", "read"} /\ j.action \in TakingActions => Alone(j.deal, table)
  /\ j.at = "commit" /\ j.to \in DealReservingStates =>
       j.action \in SlotActions /\ Alone(j.deal, table)

Slots == OneReservingDeal /\ \A w \in Workers : Slotted(w, job[w], deal)

LEMMA SlotTargets ==
  ASSUME NEW from, NEW action, NEW to \in Targets(from, action), to \in DealReservingStates
  PROVE  action \in SlotActions /\ (from \in DealReservingStates \/ action \in TakingActions)
BY DEF Targets, DealTransitions, DealReservingStates, DealOpenStates, SlotActions, TakingActions

LEMMA SlotFreeAlone ==
  ASSUME NEW d \in Deals PROVE SlotFree(d) <=> Alone(d, deal)
BY DEF SlotFree, Alone, Reserving, DealsOn

(* Who holds the slot is alone.                                            *)
LEMMA HolderAlone ==
  ASSUME IInv, OneReservingDeal, NEW d \in Deals, deal[d] \in DealReservingStates
  PROVE  Alone(d, deal)
<1>1. DealListing[d] \in Listings
  BY DealStepsAssumption
<1>2. QED BY <1>1 DEF OneReservingDeal, Alone, Reserving, DealsOn

LEMMA IdleSlotted == \A w, table : Slotted(w, Idle, table)
BY DEF Slotted, Idle, SlotActions, TakingActions

(* A job past its transition, or with none, needs no knowledge.            *)
LEMMA PlainSlotted ==
  ASSUME NEW w, NEW j, NEW table, j.at \notin {"insert_doc", "read", "commit"},
         j.action \in SlotActions =>
           j.call \in SlotCalls \cap Duties[w] /\ j.deal \in Deals /\ j.rest = {}
  PROVE  Slotted(w, j, table)
BY DEF Slotted

LEMMA UnslottedSlotted ==
  ASSUME NEW w, NEW j, NEW table, j.at # "commit", j.action \notin SlotActions
  PROVE  Slotted(w, j, table)
BY DEF Slotted, SlotActions, TakingActions

LEMMA RecountSlotted ==
  ASSUME NEW w \in Workers, NEW j \in JobRows, NEW table
  PROVE  Slotted(w, Recount(j), table)
<1>1. Recount(j).at = "recount" /\ Recount(j).action = "none"
  BY RecountFacts
<1>2. QED BY <1>1, UnslottedSlotted DEF SlotActions

LEMMA VisitSlotted ==
  ASSUME NEW w \in Workers, NEW j \in JobRows, NEW k \in Visits(j), NEW table,
         j.action \in SlotActions => j.rest = {}
  PROVE  Slotted(w, k, table)
<1>1. CASE k = Idle
  BY <1>1, IdleSlotted
<1>2. CASE k # Idle
  <2>1. PICK e \in j.rest : k = [j EXCEPT !.at = "read", !.deal = e, !.rest = @ \ {e}]
    BY <1>2 DEF Visits
  <2>2. k.at = "read" /\ k.action = j.action /\ j.rest # {}
    BY <2>1 DEF JobRows
  <2>3. QED BY <2>2, UnslottedSlotted
<1>3. QED BY <1>1, <1>2

(* A call begins: the job it begins with, stamped with the call.           *)
LEMMA BeginSlotted ==
  ASSUME IInv, NEW w \in Workers, NEW call \in Calls, NEW j \in JobRows, Begin(w, call, j),
         j.action \in SlotActions => call \in SlotCalls /\ j.deal \in Deals /\ j.rest = {},
         j.at \in {"insert_doc", "read"} /\ j.action \in TakingActions => Alone(j.deal, deal),
         j.at = "commit" /\ j.to \in DealReservingStates =>
           j.action \in SlotActions /\ Alone(j.deal, deal)
  PROVE  Slotted(w, job'[w], deal)
<1>1. call \in Duties[w] /\ job'[w] = [j EXCEPT !.call = call]
  BY DEF Begin, IInv, Jobs
<1>2. /\ job'[w].at = j.at /\ job'[w].deal = j.deal /\ job'[w].action = j.action
      /\ job'[w].to = j.to /\ job'[w].rest = j.rest /\ job'[w].call = call
  BY <1>1 DEF JobRows
<1>3. QED BY <1>1, <1>2 DEF Slotted

LEMMA NoActionFacts ==
  /\ \A d \in Deals, step \in Steps : On(d, step).action = "none" /\ On(d, step).at = step
  /\ \A l \in Leases, step \in Steps :
        OnLease(l, step).action = "none" /\ OnLease(l, step).at = step
BY DEF On, OnLease, Idle

(* A call that begins at a step without knowledge, at the check of the     *)
(* slot it has done before, or with a state it has read.                   *)
LEMMA BeginCallSlotted ==
  ASSUME IInv, Slots, NEW w \in Workers, BeginCall(w)
  PROVE  Slotted(w, job'[w], deal)
<1> USE ActionsAreTableActions
<1>1. ASSUME NEW call \in Calls, NEW j \in JobRows, Begin(w, call, j), j.at # "commit",
             j.action \notin SlotActions
      PROVE  Slotted(w, job'[w], deal)
  BY <1>1, BeginSlotted DEF SlotActions, TakingActions
<1>2. ASSUME NEW d \in Deals,
             BeginRequest(w, d) \/ BeginGenerate(w, d) \/ BeginSign(w, d) \/ BeginClose(w, d)
      PROVE  Slotted(w, job'[w], deal)
  <2>1. PICK call \in {"request", "generate", "sign", "close"},
             step \in {"find_twin", "write_paper", "write_scan", "check_lease"} :
           Begin(w, call, On(d, step))
    BY <1>2 DEF BeginRequest, BeginGenerate, BeginSign, BeginClose
  <2>2. step \in Steps /\ call \in Calls
    BY DEF Steps, Calls
  <2>3. On(d, step) \in JobRows /\ On(d, step).at = step /\ On(d, step).action = "none"
    BY <2>2, IdleRow, NoActionFacts
  <2> DEFINE j == On(d, step)
  <2> HIDE DEF j
  <2>4. j \in JobRows /\ j.at # "commit" /\ j.action \notin SlotActions /\ Begin(w, call, j)
    BY <2>1, <2>3 DEF j, SlotActions
  <2>5. QED BY <1>1, <2>2, <2>4
<1>3. ASSUME NEW d \in Deals, BeginSelect(w, d)
      PROVE  Slotted(w, job'[w], deal)
  <2> DEFINE j == [On(d, "read") EXCEPT !.action = "schedule_viewing"]
  <2>1. /\ j \in JobRows /\ j.at = "read" /\ j.deal = d
        /\ j.action = "schedule_viewing" /\ j.rest = {}
    BY DEF On, Idle, JobRows, Counts, Steps
  <2>2. Begin(w, "select", j) /\ Alone(d, deal)
    BY <1>3, SlotFreeAlone DEF BeginSelect
  <2> HIDE DEF j
  <2>3. QED BY <2>1, <2>2, BeginSlotted DEF Calls, SlotCalls
<1>4. ASSUME NEW d \in Deals, BeginUpload(w, d)
      PROVE  Slotted(w, job'[w], deal)
  <2> DEFINE j == [On(d, "insert_doc") EXCEPT !.action = "submit_documents"]
             k == [On(d, "check_slot") EXCEPT !.action = "resubmit_documents"]
  <2>1. /\ j \in JobRows /\ j.at = "insert_doc" /\ j.deal = d
        /\ j.action = "submit_documents" /\ j.rest = {}
    BY DEF On, Idle, JobRows, Counts, Steps
  <2>2. /\ k \in JobRows /\ k.at = "check_slot" /\ k.deal = d
        /\ k.action = "resubmit_documents" /\ k.rest = {}
    BY DEF On, Idle, JobRows, Counts, Steps
  <2>3. Begin(w, "upload", j) \/ Begin(w, "upload", k)
    BY <1>4 DEF BeginUpload
  <2> HIDE DEF j, k
  <2>4. QED BY <2>1, <2>2, <2>3, BeginSlotted DEF Calls, SlotCalls, TakingActions
<1>5. ASSUME NEW d \in Deals, NEW action \in PlainActions, BeginPlain(w, d, action)
      PROVE  Slotted(w, job'[w], deal)
  <2>1. PICK to \in Targets(deal[d], action) :
           Begin(w, action, [On(d, "commit") EXCEPT !.action = action, !.to = to])
    BY <1>5 DEF BeginPlain
  <2> DEFINE j == [On(d, "commit") EXCEPT !.action = action, !.to = to]
  <2>2. /\ j \in JobRows /\ j.at = "commit" /\ j.deal = d /\ j.action = action
        /\ j.rest = {} /\ j.to = to
    BY DEF On, Idle, JobRows, Counts, Steps, PlainActions, Targets
  <2>3. Begin(w, action, j) /\ action \in Calls
    BY <2>1 DEF PlainActions, Calls
  <2>4. to \in DealReservingStates => action \in SlotActions /\ Alone(d, deal)
    BY SlotTargets, HolderAlone DEF Slots, TakingActions, PlainActions
  <2>5. action \in SlotActions => action \in SlotCalls
    BY DEF PlainActions, SlotActions, SlotCalls
  <2> HIDE DEF j
  <2>6. QED BY <2>2, <2>3, <2>4, <2>5, BeginSlotted
<1>6. ASSUME NEW d \in Deals, NEW action \in {"approve_documents", "reject_documents"},
             BeginVerify(w, d, action)
      PROVE  Slotted(w, job'[w], deal)
  <2> DEFINE j == [On(d, "read") EXCEPT !.action = action, !.doc = Len(docs[d])]
  <2>1. Len(docs[d]) \in Nat
    BY DEF IInv, TablesTyped
  <2>2. j \in JobRows /\ j.at = "read" /\ j.deal = d /\ j.action = action /\ j.rest = {}
    BY <2>1 DEF On, Idle, JobRows, Counts, Steps
  <2>3. Begin(w, "verify", j)
    BY <1>6 DEF BeginVerify
  <2> HIDE DEF j
  <2>4. QED BY <2>2, <2>3, BeginSlotted DEF Calls, SlotCalls, TakingActions
<1>7. ASSUME NEW call \in {"expire_requests", "expire_viewings"}, NEW from,
             BeginExpiry(w, call, from)
      PROVE  Slotted(w, job'[w], deal)
  <2>1. PICK batch \in SUBSET Deals :
           \E j \in Visits([Idle EXCEPT !.action = "expire", !.rest = batch]) :
              Begin(w, call, j)
    BY <1>7 DEF BeginExpiry
  <2> DEFINE i == [Idle EXCEPT !.action = "expire", !.rest = batch]
  <2>2. i \in JobRows /\ i.action = "expire"
    BY DEF Idle, JobRows, Counts
  <2> HIDE DEF i
  <2>3. PICK j \in Visits(i) : Begin(w, call, j)
    BY <2>1 DEF i
  <2>4. j \in JobRows
    BY <2>2, VisitFacts DEF JobFacts
  <2>5. j.at # "commit" /\ j.action \notin SlotActions
    <3>1. CASE j = Idle
      BY <3>1, IdleRow DEF SlotActions
    <3>2. CASE j # Idle
      <4>1. PICK e \in i.rest : j = [i EXCEPT !.at = "read", !.deal = e, !.rest = @ \ {e}]
        BY <2>3, <3>2 DEF Visits
      <4>2. QED BY <2>2, <4>1 DEF JobRows, SlotActions
    <3>3. QED BY <3>1, <3>2
  <2>6. QED BY <1>1, <2>3, <2>4, <2>5 DEF Calls
<1>8. ASSUME NEW l \in Leases, NEW action \in {"mark_ending_soon", "record_move_out"},
             BeginLease(w, l, action)
      PROVE  Slotted(w, job'[w], deal)
  <2>1. PICK to \in LeaseTargets(lease[l].status, action) :
           Begin(w, action, [OnLease(l, "lease_commit") EXCEPT !.to = to])
    BY <1>8 DEF BeginLease
  <2> DEFINE j == [OnLease(l, "lease_commit") EXCEPT !.to = to]
  <2>2. to \in {"ending_soon", "vacated"}
    BY LeaseTargetFacts
  <2>3. j \in JobRows /\ j.at = "lease_commit" /\ j.action = "none"
    BY <2>2 DEF JobRows, OnLease, Idle, Counts, LeaseStatuses, Steps
  <2>4. Begin(w, action, j) /\ action \in Calls
    BY <2>1 DEF Calls
  <2> HIDE DEF j
  <2>5. QED BY <1>1, <2>3, <2>4 DEF SlotActions
<1>9. ASSUME NEW l \in Leases, BeginRenew(w, l)
      PROVE  Slotted(w, job'[w], deal)
  <2> DEFINE j == OnLease(l, "renew_tx")
  <2>1. j \in JobRows /\ j.at = "renew_tx" /\ j.action = "none"
    BY DEF JobRows, OnLease, Idle, Counts, Steps
  <2>2. Begin(w, "renew", j)
    BY <1>9 DEF BeginRenew
  <2> HIDE DEF j
  <2>3. QED BY <1>1, <2>1, <2>2 DEF SlotActions, Calls
<1>10. QED BY <1>2, <1>3, <1>4, <1>5, <1>6, <1>7, <1>8, <1>9 DEF BeginCall

(* The later steps: whoever is about to take a deal to a reserving state   *)
(* has just read it in one, or has found the slot free.                    *)
LEMMA StepSlotted ==
  ASSUME IInv, Slots, NEW w \in Workers, Step(w) \/ Crash(w)
  PROVE  Slotted(w, job'[w], deal)
<1> DEFINE j == job[w]
<1>0. /\ job \in [Workers -> JobRows] /\ j \in JobRows /\ JobFacts(w, j)
      /\ Slotted(w, j, deal)
  BY DEF IInv, Jobs, Slots
<1>1. ASSUME NEW k, job' = [job EXCEPT ![w] = k], Slotted(w, k, deal)
      PROVE  Slotted(w, job'[w], deal)
  BY <1>0, <1>1
<1>2. ASSUME Return(w) PROVE Slotted(w, job'[w], deal)
  BY <1>1, <1>2, IdleSlotted DEF Return
<1>3. ASSUME NEW step \in Steps, Goto(w, step), step \notin {"insert_doc", "read", "commit"}
      PROVE  Slotted(w, job'[w], deal)
  <2>1. /\ job'[w].at = step /\ job'[w].action = j.action /\ job'[w].call = j.call
        /\ job'[w].rest = j.rest /\ job'[w].deal = j.deal
    BY <1>0, <1>3 DEF Goto, JobRows
  <2>2. QED BY <1>0, <1>3, <2>1, PlainSlotted DEF Slotted
<1>4. ASSUME NEW k \in JobRows, Continue(w, k), k.action \in SlotActions => k.rest = {}
      PROVE  Slotted(w, job'[w], deal)
  <2>1. PICK i \in Visits(k) : job' = [job EXCEPT ![w] = i]
    BY <1>4 DEF Continue
  <2>2. Slotted(w, i, deal)
    BY <1>4, VisitSlotted
  <2>3. QED BY <1>1, <2>1, <2>2
<1>5. ASSUME NEW k \in JobRows, job' = [job EXCEPT ![w] = Recount(k)]
      PROVE  Slotted(w, job'[w], deal)
  BY <1>1, <1>5, RecountSlotted
<1>6. CASE FindTwin(w) \/ CheckLease(w) \/ CheckScan(w)
  BY <1>2, <1>3, <1>6 DEF FindTwin, CheckLease, CheckScan, Require, Steps
<1>7. CASE StampDoc(w) \/ WritePaper(w) \/ WriteScan(w) \/ Crash(w)
  BY <1>2, <1>7 DEF StampDoc, WritePaper, WriteScan, Crash
<1>8. CASE InsertDeal(w)
  <2>1. PICK d \in Deals : job' = [job EXCEPT ![w] = Recount([j EXCEPT !.deal = d])]
    BY <1>0, <1>8 DEF InsertDeal
  <2>2. [j EXCEPT !.deal = d] \in JobRows
    BY <1>0 DEF JobRows
  <2>3. QED BY <1>5, <2>1, <2>2
<1>9. CASE CheckSlot(w)
  <2>1. CASE Return(w)
    BY <1>2, <2>1
  <2>2. CASE Goto(w, "insert_doc") /\ SlotFree(j.deal)
    <3>1. /\ job'[w].at = "insert_doc" /\ job'[w].action = j.action /\ job'[w].call = j.call
          /\ job'[w].rest = j.rest /\ job'[w].deal = j.deal
      BY <1>0, <2>2 DEF Goto, JobRows
    <3>2. Alone(j.deal, deal)
      BY <2>2 DEF SlotFree, Alone, Reserving, DealsOn
    <3>3. QED BY <1>0, <3>1, <3>2 DEF Slotted
  <2>3. QED BY <1>9, <2>1, <2>2 DEF CheckSlot, Require
<1>10. CASE InsertDoc(w)
  <2>1. /\ job'[w].at = "read" /\ job'[w].action = j.action /\ job'[w].call = j.call
        /\ job'[w].rest = j.rest /\ job'[w].deal = j.deal
    BY <1>0, <1>10 DEF InsertDoc, Goto, JobRows
  <2>2. j.action \in TakingActions => Alone(j.deal, deal)
    BY <1>0, <1>10 DEF InsertDoc, At, Slotted
  <2>3. QED BY <1>0, <2>1, <2>2 DEF Slotted
<1>11. CASE Read(w)
  <2>1. CASE Return(w)
    BY <1>2, <2>1
  <2>2. CASE ~ Return(w)
    <3>1. PICK to \in Targets(deal[j.deal], j.action) :
             job' = [job EXCEPT ![w] = [j EXCEPT !.at = "commit", !.to = to]]
      BY <1>0, <1>11, <2>2 DEF Read
    <3>2. /\ job'[w].at = "commit" /\ job'[w].action = j.action /\ job'[w].call = j.call
          /\ job'[w].rest = j.rest /\ job'[w].deal = j.deal /\ job'[w].to = to
      BY <1>0, <3>1 DEF JobRows
    <3>3. ASSUME to \in DealReservingStates
          PROVE  j.action \in SlotActions /\ Alone(j.deal, deal)
      <4>1. /\ j.action \in SlotActions
            /\ deal[j.deal] \in DealReservingStates \/ j.action \in TakingActions
        BY <3>3, SlotTargets
      <4>2. j.action \in TakingActions => Alone(j.deal, deal)
        BY <1>0, <1>11 DEF Read, At, Slotted
      <4>3. j.deal \in Deals
        BY <1>0, <4>1 DEF Slotted
      <4>4. QED BY <4>1, <4>2, <4>3, HolderAlone DEF Slots
    <3>4. QED BY <1>0, <3>2, <3>3 DEF Slotted, TakingActions
  <2>3. QED BY <2>1, <2>2
<1>12. CASE Commit(w)
  <2> DEFINE r == Recount(j)
  <2>1. job' = [job EXCEPT ![w] = [r EXCEPT !.action = j.action]]
    BY <1>12 DEF Commit
  <2>2. r \in JobRows /\ r.at = "recount" /\ r.call = j.call /\ r.rest = j.rest /\ r.deal = j.deal
    BY <1>0, RecountFacts DEF Recount, JobRows
  <2> HIDE DEF r
  <2> DEFINE k == [r EXCEPT !.action = j.action]
  <2>3. /\ k.at = "recount" /\ k.action = j.action /\ k.call = j.call /\ k.rest = j.rest
        /\ k.deal = j.deal
    BY <2>2 DEF JobRows
  <2> HIDE DEF k
  <2>4. job' = [job EXCEPT ![w] = k]
    BY <2>1 DEF k
  <2>5. Slotted(w, k, deal)
    BY <1>0, <2>3, PlainSlotted DEF Slotted
  <2>6. QED BY <1>1, <2>4, <2>5
<1>13. CASE CountReserving(w) \/ CountLive(w)
  <2>1. PICK count :
           \/ job' = [job EXCEPT ![w] = [j EXCEPT !.reserving = count]]
           \/ job' = [job EXCEPT ![w] = [j EXCEPT !.live = count]]
    BY <1>0, <1>13 DEF CountReserving, CountLive
  <2>2. /\ job'[w].at = "recount" /\ job'[w].action = j.action /\ job'[w].call = j.call
        /\ job'[w].rest = j.rest /\ job'[w].deal = j.deal
    BY <1>0, <1>13, <2>1 DEF CountReserving, CountLive, At, JobRows
  <2>3. QED BY <1>0, <2>2, PlainSlotted DEF Slotted
<1>14. CASE WriteStatus(w)
  <2>1. Goto(w, "stamp_doc") \/ Goto(w, "find_others") \/ Continue(w, j)
    BY <1>14 DEF WriteStatus
  <2>2. j.action \in SlotActions => j.rest = {}
    BY <1>0 DEF Slotted
  <2>3. QED BY <1>0, <1>3, <1>4, <2>1, <2>2 DEF Steps
<1>15. CASE FindQueue(w)
  <2>1. PICK queue : job' = [job EXCEPT ![w] = [j EXCEPT !.at = "close_tx", !.rest = queue]]
    BY <1>0, <1>15 DEF FindQueue
  <2>2. job'[w].at = "close_tx" /\ job'[w].action = j.action
    BY <1>0, <2>1 DEF JobRows
  <2>3. j.action \notin SlotActions
    BY <1>0, <1>15 DEF FindQueue, At, JobFacts, LeaseSteps, LeaseCalls, Slotted, SlotCalls
  <2>4. QED BY <2>2, <2>3, PlainSlotted
<1>16. CASE FindOthers(w)
  <2>1. PICK others \in SUBSET Deals :
           Continue(w, [j EXCEPT !.rest = others, !.action = "withdraw"])
    BY <1>16 DEF FindOthers
  <2>2. "withdraw" \in {t[2] : t \in DealTransitions}
    BY ActionsAreTableActions
  <2> DEFINE k == [j EXCEPT !.rest = others, !.action = "withdraw"]
  <2>3. k \in JobRows /\ k.action \notin SlotActions
    BY <1>0, <2>2 DEF JobRows, SlotActions
  <2> HIDE DEF k
  <2>4. Continue(w, k)
    BY <2>1 DEF k
  <2>5. QED BY <1>4, <2>3, <2>4
<1>17. CASE CloseTx(w)
  <2>1. Return(w) \/ job' = [job EXCEPT ![w] = Recount([j EXCEPT !.rest = {}])]
    BY <1>17 DEF CloseTx
  <2>2. [j EXCEPT !.rest = {}] \in JobRows
    BY <1>0 DEF JobRows
  <2>3. QED BY <1>2, <1>5, <2>1, <2>2
<1>18. CASE LeaseCommit(w) \/ RenewTx(w)
  <2>1. Return(w) \/ job' = [job EXCEPT ![w] = Recount(j)]
    BY <1>18 DEF LeaseCommit, RenewTx
  <2>2. QED BY <1>0, <1>2, <1>5, <2>1
<1>19. QED
  BY <1>6, <1>7, <1>8, <1>9, <1>10, <1>11, <1>12, <1>13, <1>14, <1>15, <1>16, <1>17, <1>18
  DEF Step

(* But for a commit to such a state, no step makes a deal reserve.         *)
Shrinks == \A e \in Deals : deal'[e] \in DealReservingStates => deal[e] \in DealReservingStates

LEMMA MostStepsShrink ==
  ASSUME IInv, NEW w \in Workers, BeginCall(w) \/ Step(w) \/ Crash(w),
         ~ (Commit(w) /\ job[w].to \in DealReservingStates)
  PROVE  Shrinks
<1>0. deal \in [Deals -> DealStates \cup {NoDeal}]
  BY DEF IInv, TablesTyped
<1>1. CASE BeginCall(w)
  BY <1>1, BeginCallStep DEF db, Shrinks
<1>2. CASE InsertDeal(w)
  <2>1. PICK d \in Deals : deal' = [deal EXCEPT ![d] = "requested"]
    BY <1>2 DEF InsertDeal
  <2>2. QED BY <1>0, <2>1 DEF Shrinks, DealReservingStates
<1>3. CASE Commit(w)
  <2>1. deal' = [deal EXCEPT ![job[w].deal] = job[w].to] /\ job[w].to \notin DealReservingStates
    BY <1>3 DEF Commit
  <2>2. QED BY <1>0, <2>1 DEF Shrinks
<1>4. CASE CloseTx(w)
  <2>1. \A e \in Deals : deal'[e] \in {"closed", "expired", deal[e]}
    BY <1>4 DEF CloseTx, db
  <2>2. QED BY <2>1 DEF Shrinks, DealReservingStates, DealOpenStates
<1>5. CASE ~ (BeginCall(w) \/ InsertDeal(w) \/ Commit(w) \/ CloseTx(w))
  BY <1>5 DEF Step, FindTwin, Read, CountReserving, CountLive, WriteStatus, CheckSlot,
     InsertDoc, StampDoc, WritePaper, WriteScan, CheckLease, CheckScan, FindQueue, FindOthers,
     LeaseCommit, RenewTx, Crash, db, Shrinks
<1>6. QED BY <1>1, <1>2, <1>3, <1>4, <1>5

LEMMA ShrinkKeepsSlots ==
  ASSUME Shrinks, NEW w, NEW j, Slotted(w, j, deal) PROVE Slotted(w, j, deal')
BY DEF Shrinks, Slotted, Alone

(* A step of one worker leaves the calls of the others where they are.     *)
LEMMA StepMovesOne ==
  ASSUME IInv, NEW w \in Workers, Step(w) \/ Crash(w)
  PROVE  \A v \in Workers \ {w} : job'[v] = job[v]
BY DEF IInv, Jobs, Step, Crash, FindTwin, InsertDeal, Read, Commit, CountReserving, CountLive,
   WriteStatus, CheckSlot, InsertDoc, StampDoc, WritePaper, WriteScan, CheckLease, CheckScan,
   FindQueue, CloseTx, FindOthers, LeaseCommit, RenewTx, Return, Goto, Require, Continue

(* The one desk may take a deal on; nobody else has knowledge of the slot. *)
LEMMA NextSlots == ASSUME OneSlotDesk, IInv, Slots, Next PROVE Slots'
<1>1. PICK w \in Workers : BeginCall(w) \/ Step(w) \/ Crash(w)
  BY DEF Next
<1>2. \A v \in Workers \ {w} : job'[v] = job[v]
  <2>1. CASE BeginCall(w)
    BY <2>1, BeginCallStep, BeginKnows DEF db
  <2>2. CASE Step(w) \/ Crash(w)
    BY <2>2, StepMovesOne
  <2>3. QED BY <1>1, <2>1, <2>2
<1>3. Slotted(w, job'[w], deal)
  BY <1>1, BeginCallSlotted, StepSlotted
<1>4. CASE Shrinks
  <2>1. \A v \in Workers : Slotted(v, job'[v], deal)
    BY <1>2, <1>3 DEF Slots
  <2>2. \A v \in Workers : Slotted(v, job'[v], deal')
    BY <1>4, <2>1, ShrinkKeepsSlots
  <2>3. OneReservingDeal'
    BY <1>4 DEF Slots, OneReservingDeal, Reserving, DealsOn, Shrinks
  <2>4. QED BY <2>2, <2>3 DEF Slots
<1>5. CASE ~ Shrinks
  <2>1. Commit(w) /\ job[w].to \in DealReservingStates
    BY <1>1, <1>5, MostStepsShrink
  <2>2. /\ deal' = [deal EXCEPT ![job[w].deal] = job[w].to] /\ job[w].at = "commit"
        /\ job'[w].at = "recount"
    <3>1. job'[w] = [Recount(job[w]) EXCEPT !.action = job[w].action] /\ job[w] \in JobRows
      BY <2>1 DEF Commit, IInv, Jobs
    <3>2. Recount(job[w]) \in JobRows /\ Recount(job[w]).at = "recount"
      BY <3>1, RecountFacts
    <3>3. job'[w].at = "recount"
      BY <3>1, <3>2 DEF JobRows
    <3>4. QED BY <2>1, <3>3 DEF Commit, At
  <2>3. Alone(job[w].deal, deal) /\ job[w].action \in SlotActions
    BY <2>1, <2>2 DEF Slots, Slotted
  <2>4. job[w].call \in SlotCalls \cap Duties[w]
    BY <2>3 DEF Slots, Slotted
  <2>5. OneReservingDeal'
    <3>1. \A e \in Deals : e # job[w].deal => deal'[e] = deal[e]
      BY <2>2 DEF IInv, TablesTyped
    <3>2. QED BY <2>3, <3>1 DEF Slots, OneReservingDeal, Reserving, DealsOn, Alone
  <2>6. ASSUME NEW v \in Workers PROVE Slotted(v, job'[v], deal')
    <3>1. CASE v = w
      BY <1>3, <2>2, <3>1 DEF Slotted
    <3>2. CASE v # w
      <4>1. job'[v] = job[v] /\ Slotted(v, job[v], deal)
        BY <1>2, <3>2 DEF Slots
      <4>2. Duties[v] \cap SlotCalls = {}
        BY <2>4, <3>2 DEF OneSlotDesk
      <4>3. QED BY <4>1, <4>2 DEF Slotted, SlotActions, TakingActions
    <3>3. QED BY <3>1, <3>2
  <2>7. QED BY <2>5, <2>6 DEF Slots
<1>6. QED BY <1>4, <1>5

LEMMA InitSlots == Init => Slots
BY IdleSlotted DEF Init, Slots, OneReservingDeal, Reserving, DealsOn, DealReservingStates,
   DealOpenStates, NoDeal

(* With one desk for the calls that take a deal on while it holds the      *)
(* slot, a home never has two such deals, though nothing between the look  *)
(* at the slot (deal-state.service.ts:313, documents.service.ts:69) and    *)
(* the write keeps others out, and whatever else overlaps and crashes.     *)
THEOREM ActiveSlotIsExclusive ==
  ASSUME OneSlotDesk PROVE Spec => []OneReservingDeal
<1>1. Slots => OneReservingDeal
  BY DEF Slots
<1>2. IInv /\ Slots /\ [Next]_vars => Slots'
  <2>1. ASSUME IInv, Slots, UNCHANGED vars PROVE Slots'
    BY <2>1 DEF vars, db, Slots, OneReservingDeal, Reserving, DealsOn
  <2>2. QED BY <2>1, NextSlots
<1>3. QED BY <1>1, <1>2, InitIInv, NextIInv, InitSlots, PTL DEF Spec

--------------------------------------------------------------------------------
(* WHICH OVERLAPS BREAK WHICH PROMISE                                      *)
(*                                                                         *)
(* Three promises of the texts are broken by calls that overlap            *)
(* (DealSteps).  Each is shown to hold when certain calls are made by one  *)
(* worker, beside any number of workers that make the others: those are    *)
(* the calls the code would have to keep apart.  Shape says at which steps *)
(* a call can be; it needs no assumption.                                  *)

StepsOf(call) ==
  CASE call = "request" -> {"find_twin", "insert_deal", "recount"}
    [] call = "upload" -> {"check_slot", "insert_doc", "read", "commit", "recount"}
    [] call = "verify" -> {"read", "commit", "recount", "stamp_doc"}
    [] call = "generate" -> {"write_paper"}
    [] call = "sign" -> {"write_scan"}
    [] call = "close" -> {"check_lease", "check_scan", "find_queue", "close_tx", "recount",
                          "find_others", "read", "commit"}
    [] call = "renew" -> {"renew_tx", "recount"}
    [] call \in {"mark_ending_soon", "record_move_out"} -> {"lease_commit", "recount"}
    [] OTHER -> {"read", "commit", "recount"}

Loops == {"expire_requests", "expire_viewings", "close"}
OnLeases == {"mark_ending_soon", "renew", "record_move_out"}

Shape(w, j) ==
  /\ j.at # "idle" => j.call \in Duties[w] /\ j.at \in StepsOf(j.call)
  /\ j.rest # {} => j.call \in Loops
  /\ j.lease # NoRow => j.call \in OnLeases
  /\ j.action # "request"
  /\ j.at = "close_tx" => j.rest \subseteq DealsOn(DealListing[j.deal])

Shapes == \A w \in Workers : Shape(w, job[w])

(* What a call has read when it begins.                                    *)
Begun(w, k) ==
  /\ Shape(w, k)
  /\ k.at \in {"idle", "find_twin", "check_slot", "insert_doc", "read", "commit",
               "write_paper", "write_scan", "check_lease", "lease_commit", "renew_tx"}
  /\ k.at \in {"write_paper", "check_lease"} => k.deal \in Deals /\ deal[k.deal] = "approved"
  /\ k.at = "commit" => k.deal \in Deals /\ k.to \in Targets(deal[k.deal], k.action)

(* How a job goes on: to the next step about the same row, to the next row *)
(* of its loop, or not at all.                                             *)
SameRow(j, k) == k.call = j.call /\ k.lease = j.lease /\ k.deal = j.deal

Follows(j, k) ==
  \/ k = Idle
  \/ /\ SameRow(j, k) /\ k.action = j.action /\ k.rest = j.rest
     /\ \/ <<j.at, k.at>> \in {<<"find_twin", "insert_deal">>, <<"check_slot", "insert_doc">>,
                               <<"insert_doc", "read">>, <<"read", "commit">>,
                               <<"commit", "recount">>, <<"recount", "recount">>,
                               <<"check_lease", "check_scan">>, <<"check_scan", "find_queue">>}
        \/ j.at = "recount" /\ k.at = "stamp_doc" /\ j.call = "verify"
        \/ j.at = "recount" /\ k.at = "find_others" /\ j.call = "close"
  \/ /\ SameRow(j, k) /\ k.action = j.action
     /\ j.at = "find_queue" /\ k.at = "close_tx"
     /\ k.rest \subseteq DealsOn(DealListing[j.deal])
  \/ /\ SameRow(j, k) /\ k.action = "none" /\ k.rest \subseteq j.rest
     /\ j.at \in {"close_tx", "lease_commit", "renew_tx"} /\ k.at = "recount"
  \/ /\ k.call = j.call /\ k.lease = j.lease /\ k.action = "none" /\ k.rest = j.rest
     /\ j.at = "insert_deal" /\ k.at = "recount"
  \/ /\ k.call = j.call /\ k.lease = j.lease /\ k.action \in {j.action, "withdraw"}
     /\ k.at = "read"
     /\ \/ j.at = "find_others"
        \/ j.at = "recount" /\ j.rest # {}

LEMMA StepsOfCalls ==
  ASSUME NEW call \in Calls
  PROVE  /\ "recount" \in StepsOf(call) => call \notin {"generate", "sign"}
         /\ "write_paper" \in StepsOf(call) => call = "generate"
         /\ "write_scan" \in StepsOf(call) => call = "sign"
         /\ "stamp_doc" \in StepsOf(call) => call = "verify"
         /\ "find_twin" \in StepsOf(call) => call = "request"
         /\ "insert_deal" \in StepsOf(call) => call = "request"
         /\ "check_slot" \in StepsOf(call) => call = "upload"
         /\ "insert_doc" \in StepsOf(call) => call = "upload"
         /\ "check_lease" \in StepsOf(call) => call = "close"
         /\ "check_scan" \in StepsOf(call) => call = "close"
         /\ "find_queue" \in StepsOf(call) => call = "close"
         /\ "close_tx" \in StepsOf(call) => call = "close"
         /\ "find_others" \in StepsOf(call) => call = "close"
         /\ "lease_commit" \in StepsOf(call) => call \in {"mark_ending_soon", "record_move_out"}
         /\ "renew_tx" \in StepsOf(call) => call = "renew"
         /\ call \in {"generate", "sign", "request"} \cup OnLeases
              => "read" \notin StepsOf(call) /\ "commit" \notin StepsOf(call)
BY DEF StepsOf, Calls, OnLeases

LEMMA MoreSteps ==
  ASSUME NEW call \in Calls
  PROVE  /\ "find_twin" \in StepsOf(call) => "insert_deal" \in StepsOf(call)
         /\ "insert_deal" \in StepsOf(call) => "recount" \in StepsOf(call)
         /\ "check_slot" \in StepsOf(call) => "insert_doc" \in StepsOf(call)
         /\ "insert_doc" \in StepsOf(call) => "read" \in StepsOf(call)
         /\ "read" \in StepsOf(call) => "commit" \in StepsOf(call)
         /\ "commit" \in StepsOf(call) => "recount" \in StepsOf(call)
         /\ "lease_commit" \in StepsOf(call) => "recount" \in StepsOf(call)
         /\ "renew_tx" \in StepsOf(call) => "recount" \in StepsOf(call)
         /\ call \in Loops => "read" \in StepsOf(call)
         /\ "stamp_doc" \in StepsOf("verify")
         /\ {"check_scan", "find_queue", "close_tx", "recount", "find_others"}
              \subseteq StepsOf("close")
BY DEF StepsOf, Calls, Loops

(* A call begins with a job of the right shape, and knows what it read.    *)
LEMMA StampedIsBegun ==
  ASSUME IInv, NEW w \in Workers, NEW call \in Calls, NEW j \in JobRows, Begin(w, call, j),
         j.at # "idle" => j.at \in StepsOf(call),
         j.rest # {} => call \in Loops, j.lease # NoRow => call \in OnLeases,
         j.action # "request",
         j.at \in {"idle", "find_twin", "check_slot", "insert_doc", "read", "commit",
                   "write_paper", "write_scan", "check_lease", "lease_commit", "renew_tx"},
         j.at \in {"write_paper", "check_lease"} => j.deal \in Deals /\ deal[j.deal] = "approved",
         j.at = "commit" => j.deal \in Deals /\ j.to \in Targets(deal[j.deal], j.action)
  PROVE  Begun(w, job'[w])
<1>1. job'[w] = [j EXCEPT !.call = call] /\ call \in Duties[w]
  BY DEF Begin, IInv, Jobs
<1>2. /\ job'[w].call = call /\ job'[w].at = j.at /\ job'[w].rest = j.rest
      /\ job'[w].lease = j.lease /\ job'[w].action = j.action /\ job'[w].deal = j.deal
      /\ job'[w].to = j.to
  BY <1>1 DEF JobRows
<1>3. QED BY <1>1, <1>2 DEF Begun, Shape

LEMMA PlainRows ==
  /\ \A d \in Deals, step \in Steps :
        /\ On(d, step).at = step /\ On(d, step).deal = d /\ On(d, step).rest = {}
        /\ On(d, step).lease = NoRow /\ On(d, step).action = "none"
  /\ \A l \in Leases, step \in Steps :
        /\ OnLease(l, step).at = step /\ OnLease(l, step).lease = l
        /\ OnLease(l, step).rest = {} /\ OnLease(l, step).action = "none"
  /\ Idle.at = "idle" /\ Idle.rest = {} /\ Idle.lease = NoRow /\ Idle.action = "none"
BY DEF On, OnLease, Idle

LEMMA BeginCallBegun ==
  ASSUME IInv, NEW w \in Workers, BeginCall(w)
  PROVE  Begun(w, job'[w]) /\ \A v \in Workers \ {w} : job'[v] = job[v]
<1> USE ActionsAreTableActions
<1> USE DEF Loops, OnLeases, Steps, Calls
<1>0. ASSUME NEW call, NEW j \in JobRows, Begin(w, call, j)
      PROVE  \A v \in Workers \ {w} : job'[v] = job[v]
  BY <1>0, BeginAt
<1>1. ASSUME NEW d \in Deals,
             BeginRequest(w, d) \/ BeginGenerate(w, d) \/ BeginSign(w, d) \/ BeginClose(w, d)
      PROVE  Begun(w, job'[w]) /\ \A v \in Workers \ {w} : job'[v] = job[v]
  <2>1. PICK call \in {"request", "generate", "sign", "close"},
             step \in {"find_twin", "write_paper", "write_scan", "check_lease"} :
           /\ Begin(w, call, On(d, step))
           /\ call = "request" <=> step = "find_twin"
           /\ call = "generate" <=> step = "write_paper"
           /\ call = "sign" <=> step = "write_scan"
           /\ call \in {"generate", "close"} => deal[d] = "approved"
    BY <1>1 DEF BeginRequest, BeginGenerate, BeginSign, BeginClose
  <2>2. step \in StepsOf(call)
    BY <2>1 DEF StepsOf
  <2>3. QED BY <1>0, <2>1, <2>2, StampedIsBegun, PlainRows, IdleRow
<1>2. ASSUME NEW d \in Deals, BeginSelect(w, d)
      PROVE  Begun(w, job'[w]) /\ \A v \in Workers \ {w} : job'[v] = job[v]
  <2> DEFINE j == [On(d, "read") EXCEPT !.action = "schedule_viewing"]
  <2>1. Begin(w, "select", j)
    BY <1>2 DEF BeginSelect
  <2>2. /\ j \in JobRows /\ j.at = "read" /\ j.rest = {} /\ j.lease = NoRow
        /\ j.action = "schedule_viewing"
    BY DEF JobRows, On, Idle, Counts
  <2>3. "read" \in StepsOf("select")
    BY DEF StepsOf
  <2> HIDE DEF j
  <2>4. QED BY <1>0, <2>1, <2>2, <2>3, StampedIsBegun
<1>3. ASSUME NEW d \in Deals, BeginUpload(w, d)
      PROVE  Begun(w, job'[w]) /\ \A v \in Workers \ {w} : job'[v] = job[v]
  <2> DEFINE i == [On(d, "insert_doc") EXCEPT !.action = "submit_documents"]
             j == [On(d, "check_slot") EXCEPT !.action = "resubmit_documents"]
  <2>1. Begin(w, "upload", i) \/ Begin(w, "upload", j)
    BY <1>3 DEF BeginUpload
  <2>2. /\ i \in JobRows /\ i.at = "insert_doc" /\ i.rest = {} /\ i.lease = NoRow
        /\ i.action = "submit_documents"
    BY DEF JobRows, On, Idle, Counts
  <2>3. /\ j \in JobRows /\ j.at = "check_slot" /\ j.rest = {} /\ j.lease = NoRow
        /\ j.action = "resubmit_documents"
    BY DEF JobRows, On, Idle, Counts
  <2>4. {"insert_doc", "check_slot"} \subseteq StepsOf("upload")
    BY DEF StepsOf
  <2> HIDE DEF i, j
  <2>5. QED BY <1>0, <2>1, <2>2, <2>3, <2>4, StampedIsBegun
<1>4. ASSUME NEW d \in Deals, NEW action \in PlainActions, BeginPlain(w, d, action)
      PROVE  Begun(w, job'[w]) /\ \A v \in Workers \ {w} : job'[v] = job[v]
  <2>1. PICK to \in Targets(deal[d], action) :
           Begin(w, action, [On(d, "commit") EXCEPT !.action = action, !.to = to])
    BY <1>4 DEF BeginPlain
  <2> DEFINE j == [On(d, "commit") EXCEPT !.action = action, !.to = to]
  <2>2. /\ j \in JobRows /\ j.at = "commit" /\ j.rest = {} /\ j.lease = NoRow
        /\ j.action = action /\ j.to = to /\ j.deal = d
    BY DEF JobRows, On, Idle, Counts, PlainActions, Targets
  <2>3. "commit" \in StepsOf(action) /\ action \in Calls /\ action # "request"
    BY DEF StepsOf, PlainActions
  <2>4. Begin(w, action, j)
    BY <2>1
  <2> HIDE DEF j
  <2>5. QED BY <1>0, <2>2, <2>3, <2>4, StampedIsBegun
<1>5. ASSUME NEW d \in Deals, NEW action \in {"approve_documents", "reject_documents"},
             BeginVerify(w, d, action)
      PROVE  Begun(w, job'[w]) /\ \A v \in Workers \ {w} : job'[v] = job[v]
  <2> DEFINE j == [On(d, "read") EXCEPT !.action = action, !.doc = Len(docs[d])]
  <2>1. Begin(w, "verify", j)
    BY <1>5 DEF BeginVerify
  <2>2. Len(docs[d]) \in Nat
    BY DEF IInv, TablesTyped
  <2>3. /\ j \in JobRows /\ j.at = "read" /\ j.rest = {} /\ j.lease = NoRow
        /\ j.action = action
    BY <2>2 DEF JobRows, On, Idle, Counts
  <2>4. "read" \in StepsOf("verify")
    BY DEF StepsOf
  <2> HIDE DEF j
  <2>5. QED BY <1>0, <2>1, <2>3, <2>4, StampedIsBegun
<1>6. ASSUME NEW call \in {"expire_requests", "expire_viewings"}, NEW from,
             BeginExpiry(w, call, from)
      PROVE  Begun(w, job'[w]) /\ \A v \in Workers \ {w} : job'[v] = job[v]
  <2> DEFINE i(batch) == [Idle EXCEPT !.action = "expire", !.rest = batch]
  <2>1. PICK batch \in SUBSET Deals : \E j \in Visits(i(batch)) : Begin(w, call, j)
    BY <1>6 DEF BeginExpiry
  <2>2. PICK j \in Visits(i(batch)) : Begin(w, call, j)
    BY <2>1
  <2>3. /\ i(batch) \in JobRows /\ i(batch).lease = NoRow /\ i(batch).action = "expire"
        /\ i(batch).rest = batch
    BY DEF JobRows, Idle, Counts
  <2>4. "read" \in StepsOf(call)
    BY DEF StepsOf
  <2> HIDE DEF i
  <2>5. CASE j = Idle
    BY <1>0, <2>2, <2>5, StampedIsBegun, PlainRows, IdleRow
  <2>6. CASE j # Idle
    <3>1. PICK e \in batch : j = [i(batch) EXCEPT !.at = "read", !.deal = e, !.rest = @ \ {e}]
      BY <2>2, <2>3, <2>6 DEF Visits
    <3>2. j \in JobRows /\ j.at = "read" /\ j.lease = NoRow /\ j.action = "expire"
      BY <2>3, <3>1, ZenonT(30) DEF JobRows
    <3>3. QED BY <1>0, <2>2, <2>4, <3>2, StampedIsBegun
  <2>7. QED BY <2>5, <2>6
<1>7. ASSUME NEW l \in Leases, NEW action \in {"mark_ending_soon", "record_move_out"},
             BeginLease(w, l, action)
      PROVE  Begun(w, job'[w]) /\ \A v \in Workers \ {w} : job'[v] = job[v]
  <2>1. PICK to \in LeaseTargets(lease[l].status, action) :
           Begin(w, action, [OnLease(l, "lease_commit") EXCEPT !.to = to])
    BY <1>7 DEF BeginLease
  <2> DEFINE j == [OnLease(l, "lease_commit") EXCEPT !.to = to]
  <2>2. /\ j \in JobRows /\ j.at = "lease_commit" /\ j.rest = {} /\ j.action = "none"
    BY DEF JobRows, OnLease, Idle, Counts, LeaseTargets
  <2>3. "lease_commit" \in StepsOf(action)
    BY DEF StepsOf
  <2>4. Begin(w, action, j)
    BY <2>1
  <2> HIDE DEF j
  <2>5. QED BY <1>0, <2>2, <2>3, <2>4, StampedIsBegun
<1>8. ASSUME NEW l \in Leases, BeginRenew(w, l)
      PROVE  Begun(w, job'[w]) /\ \A v \in Workers \ {w} : job'[v] = job[v]
  <2>1. Begin(w, "renew", OnLease(l, "renew_tx"))
    BY <1>8 DEF BeginRenew
  <2>2. "renew_tx" \in StepsOf("renew")
    BY DEF StepsOf
  <2>3. QED BY <1>0, <2>1, <2>2, StampedIsBegun, PlainRows, IdleRow
<1>9. QED BY <1>1, <1>2, <1>3, <1>4, <1>5, <1>6, <1>7, <1>8 DEF BeginCall

LEMMA StepFollows ==
  ASSUME IInv, NEW w \in Workers, Step(w) \/ Crash(w)
  PROVE  Follows(job[w], job'[w]) /\ \A v \in Workers \ {w} : job'[v] = job[v]
<1> SUFFICES ASSUME NEW j, j = job[w]
             PROVE  Follows(j, job'[w]) /\ \A v \in Workers \ {w} : job'[v] = job[v]
  OBVIOUS
<1> DEFINE Goal == Follows(j, job'[w]) /\ \A v \in Workers \ {w} : job'[v] = job[v]
<1>0. job \in [Workers -> JobRows] /\ j \in JobRows
  BY DEF IInv, Jobs
<1>1. ASSUME NEW k, job' = [job EXCEPT ![w] = k]
      PROVE  job'[w] = k /\ \A v \in Workers \ {w} : job'[v] = job[v]
  BY <1>0, <1>1
<1>2. ASSUME Return(w) PROVE Goal
  BY <1>1, <1>2 DEF Return, Follows
<1>3. ASSUME NEW step, Goto(w, step)
      PROVE  /\ SameRow(j, job'[w]) /\ job'[w].at = step /\ job'[w].action = j.action
             /\ job'[w].rest = j.rest
             /\ \A v \in Workers \ {w} : job'[v] = job[v]
  BY <1>0, <1>3 DEF Goto, JobRows, SameRow
<1>4. ASSUME NEW i \in JobRows, Continue(w, i), i.call = j.call, i.lease = j.lease,
             i.action \in {j.action, "withdraw"},
             j.at = "find_others" \/ (j.at = "recount" /\ i.rest = j.rest)
      PROVE  Goal
  <2>1. PICK k \in Visits(i) : job' = [job EXCEPT ![w] = k]
    BY <1>4 DEF Continue
  <2>2. CASE k = Idle
    BY <1>1, <2>1, <2>2 DEF Follows
  <2>3. CASE k # Idle
    <3>1. PICK e \in i.rest : k = [i EXCEPT !.at = "read", !.deal = e, !.rest = @ \ {e}]
      BY <2>1, <2>3 DEF Visits
    <3>2. k.at = "read" /\ k.call = i.call /\ k.lease = i.lease /\ k.action = i.action
      BY <3>1 DEF JobRows
    <3>3. Follows(j, k)
      BY <1>4, <3>1, <3>2 DEF Follows
    <3>4. QED BY <1>1, <2>1, <3>3
  <2>4. QED BY <2>2, <2>3
<1>5. ASSUME NEW i \in JobRows
      PROVE  /\ Recount(i).at = "recount" /\ Recount(i).call = i.call
             /\ Recount(i).lease = i.lease /\ Recount(i).deal = i.deal
             /\ Recount(i).action = "none" /\ Recount(i).rest = i.rest
  BY DEF Recount, JobRows
<1>6. CASE FindTwin(w) \/ CheckSlot(w) \/ CheckLease(w) \/ CheckScan(w) \/ InsertDoc(w)
  <2>1. CASE Return(w)
    BY <1>2, <2>1
  <2>2. CASE ~ Return(w)
    <3>1. PICK step : Goto(w, step) /\
             <<j.at, step>> \in {<<"find_twin", "insert_deal">>, <<"check_slot", "insert_doc">>,
                                 <<"insert_doc", "read">>, <<"check_lease", "check_scan">>,
                                 <<"check_scan", "find_queue">>}
      BY <1>6, <2>2 DEF FindTwin, CheckSlot, CheckLease, CheckScan, InsertDoc, Require, At
    <3>2. QED BY <1>3, <3>1 DEF Follows
  <2>3. QED BY <2>1, <2>2
<1>7. CASE StampDoc(w) \/ WritePaper(w) \/ WriteScan(w) \/ Crash(w)
  BY <1>2, <1>7 DEF StampDoc, WritePaper, WriteScan, Crash
<1>8. CASE InsertDeal(w)
  <2>1. PICK d \in Deals : job' = [job EXCEPT ![w] = Recount([j EXCEPT !.deal = d])]
    BY <1>0, <1>8 DEF InsertDeal
  <2> DEFINE i == [j EXCEPT !.deal = d]
  <2>2. i \in JobRows /\ i.call = j.call /\ i.lease = j.lease /\ i.rest = j.rest
    BY <1>0 DEF JobRows
  <2> HIDE DEF i
  <2>3. j.at = "insert_deal"
    BY <1>8 DEF InsertDeal, At
  <2>4. job'[w] = Recount(i) /\ \A v \in Workers \ {w} : job'[v] = job[v]
    BY <1>1, <2>1 DEF i
  <2>5. QED BY <1>5, <2>2, <2>3, <2>4 DEF Follows
<1>9. CASE Read(w)
  <2>1. CASE Return(w)
    BY <1>2, <2>1
  <2>2. CASE ~ Return(w)
    <3>1. PICK to : job' = [job EXCEPT ![w] = [j EXCEPT !.at = "commit", !.to = to]]
      BY <1>0, <1>9, <2>2 DEF Read
    <3> DEFINE k == [j EXCEPT !.at = "commit", !.to = to]
    <3>2. k.at = "commit" /\ SameRow(j, k) /\ k.action = j.action /\ k.rest = j.rest
      BY <1>0 DEF JobRows, SameRow
    <3> HIDE DEF k
    <3>3. j.at = "read"
      BY <1>9 DEF Read, At
    <3>4. Follows(j, k)
      BY <3>2, <3>3 DEF Follows
    <3>5. QED BY <1>1, <3>1, <3>4 DEF k
  <2>3. QED BY <2>1, <2>2
<1>10. CASE Commit(w)
  <2> DEFINE r == Recount(j)
             k == [r EXCEPT !.action = j.action]
  <2>1. job' = [job EXCEPT ![w] = k] /\ j.at = "commit"
    BY <1>10 DEF Commit, At
  <2>2. r \in JobRows
    BY <1>0, RecountFacts
  <2>3. r.at = "recount" /\ SameRow(j, r) /\ r.rest = j.rest
    BY <1>0, <1>5 DEF SameRow
  <2> HIDE DEF r
  <2>4. k.at = "recount" /\ SameRow(j, k) /\ k.action = j.action /\ k.rest = j.rest
    BY <2>2, <2>3 DEF JobRows, SameRow
  <2> HIDE DEF k
  <2>5. QED BY <1>1, <2>1, <2>4 DEF Follows
<1>11. CASE CountReserving(w) \/ CountLive(w)
  <2>1. PICK count :
           \/ job' = [job EXCEPT ![w] = [j EXCEPT !.reserving = count]]
           \/ job' = [job EXCEPT ![w] = [j EXCEPT !.live = count]]
    BY <1>0, <1>11 DEF CountReserving, CountLive
  <2>2. j.at = "recount"
    BY <1>11 DEF CountReserving, CountLive, At
  <2>3. ASSUME NEW k \in {[j EXCEPT !.reserving = count], [j EXCEPT !.live = count]}
        PROVE  Follows(j, k)
    <3>1. k.at = "recount" /\ SameRow(j, k) /\ k.action = j.action /\ k.rest = j.rest
      BY <1>0, <2>2 DEF JobRows, SameRow
    <3>2. QED BY <2>2, <3>1 DEF Follows
  <2>4. QED BY <1>1, <2>1, <2>3
<1>12. CASE WriteStatus(w)
  <2>1. /\ j.at = "recount"
        /\ \/ j.call = "verify" /\ Goto(w, "stamp_doc")
           \/ j.call = "close" /\ Goto(w, "find_others")
           \/ Continue(w, j)
    BY <1>12 DEF WriteStatus, At
  <2>2. CASE Continue(w, j)
    BY <1>0, <1>4, <2>1, <2>2
  <2>3. CASE j.call = "verify" /\ Goto(w, "stamp_doc")
    BY <1>3, <2>1, <2>3 DEF Follows
  <2>4. CASE j.call = "close" /\ Goto(w, "find_others")
    BY <1>3, <2>1, <2>4 DEF Follows
  <2>5. QED BY <2>1, <2>2, <2>3, <2>4
<1>13. CASE FindQueue(w)
  <2>1. PICK queue \in SUBSET DealsOn(DealListing[j.deal]) :
           job' = [job EXCEPT ![w] = [j EXCEPT !.at = "close_tx", !.rest = queue]]
    <3>1. job' = [job EXCEPT ![w] = [j EXCEPT !.at = "close_tx",
                    !.rest = {e \in DealsOn(DealListing[j.deal]) \ {j.deal} :
                                 deal[e] = "requested"}]]
      BY <1>0, <1>13 DEF FindQueue
    <3>2. {e \in DealsOn(DealListing[j.deal]) \ {j.deal} : deal[e] = "requested"}
             \in SUBSET DealsOn(DealListing[j.deal])
      OBVIOUS
    <3>3. QED BY <3>1, <3>2
  <2>2. j.at = "find_queue"
    BY <1>13 DEF FindQueue, At
  <2> DEFINE k == [j EXCEPT !.at = "close_tx", !.rest = queue]
  <2>3. k.at = "close_tx" /\ SameRow(j, k) /\ k.action = j.action /\ k.rest = queue
    BY <1>0 DEF JobRows, SameRow
  <2>4. job'[w] = k /\ \A v \in Workers \ {w} : job'[v] = job[v]
    BY <1>1, <2>1
  <2> HIDE DEF k
  <2>5. QED BY <2>1, <2>2, <2>3, <2>4 DEF Follows
<1>14. CASE CloseTx(w)
  <2>1. Return(w) \/ job' = [job EXCEPT ![w] = Recount([j EXCEPT !.rest = {}])]
    BY <1>14 DEF CloseTx
  <2> DEFINE i == [j EXCEPT !.rest = {}]
  <2>2. /\ i \in JobRows /\ i.call = j.call /\ i.lease = j.lease /\ i.deal = j.deal
        /\ i.rest = {}
    BY <1>0 DEF JobRows
  <2>3. Return(w) \/ job' = [job EXCEPT ![w] = Recount(i)]
    BY <2>1
  <2> HIDE DEF i
  <2>4. j.at = "close_tx"
    BY <1>14 DEF CloseTx, At
  <2>5. Follows(j, Recount(i))
    BY <1>5, <2>2, <2>4 DEF Follows, SameRow
  <2>6. QED BY <1>1, <1>2, <2>3, <2>5
<1>15. CASE FindOthers(w)
  <2>1. PICK others \in SUBSET Deals :
           Continue(w, [j EXCEPT !.rest = others, !.action = "withdraw"])
    BY <1>15 DEF FindOthers
  <2> DEFINE i == [j EXCEPT !.rest = others, !.action = "withdraw"]
  <2>2. "withdraw" \in {t[2] : t \in DealTransitions}
    BY ActionsAreTableActions
  <2>3. i \in JobRows /\ i.action = "withdraw" /\ i.call = j.call /\ i.lease = j.lease
    BY <1>0, <2>2, ZenonT(60) DEF JobRows
  <2>4. Continue(w, i)
    BY <2>1
  <2>5. j.at = "find_others"
    BY <1>15 DEF FindOthers, At
  <2> HIDE DEF i
  <2>6. QED BY <1>4, <2>3, <2>4, <2>5
<1>16. CASE LeaseCommit(w) \/ RenewTx(w)
  <2>1. Return(w) \/ job' = [job EXCEPT ![w] = Recount(j)]
    BY <1>16 DEF LeaseCommit, RenewTx
  <2>2. j.at \in {"lease_commit", "renew_tx"}
    BY <1>16 DEF LeaseCommit, RenewTx, At
  <2>3. Follows(j, Recount(j))
    BY <1>0, <1>5, <2>2 DEF Follows, SameRow
  <2>4. QED BY <1>1, <1>2, <2>1, <2>3
<1>17. QED
  BY <1>6, <1>7, <1>8, <1>9, <1>10, <1>11, <1>12, <1>13, <1>14, <1>15, <1>16 DEF Step

LEMMA IdleShape == ASSUME NEW w PROVE Shape(w, Idle)
BY DEF Shape, Idle

(* A job that goes on keeps its shape.                                     *)
LEMMA FollowsShape ==
  ASSUME NEW w \in Workers, NEW j, NEW k, Shape(w, j), Follows(j, k)
  PROVE  Shape(w, k)
<1>1. j.at # "idle" => j.call \in Calls
  BY DealStepsAssumption DEF Shape
<1>2. CASE k = Idle
  BY <1>2, IdleShape
<1>3. CASE /\ SameRow(j, k) /\ k.action = j.action /\ k.rest = j.rest
           /\ <<j.at, k.at>> \in {<<"find_twin", "insert_deal">>, <<"check_slot", "insert_doc">>,
                               <<"insert_doc", "read">>, <<"read", "commit">>,
                               <<"commit", "recount">>, <<"recount", "recount">>,
                               <<"check_lease", "check_scan">>, <<"check_scan", "find_queue">>}
  <2>1. j.at # "idle" /\ k.at # "close_tx"
    BY <1>3
  <2>2. k.at \in StepsOf(j.call)
    BY <1>1, <1>3, <2>1, StepsOfCalls, MoreSteps DEF Shape
  <2>3. QED BY <1>3, <2>1, <2>2 DEF Shape, SameRow
<1>4. CASE /\ SameRow(j, k) /\ k.action = j.action /\ k.rest = j.rest
           /\ j.at = "recount"
           /\ \/ k.at = "stamp_doc" /\ j.call = "verify"
              \/ k.at = "find_others" /\ j.call = "close"
  BY <1>1, <1>4, MoreSteps DEF Shape, SameRow
<1>5. CASE /\ SameRow(j, k) /\ k.action = j.action
           /\ j.at = "find_queue" /\ k.at = "close_tx"
           /\ k.rest \subseteq DealsOn(DealListing[j.deal])
  BY <1>1, <1>5, StepsOfCalls, MoreSteps DEF Shape, SameRow, Loops
<1>6. CASE /\ SameRow(j, k) /\ k.action = "none" /\ k.rest \subseteq j.rest
           /\ j.at \in {"close_tx", "lease_commit", "renew_tx"} /\ k.at = "recount"
  <2>1. k.at \in StepsOf(j.call)
    BY <1>1, <1>6, StepsOfCalls, MoreSteps DEF Shape
  <2>2. QED BY <1>6, <2>1 DEF Shape, SameRow
<1>7. CASE /\ k.call = j.call /\ k.lease = j.lease /\ k.action = "none" /\ k.rest = j.rest
           /\ j.at = "insert_deal" /\ k.at = "recount"
  BY <1>1, <1>7, MoreSteps DEF Shape
<1>8. CASE /\ k.call = j.call /\ k.lease = j.lease /\ k.action \in {j.action, "withdraw"}
           /\ k.at = "read"
           /\ \/ j.at = "find_others"
              \/ j.at = "recount" /\ j.rest # {}
  <2>1. j.call \in Loops
    BY <1>1, <1>8, StepsOfCalls DEF Shape, Loops
  <2>2. QED BY <1>1, <1>8, <2>1, MoreSteps DEF Shape
<1>9. QED BY <1>2, <1>3, <1>4, <1>5, <1>6, <1>7, <1>8 DEF Follows

LEMMA NextShapes == ASSUME IInv, Shapes, [Next]_vars PROVE Shapes'
<1>1. ASSUME NEW w \in Workers, BeginCall(w) PROVE Shapes'
  BY <1>1, BeginCallBegun DEF Shapes, Begun
<1>2. ASSUME NEW w \in Workers, Step(w) \/ Crash(w) PROVE Shapes'
  <2>1. Shape(w, job'[w])
    BY <1>2, StepFollows, FollowsShape DEF Shapes
  <2>2. QED BY <1>2, <2>1, StepFollows DEF Shapes
<1>3. CASE UNCHANGED vars
  BY <1>3 DEF vars, Shapes
<1>4. QED BY <1>1, <1>2, <1>3 DEF Next

LEMMA InitShapes == Init => Shapes
BY IdleShape DEF Init, Shapes

(* The call a worker is at one of the steps of.                            *)
LEMMA ShapeCalls ==
  ASSUME Shapes, NEW w \in Workers, job[w].at # "idle"
  PROVE  job[w].call \in Calls \cap Duties[w] /\ job[w].at \in StepsOf(job[w].call)
BY DealStepsAssumption DEF Shapes, Shape

(* The agreement's scan.  close looks at it in one step and closes the     *)
(* deal two steps later; generate looks at the deal before it writes.      *)

PaperCalls == {"generate", "close"}

OnePaperDesk ==
  \A v, w \in Workers :
     Duties[v] \cap PaperCalls # {} /\ Duties[w] \cap PaperCalls # {} => v = w

PaperKnown(j, table, paper) ==
  /\ j.at \in {"find_queue", "close_tx"} /\ j.deal \in Deals => paper[j.deal] = "signed"
  /\ j.at = "write_paper" /\ j.deal \in Deals => table[j.deal] # "closed"

Papers == ClosedDealHasScan /\ \A w \in Workers : PaperKnown(job[w], deal, agreement)

LEMMA OthersKnowNoPaper ==
  ASSUME OnePaperDesk, Shapes, NEW w \in Workers, job[w].at \in {"write_paper", "close_tx"},
         NEW v \in Workers, v # w
  PROVE  job[v].at \notin {"find_queue", "close_tx", "write_paper"}
<1>1. \A u \in Workers : job[u].at \in {"find_queue", "close_tx", "write_paper"}
                           => Duties[u] \cap PaperCalls # {}
  <2>1. ASSUME NEW u \in Workers, job[u].at \in {"find_queue", "close_tx", "write_paper"}
        PROVE  job[u].call \in Duties[u] \cap PaperCalls
    <3>1. job[u].call \in Calls \cap Duties[u] /\ job[u].at \in StepsOf(job[u].call)
      BY <2>1, ShapeCalls
    <3>2. QED BY <2>1, <3>1, StepsOfCalls DEF PaperCalls
  <2>2. QED BY <2>1
<1>2. QED BY <1>1 DEF OnePaperDesk

(* The steps that neither close a deal nor take a scan away.               *)
LEMMA PaperKept ==
  ASSUME IInv, NEW w \in Workers, Step(w) \/ Crash(w), ~ CloseTx(w), ~ WritePaper(w)
  PROVE  \A d \in Deals : /\ deal'[d] = "closed" => deal[d] = "closed"
                          /\ agreement[d] = "signed" => agreement'[d] = "signed"
<1>0. /\ deal \in [Deals -> DealStates \cup {NoDeal}]
      /\ agreement \in [Deals -> {"none", "generated", "signed"}]
  BY DEF IInv, TablesTyped
<1>1. CASE InsertDeal(w)
  <2>1. PICK d \in Deals : deal' = [deal EXCEPT ![d] = "requested"] /\ agreement' = agreement
    BY <1>1 DEF InsertDeal
  <2>2. QED BY <1>0, <2>1
<1>2. CASE Commit(w)
  <2>1. deal' = [deal EXCEPT ![job[w].deal] = job[w].to] /\ agreement' = agreement
    BY <1>2 DEF Commit
  <2>2. job[w].to # "closed"
    BY <1>2 DEF Commit, At, IInv, Jobs, JobFacts
  <2>3. QED BY <1>0, <2>1, <2>2
<1>3. CASE WriteScan(w)
  <2>1. agreement' = [agreement EXCEPT ![job[w].deal] = "signed"] /\ deal' = deal
    BY <1>3 DEF WriteScan
  <2>2. QED BY <1>0, <2>1
<1>4. CASE ~ (InsertDeal(w) \/ Commit(w) \/ WriteScan(w))
  <2>1. deal' = deal /\ agreement' = agreement
    BY <1>4 DEF Step, FindTwin, Read, CountReserving, CountLive, WriteStatus, CheckSlot,
       InsertDoc, StampDoc, CheckLease, CheckScan, FindQueue, FindOthers, LeaseCommit, RenewTx,
       Crash, db
  <2>2. QED BY <2>1
<1>5. QED BY <1>1, <1>2, <1>3, <1>4

LEMMA NextPapers == ASSUME OnePaperDesk, IInv, Shapes, Papers, [Next]_vars PROVE Papers'
<1> USE DEF PaperKnown
<1>1. ASSUME NEW w \in Workers, BeginCall(w) PROVE Papers'
  <2>1. UNCHANGED <<deal, agreement>>
    BY <1>1, BeginCallStep DEF db
  <2>2. PaperKnown(job'[w], deal', agreement') /\ \A v \in Workers \ {w} : job'[v] = job[v]
    BY <1>1, <2>1, BeginCallBegun DEF Begun
  <2>3. QED BY <2>1, <2>2 DEF Papers, ClosedDealHasScan
<1>2. ASSUME NEW w \in Workers, Step(w) \/ Crash(w) PROVE Papers'
  <2>1. Follows(job[w], job'[w]) /\ \A v \in Workers \ {w} : job'[v] = job[v]
    BY <1>2, StepFollows
  <2>2. job'[w].at # "write_paper"
    BY <2>1 DEF Follows, Idle
  <2>3. CASE WritePaper(w) \/ CloseTx(w)
    <3>1. job[w].at \in {"write_paper", "close_tx"}
      BY <2>3 DEF WritePaper, CloseTx, At
    <3>2. job'[w].at \notin {"find_queue", "close_tx"}
      BY <2>1, <3>1 DEF Follows, Idle
    <3>3. \A v \in Workers : PaperKnown(job'[v], deal', agreement')
      BY <2>1, <2>2, <3>1, <3>2, OthersKnowNoPaper
    <3>4. ASSUME NEW d \in Deals, deal'[d] = "closed" PROVE agreement'[d] = "signed"
      <4>1. CASE WritePaper(w)
        <5>1. deal' = deal /\ agreement' = [agreement EXCEPT ![job[w].deal] = "generated"]
          BY <4>1 DEF WritePaper
        <5>2. d # job[w].deal
          BY <3>4, <4>1, <5>1 DEF WritePaper, At, Papers
        <5>3. QED BY <3>4, <5>1, <5>2 DEF Papers, ClosedDealHasScan, IInv, TablesTyped
      <4>2. CASE CloseTx(w)
        <5>1. agreement' = agreement
          BY <4>2 DEF CloseTx, db
        <5>2. deal'[d] = deal[d] \/ d = job[w].deal
          BY <3>4, <4>2 DEF CloseTx, db
        <5>3. QED BY <3>4, <4>2, <5>1, <5>2 DEF Papers, ClosedDealHasScan, CloseTx, At
      <4>3. QED BY <2>3, <4>1, <4>2
    <3>5. QED BY <3>3, <3>4 DEF Papers, ClosedDealHasScan
  <2>4. CASE ~ (WritePaper(w) \/ CloseTx(w))
    <3>1. \A d \in Deals : /\ deal'[d] = "closed" => deal[d] = "closed"
                           /\ agreement[d] = "signed" => agreement'[d] = "signed"
      BY <1>2, <2>4, PaperKept
    <3>2. job'[w].at = "find_queue" => CheckScan(w) /\ job'[w].deal = job[w].deal
      <4>1. job'[w].at = "find_queue" => job[w].at = "check_scan" /\ SameRow(job[w], job'[w])
        BY <2>1 DEF Follows, Idle
      <4>2. job[w].at = "check_scan" => CheckScan(w) \/ Crash(w)
        BY <1>2 DEF Step, At, FindTwin, InsertDeal, Read, Commit, CountReserving, CountLive,
           WriteStatus, CheckSlot, InsertDoc, StampDoc, WritePaper, WriteScan, CheckLease,
           CheckScan, FindQueue, CloseTx, FindOthers, LeaseCommit, RenewTx
      <4>3. Crash(w) => job'[w].at = "idle"
        BY DEF Crash, Return, Idle, IInv, Jobs
      <4>4. QED BY <4>1, <4>2, <4>3 DEF SameRow
    <3>3. CheckScan(w) /\ job'[w].at = "find_queue" => agreement[job[w].deal] = "signed"
      BY DEF CheckScan, Require, Return, Idle, IInv, Jobs
    <3>4. job'[w].at = "close_tx" => job[w].at = "find_queue" /\ job'[w].deal = job[w].deal
      BY <2>1 DEF Follows, Idle, SameRow
    <3>5. PaperKnown(job'[w], deal', agreement')
      BY <2>2, <3>1, <3>2, <3>3, <3>4 DEF Papers
    <3>6. \A v \in Workers : PaperKnown(job'[v], deal', agreement')
      BY <2>1, <3>1, <3>5 DEF Papers
    <3>7. QED BY <3>1, <3>6 DEF Papers, ClosedDealHasScan
  <2>5. QED BY <2>3, <2>4
<1>3. CASE UNCHANGED vars
  BY <1>3 DEF vars, db, Papers, ClosedDealHasScan
<1>4. QED BY <1>1, <1>2, <1>3 DEF Next

(* With one worker for generate and close, no deal closes without its scan *)
(* (deal-state.service.ts:411), whatever else overlaps and crashes: the    *)
(* promise is broken by a new paper between the check and the close only.  *)
THEOREM ClosedDealsHaveScans ==
  ASSUME OnePaperDesk PROVE Spec => []ClosedDealHasScan
<1>1. Init => Papers
  BY DEF Init, Papers, ClosedDealHasScan, PaperKnown, NoDeal, Idle
<1>2. IInv /\ Shapes /\ Papers /\ [Next]_vars => Papers'
  BY NextPapers
<1>3. IInv /\ Shapes /\ [Next]_vars => Shapes'
  BY NextShapes
<1>4. Papers => ClosedDealHasScan
  BY DEF Papers
<1>5. QED BY <1>1, <1>2, <1>3, <1>4, InitIInv, NextIInv, InitShapes, PTL DEF Spec

(* The table of transitions.  transition() reads a deal in one step and    *)
(* writes it in the next; close and its queue are read steps before.       *)

DealCalls == Calls \ ({"request", "generate", "sign"} \cup OnLeases)

OneDealDesk ==
  \A v, w \in Workers :
     Duties[v] \cap DealCalls # {} /\ Duties[w] \cap DealCalls # {} => v = w

DealReads == {"commit", "check_lease", "check_scan", "find_queue", "close_tx"}

DealKnown(j, table) ==
  /\ j.at = "commit" /\ j.deal \in Deals => j.to \in Targets(table[j.deal], j.action)
  /\ j.at \in {"check_lease", "check_scan", "find_queue", "close_tx"} /\ j.deal \in Deals
       => table[j.deal] = "approved"
  /\ j.at = "close_tx" => \A e \in j.rest : table[e] = "requested"

DealsKnown == \A w \in Workers : DealKnown(job[w], deal)

(* Every change of a deal's state is a row of the table.                   *)
TableMove ==
  \A d \in Deals :
     deal'[d] # deal[d] => \E action : <<deal[d], action, deal'[d]>> \in DealTransitions

(* All a step can do to the deals without having read them before.         *)
Inserts ==
  \A d \in Deals : deal'[d] = deal[d] \/ (deal[d] = NoDeal /\ deal'[d] = "requested")

LEMMA DealStepsAreDuties ==
  ASSUME Shapes, NEW w \in Workers, job[w].at \in DealReads
  PROVE  Duties[w] \cap DealCalls # {}
<1>1. job[w].call \in Calls \cap Duties[w] /\ job[w].at \in StepsOf(job[w].call)
  BY ShapeCalls DEF DealReads
<1>2. job[w].call \in DealCalls
  BY <1>1, StepsOfCalls DEF DealReads, DealCalls, OnLeases
<1>3. QED BY <1>1, <1>2

LEMMA OnlyInserts ==
  ASSUME IInv, NEW w \in Workers, Step(w) \/ Crash(w), ~ Commit(w), ~ CloseTx(w)
  PROVE  Inserts
<1>1. CASE InsertDeal(w)
  <2>1. PICK d \in Deals : deal[d] = NoDeal /\ deal' = [deal EXCEPT ![d] = "requested"]
    BY <1>1 DEF InsertDeal
  <2>2. QED BY <2>1 DEF Inserts, IInv, TablesTyped
<1>2. CASE ~ InsertDeal(w)
  BY <1>2 DEF Step, FindTwin, Read, CountReserving, CountLive, WriteStatus, CheckSlot,
     InsertDoc, StampDoc, WritePaper, WriteScan, CheckLease, CheckScan, FindQueue, FindOthers,
     LeaseCommit, RenewTx, Crash, db, Inserts
<1>3. QED BY <1>1, <1>2

(* A new deal is not one that any call has read in a state of the table.   *)
LEMMA InsertsKeepKnown ==
  ASSUME IInv, Inserts, NEW w \in Workers, NEW j \in JobRows, Shape(w, j), DealKnown(j, deal)
  PROVE  DealKnown(j, deal')
<1>1. ASSUME j.at = "commit", j.deal \in Deals PROVE j.to \in Targets(deal'[j.deal], j.action)
  <2>1. j.to \in Targets(deal[j.deal], j.action) /\ j.action # "request"
    BY <1>1 DEF DealKnown, Shape
  <2>2. Targets(NoDeal, j.action) = {}
    BY <2>1 DEF Targets, DealTransitions, DealOpenStates, NoDeal
  <2>3. QED BY <1>1, <2>1, <2>2 DEF Inserts
<1>2. ASSUME NEW e \in Deals, deal[e] \in {"approved", "requested"} PROVE deal'[e] = deal[e]
  BY <1>2 DEF Inserts, NoDeal
<1>3. j.rest \subseteq Deals
  BY DEF JobRows
<1>4. QED BY <1>1, <1>2, <1>3 DEF DealKnown

LEMMA StepIsAt ==
  ASSUME IInv, NEW w \in Workers, Step(w) \/ Crash(w), job'[w].at # "idle"
  PROVE  /\ At(w, "read") => Read(w)
         /\ At(w, "find_queue") => FindQueue(w)
<1>1. ~ Crash(w)
  BY DEF Crash, Return, Idle, IInv, Jobs
<1>2. QED
  BY <1>1 DEF Step, At, FindTwin, InsertDeal, Read, Commit, CountReserving, CountLive,
     WriteStatus, CheckSlot, InsertDoc, StampDoc, WritePaper, WriteScan, CheckLease,
     CheckScan, FindQueue, CloseTx, FindOthers, LeaseCommit, RenewTx

LEMMA StepKnowsDeal ==
  ASSUME IInv, Shapes, NEW w \in Workers, Step(w) \/ Crash(w), DealKnown(job[w], deal),
         IInv', Shape(w, job'[w])
  PROVE  DealKnown(job'[w], deal')
<1>0. Follows(job[w], job'[w]) /\ job \in [Workers -> JobRows] /\ job[w] \in JobRows
  BY StepFollows DEF IInv, Jobs
<1>1. CASE job'[w].at \notin DealReads
  BY <1>1 DEF DealKnown, DealReads
<1>2. CASE job'[w].at = "commit"
  <2>1. Read(w) /\ SameRow(job[w], job'[w]) /\ job'[w].action = job[w].action
    BY <1>0, <1>2, StepIsAt DEF Follows, Idle, At
  <2>2. ~ Return(w)
    BY <1>0, <1>2 DEF Return, Idle
  <2>3. PICK to \in Targets(deal[job[w].deal], job[w].action) :
           job' = [job EXCEPT ![w] = [job[w] EXCEPT !.at = "commit", !.to = to]]
    BY <1>0, <2>1, <2>2 DEF Read
  <2>4. job'[w].to = to
    BY <1>0, <2>3 DEF JobRows
  <2>5. deal' = deal
    BY <2>1 DEF Read, db
  <2>6. QED BY <1>2, <2>1, <2>3, <2>4, <2>5 DEF DealKnown, SameRow
<1>3. CASE job'[w].at \in {"check_scan", "find_queue"}
  <2>1. /\ SameRow(job[w], job'[w]) /\ job[w].at \in {"check_lease", "check_scan"}
    BY <1>0, <1>3 DEF Follows, Idle
  <2>2. deal' = deal
    BY <2>1 DEF Step, At, FindTwin, InsertDeal, Read, Commit, CountReserving, CountLive,
       WriteStatus, CheckSlot, InsertDoc, StampDoc, WritePaper, WriteScan, CheckLease,
       CheckScan, FindQueue, CloseTx, FindOthers, LeaseCommit, RenewTx, Crash, db
  <2>3. QED BY <1>3, <2>1, <2>2 DEF DealKnown, SameRow
<1>4. CASE job'[w].at = "close_tx"
  <2>1. FindQueue(w) /\ SameRow(job[w], job'[w]) /\ job[w].at = "find_queue"
    BY <1>0, <1>4, StepIsAt DEF Follows, Idle, At
  <2>2. deal' = deal
    BY <2>1 DEF FindQueue, db
  <2>3. job' = [job EXCEPT ![w] = [job[w] EXCEPT !.at = "close_tx",
                  !.rest = {e \in DealsOn(DealListing[job[w].deal]) \ {job[w].deal} :
                               deal[e] = "requested"}]]
    BY <1>0, <2>1 DEF FindQueue
  <2>4. job'[w].rest = {e \in DealsOn(DealListing[job[w].deal]) \ {job[w].deal} :
                           deal[e] = "requested"}
    BY <1>0, <2>3 DEF JobRows
  <2>5. QED BY <1>4, <2>1, <2>2, <2>4 DEF DealKnown, SameRow
<1>5. job'[w].at # "check_lease"
  BY <1>0 DEF Follows, Idle
<1>6. QED BY <1>1, <1>2, <1>3, <1>4, <1>5 DEF DealReads

LEMMA StepIsTableMove ==
  ASSUME IInv, DealsKnown, NEW w \in Workers, Step(w) \/ Crash(w)
  PROVE  TableMove
<1>0. deal \in [Deals -> DealStates \cup {NoDeal}] /\ job[w] \in JobRows
      /\ DealKnown(job[w], deal)
  BY DEF IInv, TablesTyped, Jobs, DealsKnown
<1>1. CASE Commit(w)
  <2>1. /\ deal' = [deal EXCEPT ![job[w].deal] = job[w].to] /\ job[w].at = "commit"
    BY <1>1 DEF Commit, At
  <2>2. ASSUME NEW d \in Deals, deal'[d] # deal[d]
        PROVE  <<deal[d], job[w].action, deal'[d]>> \in DealTransitions
    <3>1. d = job[w].deal /\ deal'[d] = job[w].to
      BY <1>0, <2>1, <2>2
    <3>2. job[w].to \in Targets(deal[d], job[w].action)
      BY <1>0, <2>1, <3>1 DEF DealKnown
    <3>3. QED BY <3>1, <3>2 DEF Targets
  <2>3. QED BY <2>2 DEF TableMove
<1>2. CASE CloseTx(w)
  <2>1. CASE deal' = deal
    BY <2>1 DEF TableMove
  <2>2. CASE deal' # deal
    <3>1. /\ job[w].at = "close_tx"
          /\ deal' = [d \in Deals |-> IF d = job[w].deal THEN "closed"
                                      ELSE IF d \in job[w].rest THEN "expired"
                                      ELSE deal[d]]
      BY <1>2, <2>2 DEF CloseTx, At, db
    <3>2. ASSUME NEW d \in Deals, deal'[d] # deal[d]
          PROVE  \/ <<deal[d], "close", deal'[d]>> \in DealTransitions
                 \/ <<deal[d], "expire", deal'[d]>> \in DealTransitions
      <4>1. CASE d = job[w].deal
        BY <1>0, <3>1, <4>1 DEF DealKnown, DealTransitions
      <4>2. CASE d # job[w].deal
        <5>1. d \in job[w].rest /\ deal'[d] = "expired"
          BY <3>1, <3>2, <4>2
        <5>2. deal[d] = "requested"
          BY <1>0, <3>1, <5>1 DEF DealKnown
        <5>3. QED BY <5>1, <5>2 DEF DealTransitions
      <4>3. QED BY <4>1, <4>2
    <3>3. QED BY <3>2 DEF TableMove
  <2>3. QED BY <2>1, <2>2
<1>3. CASE ~ Commit(w) /\ ~ CloseTx(w)
  <2>1. Inserts
    BY <1>3, OnlyInserts
  <2>2. <<NoDeal, "request", "requested">> \in DealTransitions
    BY DEF DealTransitions
  <2>3. QED BY <2>1, <2>2 DEF Inserts, TableMove
<1>4. QED BY <1>1, <1>2, <1>3

LEMMA NextDealsKnown ==
  ASSUME OneDealDesk, IInv, IInv', Shapes, Shapes', DealsKnown, [Next]_vars
  PROVE  DealsKnown' /\ TableMove
<1>1. ASSUME NEW w \in Workers, BeginCall(w) PROVE DealsKnown' /\ TableMove
  <2>1. deal' = deal
    BY <1>1, BeginCallStep DEF db
  <2>2. DealKnown(job'[w], deal) /\ \A v \in Workers \ {w} : job'[v] = job[v]
    BY <1>1, BeginCallBegun DEF Begun, DealKnown
  <2>3. QED BY <2>1, <2>2 DEF DealsKnown, TableMove
<1>2. ASSUME NEW w \in Workers, Step(w) \/ Crash(w) PROVE DealsKnown' /\ TableMove
  <2>1. \A v \in Workers \ {w} : job'[v] = job[v]
    BY <1>2, StepFollows
  <2>2. DealKnown(job'[w], deal')
    BY <1>2, StepKnowsDeal DEF Shapes, DealsKnown
  <2>3. ASSUME NEW v \in Workers, v # w PROVE DealKnown(job[v], deal')
    <3>1. CASE Commit(w) \/ CloseTx(w)
      <4>1. job[w].at \in DealReads
        BY <3>1 DEF Commit, CloseTx, At, DealReads
      <4>2. job[v].at \notin DealReads
        BY <2>3, <4>1, DealStepsAreDuties DEF OneDealDesk
      <4>3. QED BY <4>2 DEF DealKnown, DealReads
    <3>2. CASE ~ Commit(w) /\ ~ CloseTx(w)
      <4>1. job[v] \in JobRows /\ Shape(v, job[v]) /\ DealKnown(job[v], deal)
        BY DEF IInv, Jobs, Shapes, DealsKnown
      <4>2. QED BY <1>2, <3>2, <4>1, OnlyInserts, InsertsKeepKnown
    <3>3. QED BY <3>1, <3>2
  <2>4. DealsKnown'
    BY <2>1, <2>2, <2>3 DEF DealsKnown
  <2>5. QED BY <1>2, <2>4, StepIsTableMove
<1>3. CASE UNCHANGED vars
  BY <1>3 DEF vars, db, DealsKnown, TableMove
<1>4. QED BY <1>1, <1>2, <1>3 DEF Next

LEMMA InitDealsKnown == Init => DealsKnown
BY DEF Init, DealsKnown, DealKnown, Idle

LEMMA TableKeepsDecided ==
  ASSUME TableMove, NEW d \in Deals, deal[d] \in DealTerminalStates, deal'[d] # deal[d]
  PROVE  deal[d] = "docs_rejected" /\ deal'[d] = "docs_in_review"
<1>1. PICK action : <<deal[d], action, deal'[d]>> \in DealTransitions
  BY DEF TableMove
<1>2. QED
  BY <1>1 DEF DealTransitions, DealTerminalStates, DealStates, DealOpenStates, NoDeal

(* With one worker for the calls that move a deal (deal-state.service.ts:  *)
(* 108, 447), whatever requests, papers and leases overlap with them and   *)
(* whichever of them crash, a deal moves only as the table says.           *)
THEOREM DealsMoveByTheTable == ASSUME OneDealDesk PROVE Spec => [][TableMove]_vars
<1>1. IInv /\ IInv' /\ Shapes /\ Shapes' /\ DealsKnown /\ [Next]_vars => DealsKnown' /\ TableMove
  BY NextDealsKnown
<1>2. IInv /\ Shapes /\ [Next]_vars => Shapes'
  BY NextShapes
<1>3. QED BY <1>1, <1>2, InitIInv, NextIInv, InitShapes, InitDealsKnown, PTL DEF Spec

(* Then a decision stands (SPEC.md:99): it is the write by id of what an   *)
(* earlier step read that takes a deal out of a terminal state.            *)
THEOREM DecisionsStand == ASSUME OneDealDesk PROVE Spec => DecidedStaysDecided
<1>1. [TableMove]_vars =>
        [\A d \in Deals : deal[d] \in DealTerminalStates /\ deal'[d] # deal[d]
           => deal[d] = "docs_rejected" /\ deal'[d] = "docs_in_review"]_vars
  BY TableKeepsDecided
<1>2. QED BY <1>1, DealsMoveByTheTable, PTL DEF DecidedStaysDecided

(* The derived status.  Every write to a deal or a lease is followed by a  *)
(* recompute of the home's status, by counts that are steps of their own.  *)

CountCalls == Calls \ {"generate", "sign"}

OneCountDesk ==
  \A v, w \in Workers :
     Duties[v] \cap CountCalls # {} /\ Duties[w] \cap CountCalls # {} => v = w

Taken(h, table) == \E d \in Deals : DealListing[d] = h /\ table[d] \in DealReservingStates
Leased(h, rows) == \E l \in Leases : LeaseListing[l] = h /\ rows[l].status \in LeaseLiveStatuses

Fresh(h, s, table, rows) == s[h] = DeriveListingStatus(Leased(h, rows), Taken(h, table))

Counting(j, h) == j.at = "recount" /\ Home(j) = h

(* A count that is known is still what it counted.                         *)
CountKnown(j, table, rows) ==
  j.at = "recount" =>
    /\ j.reserving # "unknown" => (j.reserving = "some" <=> Taken(Home(j), table))
    /\ j.live # "unknown" => (j.live = "some" <=> Leased(Home(j), rows))

(* A home's status is stale only while the call that made it so recomputes *)
(* it.                                                                     *)
StaleIsBeingCounted ==
  /\ \A h \in Listings :
        Fresh(h, status, deal, lease) \/ \E w \in Workers : Counting(job[w], h)
  /\ \A w \in Workers : CountKnown(job[w], deal, lease)

LEMMA CountsAreTaken ==
  \A h : (Reserving(h) # {} <=> Taken(h, deal)) /\ (Live(h) # {} <=> Leased(h, lease))
BY DEF Reserving, DealsOn, Live, Taken, Leased

WriteSteps == {"insert_deal", "commit", "close_tx", "lease_commit", "renew_tx"}

LEMMA OthersDoNotCount ==
  ASSUME OneCountDesk, Shapes, NEW w \in Workers, job[w].at \in WriteSteps \cup {"recount"},
         NEW v \in Workers, v # w
  PROVE  job[v].at # "recount"
<1>1. ASSUME NEW u \in Workers, job[u].at \in WriteSteps \cup {"recount"}
      PROVE  Duties[u] \cap CountCalls # {}
  <2>1. job[u].call \in Calls \cap Duties[u] /\ job[u].at \in StepsOf(job[u].call)
    BY <1>1, ShapeCalls DEF WriteSteps
  <2>2. job[u].call \in CountCalls
    BY <1>1, <2>1, StepsOfCalls DEF WriteSteps, CountCalls
  <2>3. QED BY <2>1, <2>2
<1>2. QED BY <1>1 DEF OneCountDesk

LEMMA RecountBlank ==
  ASSUME NEW j \in JobRows
  PROVE  /\ Recount(j).reserving = "unknown" /\ Recount(j).live = "unknown"
         /\ Recount(j).deal = j.deal /\ Recount(j).lease = j.lease
         /\ Home(Recount(j)) = Home(j)
BY DEF Recount, JobRows, Home

(* A write is about the home that is recomputed next, and about no other.  *)
LEMMA WritesOneHome ==
  ASSUME IInv, Shapes, NEW w \in Workers,
         InsertDeal(w) \/ Commit(w) \/ CloseTx(w) \/ LeaseCommit(w) \/ RenewTx(w)
  PROVE  /\ status' = status
         /\ job'[w].at = "recount" => job'[w].reserving = "unknown" /\ job'[w].live = "unknown"
         /\ \A h \in Listings :
               \/ /\ Taken(h, deal') <=> Taken(h, deal)
                  /\ Leased(h, lease') <=> Leased(h, lease)
               \/ Counting(job'[w], h)
<1> SUFFICES ASSUME NEW j, j = job[w]
             PROVE  /\ status' = status
                    /\ job'[w].at = "recount" =>
                         job'[w].reserving = "unknown" /\ job'[w].live = "unknown"
                    /\ \A h \in Listings :
                          \/ /\ Taken(h, deal') <=> Taken(h, deal)
                             /\ Leased(h, lease') <=> Leased(h, lease)
                          \/ Counting(job'[w], h)
  OBVIOUS
<1>0. /\ job \in [Workers -> JobRows] /\ j \in JobRows /\ Shape(w, j)
      /\ deal \in [Deals -> DealStates \cup {NoDeal}]
      /\ lease \in [Leases -> [status : LeaseStatuses \cup {"none"},
                               deal : Deals \cup {NoRow},
                               renewedFrom : Leases \cup {NoRow}]]
  BY DEF IInv, TablesTyped, Jobs, Shapes
<1>1. ASSUME j.at \in {"insert_deal", "commit", "close_tx"} PROVE j.lease = NoRow
  <2>1. j.call \in Calls /\ j.at \in StepsOf(j.call)
    BY <1>0, <1>1, ShapeCalls
  <2>2. j.call \notin OnLeases
    BY <1>1, <2>1, StepsOfCalls DEF OnLeases
  <2>3. QED BY <1>0, <2>2 DEF Shape
<1>2. ASSUME NEW d \in Deals, NEW state, deal' = [deal EXCEPT ![d] = state], lease' = lease,
             NEW h \in Listings, h # DealListing[d]
      PROVE  /\ Taken(h, deal') <=> Taken(h, deal)
             /\ Leased(h, lease') <=> Leased(h, lease)
  BY <1>0, <1>2 DEF Taken
<1>3. CASE InsertDeal(w)
  <2>1. PICK d \in Deals : /\ deal' = [deal EXCEPT ![d] = "requested"]
                           /\ job' = [job EXCEPT ![w] = Recount([j EXCEPT !.deal = d])]
    BY <1>0, <1>3 DEF InsertDeal
  <2> DEFINE i == [j EXCEPT !.deal = d]
  <2>2. i \in JobRows /\ i.deal = d /\ i.lease = NoRow
    BY <1>0, <1>1, <1>3 DEF JobRows, InsertDeal, At
  <2>3. job'[w] = Recount(i)
    BY <1>0, <2>1
  <2> HIDE DEF i
  <2>4. Home(Recount(i)) = DealListing[d] /\ Recount(i).at = "recount"
    BY <2>2, RecountBlank, RecountFacts DEF Home
  <2>5. lease' = lease /\ status' = status
    BY <1>3 DEF InsertDeal
  <2>6. QED BY <1>2, <2>1, <2>2, <2>3, <2>4, <2>5, RecountBlank DEF Counting
<1>4. CASE Commit(w)
  <2> DEFINE r == Recount(j)
             k == [r EXCEPT !.action = j.action]
  <2>1. r \in JobRows /\ r.at = "recount" /\ r.deal = j.deal /\ r.lease = j.lease
        /\ r.reserving = "unknown" /\ r.live = "unknown"
    BY <1>0, RecountBlank, RecountFacts
  <2>2. job'[w] = k
    BY <1>0, <1>4 DEF Commit
  <2> HIDE DEF r
  <2>3. k.at = "recount" /\ k.deal = j.deal /\ k.lease = j.lease
        /\ k.reserving = "unknown" /\ k.live = "unknown"
    BY <2>1 DEF JobRows
  <2> HIDE DEF k
  <2>4. Home(k) = DealListing[j.deal]
    BY <1>1, <1>4, <2>3 DEF Home, Commit, At
  <2>5. deal' = [deal EXCEPT ![j.deal] = j.to] /\ lease' = lease /\ status' = status
    BY <1>4 DEF Commit
  <2>6. CASE j.deal \in Deals
    BY <1>2, <2>2, <2>3, <2>4, <2>5, <2>6 DEF Counting
  <2>7. CASE j.deal \notin Deals
    <3>1. deal' = deal
      BY <1>0, <2>5, <2>7
    <3>2. QED BY <2>2, <2>3, <2>5, <3>1
  <2>8. QED BY <2>6, <2>7
<1>5. CASE CloseTx(w) /\ UNCHANGED db
  <2>1. job'[w].at # "recount"
    BY <1>0, <1>5 DEF CloseTx, db, Return, Idle, At, IInv, TablesTyped
  <2>2. QED BY <1>5, <2>1 DEF db
<1>6. CASE CloseTx(w) /\ ~ UNCHANGED db
  <2>1. PICK l \in Leases :
           /\ LeaseListing[l] = DealListing[j.deal]
           /\ lease' = [lease EXCEPT ![l] =
                [status |-> "active", deal |-> j.deal, renewedFrom |-> NoRow]]
    BY <1>6 DEF CloseTx
  <2>2. /\ deal' = [d \in Deals |-> IF d = j.deal THEN "closed"
                                    ELSE IF d \in j.rest THEN "expired" ELSE deal[d]]
        /\ job' = [job EXCEPT ![w] = Recount([j EXCEPT !.rest = {}])]
        /\ status' = status /\ j.at = "close_tx"
    BY <1>6 DEF CloseTx, At
  <2> DEFINE i == [j EXCEPT !.rest = {}]
  <2>3. i \in JobRows /\ i.deal = j.deal /\ i.lease = NoRow
    BY <1>0, <1>1, <2>2 DEF JobRows
  <2>4. job'[w] = Recount(i)
    BY <1>0, <2>2
  <2> HIDE DEF i
  <2>5. Home(Recount(i)) = DealListing[j.deal] /\ Recount(i).at = "recount"
    BY <2>3, RecountBlank, RecountFacts DEF Home
  <2>6. ASSUME NEW h \in Listings, h # DealListing[j.deal]
        PROVE  /\ Taken(h, deal') <=> Taken(h, deal)
               /\ Leased(h, lease') <=> Leased(h, lease)
    <3>1. \A d \in Deals : DealListing[d] = h => deal'[d] = deal[d]
      BY <1>0, <2>2, <2>6 DEF Shape, DealsOn
    <3>2. \A k \in Leases : LeaseListing[k] = h => lease'[k] = lease[k]
      BY <1>0, <2>1, <2>6
    <3>3. QED BY <3>1, <3>2 DEF Taken, Leased
  <2>7. QED BY <2>2, <2>3, <2>4, <2>5, <2>6, RecountBlank DEF Counting
<1>7. CASE LeaseCommit(w) \/ RenewTx(w)
  <2>1. j.lease \in Leases
    BY <1>7 DEF LeaseCommit, RenewTx, At, IInv, Jobs, JobFacts
  <2>2. Home(Recount(j)) = LeaseListing[j.lease] /\ Recount(j).at = "recount"
    BY <1>0, <2>1, RecountBlank, RecountFacts, DealStepsAssumption DEF Home
  <2>3. CASE LeaseCommit(w)
    <3>1. /\ lease' = [lease EXCEPT ![j.lease] = [lease[j.lease] EXCEPT !.status = j.to]]
          /\ deal' = deal /\ status' = status /\ job'[w] = Recount(j)
      BY <1>0, <2>1, <2>3 DEF LeaseCommit
    <3>2. \A k \in Leases \ {j.lease} : lease'[k] = lease[k]
      BY <1>0, <3>1
    <3>3. QED BY <1>0, <2>2, <3>1, <3>2, RecountBlank DEF Counting, Leased
  <2>4. CASE RenewTx(w) /\ UNCHANGED db
    BY <1>0, <2>4, RecountBlank DEF RenewTx, db, Return, Idle
  <2>5. CASE RenewTx(w) /\ ~ UNCHANGED db
    <3>1. PICK new \in Leases :
             /\ LeaseListing[new] = LeaseListing[j.lease]
             /\ lease' = [lease EXCEPT ![j.lease].status = "renewed", ![new] = Renewal(j.lease)]
      BY <2>5 DEF RenewTx
    <3>2. deal' = deal /\ status' = status /\ job'[w] = Recount(j)
      BY <1>0, <2>5 DEF RenewTx
    <3>3. \A k \in Leases \ {j.lease, new} : lease'[k] = lease[k]
      BY <1>0, <3>1
    <3>4. QED BY <1>0, <2>2, <3>1, <3>2, <3>3, RecountBlank DEF Counting, Leased
  <2>6. QED BY <1>7, <2>3, <2>4, <2>5
<1>8. QED BY <1>3, <1>4, <1>5, <1>6, <1>7

LEMMA NextCounts ==
  ASSUME OneCountDesk, ~ MayCrash, IInv, IInv', Shapes, StaleIsBeingCounted, [Next]_vars
  PROVE  StaleIsBeingCounted'
<1>0. /\ job \in [Workers -> JobRows] /\ status \in [Listings -> ListingStatuses]
      /\ \A h \in Listings : Fresh(h, status, deal, lease) \/ \E w \in Workers : Counting(job[w], h)
      /\ \A w \in Workers : job[w] \in JobRows /\ CountKnown(job[w], deal, lease)
  BY DEF IInv, TablesTyped, Jobs, StaleIsBeingCounted
<1>1. ASSUME NEW w \in Workers, BeginCall(w) PROVE StaleIsBeingCounted'
  <2>1. UNCHANGED <<deal, lease, status>> /\ job[w].at = "idle"
    BY <1>1, BeginCallStep DEF db, BeginCall, BeginRequest, BeginSelect, BeginUpload, BeginPlain,
       BeginVerify, BeginGenerate, BeginSign, BeginClose, BeginExpiry, BeginLease, BeginRenew,
       Begin, At
  <2>2. job'[w].at # "recount" /\ \A v \in Workers \ {w} : job'[v] = job[v]
    BY <1>1, BeginCallBegun DEF Begun
  <2>3. \A v \in Workers : CountKnown(job'[v], deal', lease')
    BY <1>0, <2>1, <2>2 DEF CountKnown
  <2>4. ASSUME NEW h \in Listings, NEW v \in Workers, Counting(job[v], h)
        PROVE  Counting(job'[v], h)
    BY <2>1, <2>2, <2>4 DEF Counting
  <2>5. QED BY <1>0, <2>1, <2>3, <2>4 DEF StaleIsBeingCounted
<1>2. ASSUME NEW w \in Workers, Step(w) \/ Crash(w) PROVE StaleIsBeingCounted'
  <2>0. Step(w) /\ Follows(job[w], job'[w]) /\ \A v \in Workers \ {w} : job'[v] = job[v]
    BY <1>2, StepFollows DEF Crash
  <2>1. CASE InsertDeal(w) \/ Commit(w) \/ CloseTx(w) \/ LeaseCommit(w) \/ RenewTx(w)
    <3>1. job[w].at \in WriteSteps /\ job[w].at # "recount"
      BY <2>1 DEF InsertDeal, Commit, CloseTx, LeaseCommit, RenewTx, At, WriteSteps
    <3>2. \A v \in Workers : job[v].at # "recount"
      BY <3>1, OthersDoNotCount
    <3>3. \A h \in Listings : Fresh(h, status, deal, lease)
      BY <1>0, <3>2 DEF Counting
    <3>4. /\ status' = status
          /\ job'[w].at = "recount" => job'[w].reserving = "unknown" /\ job'[w].live = "unknown"
          /\ \A h \in Listings :
                \/ /\ Taken(h, deal') <=> Taken(h, deal)
                   /\ Leased(h, lease') <=> Leased(h, lease)
                \/ Counting(job'[w], h)
      BY <2>1, WritesOneHome
    <3>5. \A v \in Workers : CountKnown(job'[v], deal', lease')
      BY <2>0, <3>2, <3>4 DEF CountKnown
    <3>6. \A h \in Listings : Fresh(h, status', deal', lease') \/ Counting(job'[w], h)
      BY <3>3, <3>4 DEF Fresh, DeriveListingStatus
    <3>7. QED BY <3>5, <3>6 DEF StaleIsBeingCounted
  <2>2. CASE CountReserving(w) \/ CountLive(w)
    <3>1. UNCHANGED <<deal, lease, status>> /\ job[w].at = "recount"
      BY <2>2 DEF CountReserving, CountLive, db, At
    <3>2. job'[w] \in JobRows
      BY DEF IInv, Jobs
    <3>3. /\ job'[w].at = "recount" /\ job'[w].deal = job[w].deal /\ job'[w].lease = job[w].lease
          /\ \/ /\ job'[w].reserving = (IF Reserving(Home(job[w])) # {} THEN "some" ELSE "none")
                /\ job'[w].live = job[w].live
             \/ /\ job'[w].live = (IF Live(Home(job[w])) # {} THEN "some" ELSE "none")
                /\ job'[w].reserving = job[w].reserving
      <4>1. PICK k \in {[job[w] EXCEPT !.reserving =
                           IF Reserving(Home(job[w])) # {} THEN "some" ELSE "none"],
                        [job[w] EXCEPT !.live =
                           IF Live(Home(job[w])) # {} THEN "some" ELSE "none"]} : job'[w] = k
        BY <1>0, <2>2 DEF CountReserving, CountLive
      <4>2. QED BY <1>0, <3>1, <4>1 DEF JobRows
    <3>4. Home(job'[w]) = Home(job[w])
      BY <3>3 DEF Home
    <3>5. CountKnown(job'[w], deal', lease')
      BY <1>0, <3>1, <3>3, <3>4, CountsAreTaken DEF CountKnown
    <3>6. \A v \in Workers : CountKnown(job'[v], deal', lease')
      BY <1>0, <2>0, <3>1, <3>5
    <3>7. \A v \in Workers, h \in Listings : Counting(job[v], h) => Counting(job'[v], h)
      BY <2>0, <3>3, <3>4 DEF Counting
    <3>8. QED BY <1>0, <3>1, <3>6, <3>7 DEF StaleIsBeingCounted
  <2>3. CASE WriteStatus(w)
    <3>1. /\ job[w].at = "recount" /\ job[w].reserving # "unknown" /\ job[w].live # "unknown"
          /\ status' = [status EXCEPT ![Home(job[w])] =
                          DeriveListingStatus(job[w].live = "some", job[w].reserving = "some")]
          /\ deal' = deal /\ lease' = lease
      BY <2>3 DEF WriteStatus, At
    <3>2. /\ job[w].reserving = "some" <=> Taken(Home(job[w]), deal)
          /\ job[w].live = "some" <=> Leased(Home(job[w]), lease)
      BY <1>0, <3>1 DEF CountKnown
    <3>3. \A v \in Workers \ {w} : job[v].at # "recount"
      BY <3>1, OthersDoNotCount
    <3>4. ASSUME NEW h \in Listings PROVE Fresh(h, status', deal', lease')
      <4>1. CASE h = Home(job[w])
        BY <1>0, <3>1, <3>2, <4>1 DEF Fresh, DeriveListingStatus
      <4>2. CASE h # Home(job[w])
        <5>1. Fresh(h, status, deal, lease)
          BY <1>0, <3>3, <4>2 DEF Counting
        <5>2. status'[h] = status[h]
          BY <1>0, <3>1, <4>2
        <5>3. QED BY <3>1, <5>1, <5>2 DEF Fresh
      <4>3. QED BY <4>1, <4>2
    <3>5. job'[w].at # "recount"
      <4>1. ASSUME Continue(w, job[w]) PROVE job'[w].at # "recount"
        <5>1. PICK k \in Visits(job[w]) : job' = [job EXCEPT ![w] = k]
          BY <4>1 DEF Continue
        <5>2. CASE k = Idle
          BY <1>0, <5>1, <5>2, IdleRow
        <5>3. CASE k # Idle
          <6>1. PICK e \in job[w].rest :
                   k = [job[w] EXCEPT !.at = "read", !.deal = e, !.rest = @ \ {e}]
            BY <5>1, <5>3 DEF Visits
          <6>2. k.at = "read"
            BY <1>0, <6>1 DEF JobRows
          <6>3. QED BY <1>0, <5>1, <6>2
        <5>4. QED BY <5>2, <5>3
      <4>2. ASSUME NEW step \in {"stamp_doc", "find_others"}, Goto(w, step)
            PROVE  job'[w].at # "recount"
        BY <1>0, <4>2 DEF Goto, JobRows
      <4>3. QED BY <2>3, <4>1, <4>2 DEF WriteStatus
    <3>6. \A v \in Workers : CountKnown(job'[v], deal', lease')
      BY <2>0, <3>3, <3>5 DEF CountKnown
    <3>7. QED BY <3>4, <3>6 DEF StaleIsBeingCounted
  <2>4. CASE ~ (\/ InsertDeal(w) \/ Commit(w) \/ CloseTx(w) \/ LeaseCommit(w) \/ RenewTx(w)
                \/ CountReserving(w) \/ CountLive(w) \/ WriteStatus(w))
    <3>1. /\ UNCHANGED <<deal, lease, status>>
          /\ job[w].at \notin WriteSteps \cup {"recount"}
      BY <2>0, <2>4 DEF Step, FindTwin, Read, CheckSlot, InsertDoc, StampDoc, WritePaper,
         WriteScan, CheckLease, CheckScan, FindQueue, FindOthers, At, db, WriteSteps
    <3>2. job'[w].at # "recount"
      BY <2>0, <3>1 DEF Follows, Idle, WriteSteps
    <3>3. \A v \in Workers : CountKnown(job'[v], deal', lease')
      BY <1>0, <2>0, <3>1, <3>2 DEF CountKnown
    <3>4. \A v \in Workers, h \in Listings : Counting(job[v], h) => Counting(job'[v], h)
      BY <2>0, <3>1 DEF Counting
    <3>5. QED BY <1>0, <3>1, <3>3, <3>4 DEF StaleIsBeingCounted
  <2>5. QED BY <2>1, <2>2, <2>3, <2>4
<1>3. CASE UNCHANGED vars
  BY <1>3 DEF vars, db, StaleIsBeingCounted
<1>4. QED BY <1>1, <1>2, <1>3 DEF Next

LEMMA InitCounts == Init => StaleIsBeingCounted
<1> SUFFICES ASSUME Init PROVE StaleIsBeingCounted
  OBVIOUS
<1>1. \A h \in Listings : ~ Taken(h, deal) /\ ~ Leased(h, lease) /\ status[h] = "available"
  BY DEF Init, Taken, Leased, NoDeal, DealReservingStates, DealOpenStates, LeaseLiveStatuses
<1>2. QED BY <1>1 DEF Init, StaleIsBeingCounted, Fresh, DeriveListingStatus, CountKnown, Idle

(* With one worker for the calls that write deals and leases, and none cut *)
(* short, a home's status is the derivation from its deals and leases      *)
(* whenever no call is half done (listings.service.ts:58): what breaks it  *)
(* is two recomputes that overlap, or one that never happens.              *)
THEOREM StatusIsDerived ==
  ASSUME OneCountDesk, ~ MayCrash PROVE Spec => []StatusDerivedWhenQuiet
<1>1. IInv /\ IInv' /\ Shapes /\ StaleIsBeingCounted /\ [Next]_vars => StaleIsBeingCounted'
  BY NextCounts
<1>2. IInv /\ Shapes /\ [Next]_vars => Shapes'
  BY NextShapes
<1>3. StaleIsBeingCounted => StatusDerivedWhenQuiet
  <2>1. ASSUME StaleIsBeingCounted, \A w \in Workers : At(w, "idle"), NEW h \in Listings
        PROVE  status[h] = DeriveListingStatus(Live(h) # {}, Reserving(h) # {})
    <3>1. Fresh(h, status, deal, lease)
      BY <2>1 DEF StaleIsBeingCounted, Counting, At
    <3>2. QED BY <3>1, CountsAreTaken DEF Fresh, DeriveListingStatus
  <2>2. QED BY <2>1 DEF StatusDerivedWhenQuiet
<1>4. QED BY <1>1, <1>2, <1>3, InitIInv, NextIInv, InitShapes, InitCounts, PTL DEF Spec

--------------------------------------------------------------------------------
(* ONE CALL AT A TIME.  The serial machine implements DealLifecycle.       *)
(*                                                                         *)
(* settled is the tables as of the last moment no call was half done.  The *)
(* proof carries, for the step a call is at, its story: what it has read   *)
(* of settled, which therefore still holds, and what it has written since, *)
(* as a relation of the tables now to settled.  Each step tells the story  *)
(* on, and where it ends the call as a whole is one step of DealLifecycle. *)

(* The instance has tables and constants of its own; they are the same.    *)
LEMMA SharedTables ==
  /\ Lifecycle!DealStates = DealStates /\ Lifecycle!DealOpenStates = DealOpenStates
  /\ Lifecycle!DealReservingStates = DealReservingStates
  /\ Lifecycle!DealTransitions = DealTransitions
  /\ Lifecycle!LeaseStatuses = LeaseStatuses
  /\ Lifecycle!LeaseLiveStatuses = LeaseLiveStatuses
  /\ Lifecycle!LeaseTransitions = LeaseTransitions
  /\ Lifecycle!NoDeal = NoDeal
  /\ \A a, b : Lifecycle!DeriveListingStatus(a, b) = DeriveListingStatus(a, b)
BY DEF Lifecycle!DealStates, DealStates, Lifecycle!DealOpenStates, DealOpenStates,
  Lifecycle!DealReservingStates, DealReservingStates, Lifecycle!DealTransitions, DealTransitions,
  Lifecycle!LeaseStatuses, LeaseStatuses, Lifecycle!LeaseLiveStatuses, LeaseLiveStatuses,
  Lifecycle!LeaseTransitions, LeaseTransitions, Lifecycle!NoDeal, NoDeal,
  Lifecycle!DeriveListingStatus, DeriveListingStatus

LEMMA InitRefined == SInit => Lifecycle!Init
BY DEF SInit, Init, Lifecycle!Init, Tables, Lifecycle!NoDeal, NoDeal

--------------------------------------------------------------------------------
(* THE TABLES, AS VALUES: s before a call, t in the middle of it.          *)
Latest(files) == [d \in Deals |-> IF files[d] = << >> THEN "none" ELSE files[d][Len(files[d])]]

View(t) == [deal |-> t.deal, agreement |-> t.agreement, lease |-> t.lease, status |-> t.status,
            doc |-> Latest(t.docs)]

Now == [deal |-> deal, docs |-> docs, agreement |-> agreement, lease |-> lease, status |-> status]

HomeDeals(h) == {d \in Deals : DealListing[d] = h}
ReservingIn(s, h) == {d \in HomeDeals(h) : s.deal[d] \in DealReservingStates}
LiveIn(s, h) == {l \in Leases : LeaseListing[l] = h /\ s.lease[l].status \in LeaseLiveStatuses}
DerivedIn(s, h) == DeriveListingStatus(LiveIn(s, h) # {}, ReservingIn(s, h) # {})
SlotFreeIn(s, d) == ReservingIn(s, DealListing[d]) \subseteq {d}

OpenTwinsIn(s, d) ==
  {e \in HomeDeals(DealListing[d]) : DealCustomer[e] = DealCustomer[d] /\ s.deal[e] \in DealOpenStates}

QueuedIn(s, d) == {e \in HomeDeals(DealListing[d]) \ {d} : s.deal[e] = "requested"}

Others(s, d) ==
  {e \in Deals \ {d} : /\ DealCustomer[e] = DealCustomer[d]
                       /\ s.deal[e] \in DealOpenStates
                       /\ e \notin QueuedIn(s, d)}

Recomputed(s, t, homes) ==
  t.status = [h \in Listings |-> IF h \in homes THEN DerivedIn(t, h) ELSE s.status[h]]

MovedTo(s, t, d, action) ==
  /\ \E to \in DealStates : <<s.deal[d], action, to>> \in DealTransitions
                            /\ t.deal = [s.deal EXCEPT ![d] = to]
  /\ t.lease = s.lease /\ t.agreement = s.agreement

CloseGuard(s, d, l) ==
  /\ s.deal[d] = "approved" /\ LiveIn(s, DealListing[d]) = {} /\ s.agreement[d] = "signed"
  /\ s.lease[l].status = "none" /\ LeaseListing[l] = DealListing[d]
  /\ \A k \in Leases : s.lease[k].deal # d

(* d is closed with the lease l, and done are withdrawn already.           *)
ClosedWith(s, t, d, l, done) ==
  /\ CloseGuard(s, d, l) /\ done \subseteq Others(s, d)
  /\ t.lease = [s.lease EXCEPT ![l] = [status |-> "active", deal |-> d, renewedFrom |-> NoRow]]
  /\ t.deal = [e \in Deals |-> IF e = d THEN "closed"
                               ELSE IF e \in QueuedIn(s, d) THEN "expired"
                               ELSE IF e \in done THEN "withdrawn"
                               ELSE s.deal[e]]
  /\ t.agreement = s.agreement /\ Latest(t.docs) = s.doc

HomesOf(d, done) == {DealListing[e] : e \in done \cup {d}}

LeaseMoved(s, t, l, action) ==
  /\ \E to \in LeaseStatuses : <<s.lease[l].status, action, to>> \in LeaseTransitions
                               /\ t.lease = [s.lease EXCEPT ![l].status = to]
  /\ t.deal = s.deal /\ t.agreement = s.agreement /\ Latest(t.docs) = s.doc

RenewedTo(s, t, l, new) ==
  /\ <<s.lease[l].status, "renew", "renewed">> \in LeaseTransitions
  /\ s.lease[new].status = "none" /\ LeaseListing[new] = LeaseListing[l]
  /\ \A k \in Leases : s.lease[k].renewedFrom # l
  /\ t.lease = [s.lease EXCEPT ![l].status = "renewed", ![new] = Renewal(l)]
  /\ t.deal = s.deal /\ t.agreement = s.agreement /\ Latest(t.docs) = s.doc

--------------------------------------------------------------------------------
(* Such a change is a step of DealLifecycle.                               *)
LEMMA ViewFields ==
  ASSUME NEW t
  PROVE  /\ View(t).deal = t.deal /\ View(t).agreement = t.agreement /\ View(t).lease = t.lease
         /\ View(t).status = t.status /\ View(t).doc = Latest(t.docs)
BY DEF View

LEMMA RecomputeRefined ==
  ASSUME NEW t, settled' = View(t), NEW homes, Recomputed(settled, t, homes)
  PROVE  Lifecycle!Recompute(homes)
<1>1. /\ settled'.deal = t.deal /\ settled'.lease = t.lease /\ settled'.status = t.status
  BY ViewFields
<1>2. \A h : Lifecycle!Derived(t.deal, t.lease, h) = DerivedIn(t, h)
  BY SharedTables DEF Lifecycle!Derived, Lifecycle!Live, Lifecycle!Reserving, Lifecycle!DealsOn,
     DerivedIn, LiveIn, ReservingIn, HomeDeals
<1>3. settled'.status = [h \in Listings |-> IF h \in homes
                                            THEN Lifecycle!Derived(settled'.deal, settled'.lease, h)
                                            ELSE settled.status[h]]
  BY <1>1, <1>2 DEF Recomputed
<1> QED BY <1>3 DEF Lifecycle!Recompute

LEMMA TransitionRefined ==
  ASSUME NEW t, settled' = View(t), NEW d \in Deals, NEW action, MovedTo(settled, t, d, action),
         Recomputed(settled, t, {DealListing[d]})
  PROVE  Lifecycle!Transition(d, action)
<1>1. settled'.deal = t.deal /\ settled'.lease = t.lease
  BY ViewFields
<1>2. Lifecycle!Recompute({DealListing[d]})
  BY RecomputeRefined
<1> QED BY <1>1, <1>2, SharedTables DEF MovedTo, Lifecycle!Transition

LEMMA SlotRefined ==
  ASSUME NEW d
  PROVE  /\ SlotFreeIn(settled, d) => Lifecycle!SlotFree(d)
         /\ OpenTwinsIn(settled, d) = {} => Lifecycle!OpenTwins(d) = {}
         /\ LiveIn(settled, DealListing[d]) = {} => Lifecycle!HomeVacant(d)
         /\ QueuedIn(settled, d) = Lifecycle!Queued(d)
         /\ Others(settled, d) = Lifecycle!SignedElsewhere(d)
<1>1. QueuedIn(settled, d) = Lifecycle!Queued(d)
  BY DEF QueuedIn, HomeDeals, Lifecycle!Queued, Lifecycle!DealsOn
<1>2. Others(settled, d) = Lifecycle!SignedElsewhere(d)
  BY <1>1, SharedTables DEF Others, Lifecycle!SignedElsewhere
<1>3. SlotFreeIn(settled, d) => Lifecycle!SlotFree(d)
  BY SharedTables DEF SlotFreeIn, ReservingIn, HomeDeals, Lifecycle!SlotFree, Lifecycle!Reserving, Lifecycle!DealsOn
<1>4. OpenTwinsIn(settled, d) = {} => Lifecycle!OpenTwins(d) = {}
  BY SharedTables DEF OpenTwinsIn, HomeDeals, Lifecycle!OpenTwins, Lifecycle!DealsOn
<1>5. LiveIn(settled, DealListing[d]) = {} => Lifecycle!HomeVacant(d)
  BY SharedTables DEF LiveIn, Lifecycle!HomeVacant, Lifecycle!Live
<1> QED BY <1>1, <1>2, <1>3, <1>4, <1>5

LEMMA CloseRefined ==
  ASSUME NEW t, settled' = View(t), NEW d \in Deals, NEW l \in Leases,
         ClosedWith(settled, t, d, l, Others(settled, d)),
         Recomputed(settled, t, HomesOf(d, Others(settled, d)))
  PROVE  Lifecycle!Close(d, l)
<1>1. /\ settled'.deal = t.deal /\ settled'.lease = t.lease
      /\ settled'.agreement = t.agreement /\ settled'.doc = Latest(t.docs)
  BY ViewFields
<1>2. Lifecycle!Recompute(HomesOf(d, Others(settled, d)))
  BY RecomputeRefined
<1>3. Lifecycle!Recompute({DealListing[e] : e \in Lifecycle!SignedElsewhere(d) \cup {d}})
  BY <1>2, SlotRefined DEF HomesOf
<1>4. <<"approved", "close", "closed">> \in Lifecycle!DealTransitions
  BY DEF Lifecycle!DealTransitions
<1>5. Lifecycle!HomeVacant(d)
  BY SlotRefined DEF ClosedWith, CloseGuard
<1>6. settled'.deal = [e \in Deals |-> IF e = d THEN "closed"
                                       ELSE IF e \in Lifecycle!Queued(d) THEN "expired"
                                       ELSE IF e \in Lifecycle!SignedElsewhere(d) THEN "withdrawn"
                                       ELSE settled.deal[e]]
  BY <1>1, SlotRefined DEF ClosedWith
<1> QED BY <1>1, <1>3, <1>4, <1>5, <1>6 DEF ClosedWith, CloseGuard, Lifecycle!Close

LEMMA LeaseRefined ==
  ASSUME NEW t, settled' = View(t), NEW l \in Leases, NEW action, LeaseMoved(settled, t, l, action),
         Recomputed(settled, t, {LeaseListing[l]})
  PROVE  Lifecycle!LeaseTransition(l, action)
<1>1. /\ settled'.deal = t.deal /\ settled'.lease = t.lease
      /\ settled'.agreement = t.agreement /\ settled'.doc = Latest(t.docs)
  BY ViewFields
<1>2. Lifecycle!Recompute({LeaseListing[l]})
  BY RecomputeRefined
<1> QED BY <1>1, <1>2, SharedTables DEF LeaseMoved, Lifecycle!LeaseTransition

LEMMA RenewRefined ==
  ASSUME NEW t, settled' = View(t), NEW l \in Leases, NEW new \in Leases,
         RenewedTo(settled, t, l, new), Recomputed(settled, t, {LeaseListing[l]})
  PROVE  Lifecycle!RenewLease(l, new)
<1>1. /\ settled'.deal = t.deal /\ settled'.lease = t.lease
      /\ settled'.agreement = t.agreement /\ settled'.doc = Latest(t.docs)
  BY ViewFields
<1>2. Lifecycle!Recompute({LeaseListing[l]})
  BY RecomputeRefined
<1>3. Lifecycle!Renewal(l) = Renewal(l)
  BY DEF Renewal, Lifecycle!Renewal
<1> QED BY <1>1, <1>2, <1>3, SharedTables DEF RenewedTo, Lifecycle!RenewLease

--------------------------------------------------------------------------------
(* THE STORY OF A CALL: what has been read of s and written to t.          *)
Timers == {"expire_requests", "expire_viewings"}
LeaseActions == {"mark_ending_soon", "record_move_out"}
Verdicts == {"approve_documents", "reject_documents"}
Lettable == {"available", "reserved"}

DealJob(j) == j.deal \in Deals /\ j.lease = NoRow

(* The handler's own guards, but for the row of the transition table.      *)
Licensed(j, s, t) ==
  /\ DealJob(j)
  /\ j.call \in Timers \/ j.rest = {}
  /\ \/ j.call \in PlainActions /\ j.action = j.call
     \/ j.call \in Timers /\ j.action = "expire"
     \/ j.call = "select" /\ j.action = "schedule_viewing" /\ SlotFreeIn(s, j.deal)
     \/ j.call = "upload" /\ j.action = "submit_documents"
     \/ j.call = "upload" /\ j.action = "resubmit_documents" /\ SlotFreeIn(s, j.deal)
     \/ /\ j.call = "verify" /\ j.action \in Verdicts /\ s.doc[j.deal] = "pending"
        /\ t.docs[j.deal] # << >> /\ j.doc = Len(t.docs[j.deal])
     \/ /\ j.call = "request" /\ s.status[DealListing[j.deal]] \in Lettable
        /\ OpenTwinsIn(s, j.deal) = {}

RowOf(j) == IF j.call = "request" THEN "request" ELSE j.action
FilesOf(j, s) == IF j.call = "upload" THEN [s.doc EXCEPT ![j.deal] = "pending"] ELSE s.doc

Unmoved(j, s, t) ==
  /\ t.deal = s.deal /\ t.lease = s.lease /\ t.agreement = s.agreement /\ t.status = s.status
  /\ Latest(t.docs) = FilesOf(j, s)

Moved(j, s, t) == MovedTo(s, t, j.deal, RowOf(j)) /\ Latest(t.docs) = FilesOf(j, s)

(* In the loop of close: the deal at hand is still to be withdrawn, or its *)
(* home is still to be counted.                                            *)
Withdrawing(j, s, t) ==
  /\ DealJob(j)
  /\ \E d \in Deals, l \in Leases :
       LET done == Others(s, d) \ (j.rest \cup {j.deal}) IN
       /\ j.deal \in Others(s, d) \ j.rest /\ j.rest \subseteq Others(s, d)
       /\ ClosedWith(s, t, d, l, done)
       /\ Recomputed(s, t, HomesOf(d, done))

Withdrew(j, s, t) ==
  /\ DealJob(j)
  /\ \E d \in Deals, l \in Leases :
       LET done == Others(s, d) \ j.rest IN
       /\ j.deal \in done /\ j.rest \subseteq Others(s, d)
       /\ ClosedWith(s, t, d, l, done)
       /\ \A h \in Listings \ {DealListing[j.deal]} :
            t.status[h] = IF h \in HomesOf(d, done) THEN DerivedIn(t, h) ELSE s.status[h]

ClosedOnly(j, s, t) ==
  DealJob(j) /\ j.rest = {} /\ \E l \in Leases : ClosedWith(s, t, j.deal, l, {})

OnOneLease(j) == j.lease \in Leases /\ j.rest = {}

Counted(j, t) ==
  /\ j.reserving # "unknown" => (j.reserving = "some" <=> ReservingIn(t, Home(j)) # {})
  /\ j.live # "unknown" => (j.live = "some" <=> LiveIn(t, Home(j)) # {})

Written(j, s, t) ==
  \/ Licensed(j, s, t) /\ Moved(j, s, t) /\ t.status = s.status
  \/ j.call = "close" /\ j.action = "none" /\ ClosedOnly(j, s, t) /\ t.status = s.status
  \/ j.call = "close" /\ j.action = "withdraw" /\ Withdrew(j, s, t)
  \/ /\ OnOneLease(j) /\ j.call \in LeaseActions
     /\ LeaseMoved(s, t, j.lease, j.call) /\ t.status = s.status
  \/ /\ OnOneLease(j) /\ j.call = "renew"
     /\ \E new \in Leases : RenewedTo(s, t, j.lease, new)
     /\ t.status = s.status

Closing(j, s) ==
  /\ DealJob(j) /\ j.call = "close" /\ j.action = "none" /\ s.deal[j.deal] = "approved"
  /\ j.at = "close_tx" \/ j.rest = {}
  /\ j.at # "check_lease" => LiveIn(s, DealListing[j.deal]) = {}
  /\ j.at \in {"find_queue", "close_tx"} => s.agreement[j.deal] = "signed"
  /\ j.at = "close_tx" => j.rest = QueuedIn(s, j.deal)

Reading(j, s, t) ==
  \/ j.call = "close" /\ j.action = "withdraw" /\ Withdrawing(j, s, t)
  \/ /\ j.call # "request" /\ Licensed(j, s, t) /\ Unmoved(j, s, t)
     /\ j.call = "upload" => Targets(s.deal[j.deal], j.action) # {}

Story(j, s, t) ==
  /\ j.at = "idle" => s = View(t)
  /\ j.at = "find_twin" =>
       /\ s = View(t) /\ DealJob(j) /\ j.rest = {} /\ j.call = "request"
       /\ s.status[DealListing[j.deal]] \in Lettable
  /\ j.at = "insert_deal" => s = View(t) /\ j.call = "request" /\ Licensed(j, s, t)
  /\ j.at = "check_slot" =>
       /\ s = View(t) /\ DealJob(j) /\ j.rest = {} /\ j.call = "upload"
       /\ j.action = "resubmit_documents" /\ s.deal[j.deal] = "docs_rejected"
  /\ j.at = "insert_doc" =>
       /\ s = View(t) /\ j.call = "upload" /\ Licensed(j, s, t)
       /\ Targets(s.deal[j.deal], j.action) # {}
  /\ j.at = "read" => Reading(j, s, t)
  /\ j.at = "commit" => Reading(j, s, t) /\ j.to \in Targets(s.deal[j.deal], j.action)
  /\ j.at = "recount" => Written(j, s, t) /\ Counted(j, t)
  /\ j.at = "stamp_doc" =>
       /\ j.call = "verify" /\ Licensed(j, s, t) /\ Moved(j, s, t)
       /\ Recomputed(s, t, {DealListing[j.deal]})
  /\ j.at = "write_paper" => s = View(t) /\ DealJob(j) /\ s.deal[j.deal] = "approved"
  /\ j.at = "write_scan" => s = View(t) /\ DealJob(j) /\ s.agreement[j.deal] # "none"
  /\ j.at \in {"check_lease", "check_scan", "find_queue", "close_tx"} => s = View(t) /\ Closing(j, s)
  /\ j.at = "find_others" =>
       /\ j.call = "close" /\ ClosedOnly(j, s, t) /\ Recomputed(s, t, {DealListing[j.deal]})
  /\ j.at = "lease_commit" =>
       /\ s = View(t) /\ OnOneLease(j) /\ j.call \in LeaseActions
       /\ j.to \in LeaseTargets(s.lease[j.lease].status, j.call)
  /\ j.at = "renew_tx" =>
       /\ s = View(t) /\ OnOneLease(j) /\ j.call = "renew"
       /\ LeaseTargets(s.lease[j.lease].status, "renew") # {}

(* What a call has done when it ends: nothing, or one handler's work.      *)
DealMoved(s, t, d, action) ==
  /\ MovedTo(s, t, d, action) /\ Recomputed(s, t, {DealListing[d]})
  /\ \/ /\ Latest(t.docs) = s.doc
        /\ \/ action \in PlainActions \cup {"expire"}
           \/ action = "schedule_viewing" /\ SlotFreeIn(s, d)
           \/ action = "request" /\ s.status[DealListing[d]] \in Lettable /\ OpenTwinsIn(s, d) = {}
     \/ /\ Latest(t.docs) = [s.doc EXCEPT ![d] = "pending"]
        /\ \/ action = "submit_documents"
           \/ action = "resubmit_documents" /\ SlotFreeIn(s, d)
     \/ /\ action \in Verdicts /\ s.doc[d] = "pending"
        /\ Latest(t.docs) = [s.doc EXCEPT ![d] = IF action = "approve_documents"
                                                 THEN "approved" ELSE "rejected"]

PaperMoved(s, t, d) ==
  /\ t.deal = s.deal /\ t.lease = s.lease /\ t.status = s.status /\ Latest(t.docs) = s.doc
  /\ \/ s.deal[d] = "approved" /\ t.agreement = [s.agreement EXCEPT ![d] = "generated"]
     \/ s.agreement[d] # "none" /\ t.agreement = [s.agreement EXCEPT ![d] = "signed"]

Did(s, t) ==
  \/ View(t) = s
  \/ \E d \in Deals :
       \/ \E action \in {r[2] : r \in DealTransitions} : DealMoved(s, t, d, action)
       \/ PaperMoved(s, t, d)
       \/ \E l \in Leases : /\ ClosedWith(s, t, d, l, Others(s, d))
                            /\ Recomputed(s, t, HomesOf(d, Others(s, d)))
  \/ \E l \in Leases :
       /\ Recomputed(s, t, {LeaseListing[l]})
       /\ \/ \E action \in LeaseActions : LeaseMoved(s, t, l, action)
          \/ \E new \in Leases : RenewedTo(s, t, l, new)

LEMMA DoneRefined ==
  ASSUME NEW t, settled' = View(t), Did(settled, t)
  PROVE  Lifecycle!Next \/ settled' = settled
<1>1. ASSUME NEW d \in Deals, NEW action \in {r[2] : r \in DealTransitions},
             DealMoved(settled, t, d, action)
      PROVE  Lifecycle!Next
  <2>1. Lifecycle!Transition(d, action)
    BY <1>1, TransitionRefined DEF DealMoved
  <2>2. settled'.doc = Latest(t.docs) /\ settled'.agreement = settled.agreement
    BY <1>1, ViewFields DEF DealMoved, MovedTo
  <2>3. CASE Latest(t.docs) = settled.doc
             /\ \/ action \in PlainActions \cup {"expire"}
                \/ action = "schedule_viewing" /\ SlotFreeIn(settled, d)
                \/ /\ action = "request" /\ settled.status[DealListing[d]] \in Lettable
                   /\ OpenTwinsIn(settled, d) = {}
    <3>1. CASE action \in PlainActions \cup {"expire"}
      <4>1. Lifecycle!Plain(d, action) BY <2>1, <2>2, <2>3 DEF Lifecycle!Plain
      <4>2. action \in Lifecycle!PlainActions BY <3>1 DEF PlainActions, Lifecycle!PlainActions
      <4> QED BY <4>1, <4>2 DEF Lifecycle!Next
    <3>2. CASE action = "schedule_viewing" /\ SlotFreeIn(settled, d)
      <4>1. Lifecycle!Select(d) BY <2>1, <2>2, <2>3, <3>2, SlotRefined DEF Lifecycle!Select
      <4> QED BY <4>1 DEF Lifecycle!Next
    <3>3. CASE /\ action = "request" /\ settled.status[DealListing[d]] \in Lettable
               /\ OpenTwinsIn(settled, d) = {}
      <4>1. Lifecycle!CreateRequest(d)
        BY <2>1, <2>2, <2>3, <3>3, SlotRefined DEF Lifecycle!CreateRequest, Lettable
      <4> QED BY <4>1 DEF Lifecycle!Next
    <3> QED BY <2>3, <3>1, <3>2, <3>3
  <2>4. CASE Latest(t.docs) = [settled.doc EXCEPT ![d] = "pending"]
             /\ \/ action = "submit_documents"
                \/ action = "resubmit_documents" /\ SlotFreeIn(settled, d)
    <3>1. Lifecycle!Upload(d) BY <2>1, <2>2, <2>4, SlotRefined DEF Lifecycle!Upload
    <3> QED BY <3>1 DEF Lifecycle!Next
  <2>5. CASE /\ action \in Verdicts /\ settled.doc[d] = "pending"
             /\ Latest(t.docs) = [settled.doc EXCEPT ![d] = IF action = "approve_documents"
                                                            THEN "approved" ELSE "rejected"]
    <3> DEFINE verdict == IF action = "approve_documents" THEN "approved" ELSE "rejected"
    <3>1. verdict \in {"approved", "rejected"} OBVIOUS
    <3>2. action = IF verdict = "approved" THEN "approve_documents" ELSE "reject_documents"
      BY <2>5 DEF Verdicts
    <3>3. Lifecycle!Verify(d, verdict) BY <2>1, <2>2, <2>5, <3>2 DEF Lifecycle!Verify
    <3> QED BY <3>1, <3>3 DEF Lifecycle!Next
  <2> QED BY <1>1, <2>3, <2>4, <2>5 DEF DealMoved
<1>2. ASSUME NEW d \in Deals, PaperMoved(settled, t, d) PROVE Lifecycle!Next
  <2>1. /\ settled'.deal = settled.deal /\ settled'.lease = settled.lease
        /\ settled'.status = settled.status /\ settled'.doc = settled.doc
        /\ settled'.agreement = t.agreement
    BY <1>2, ViewFields DEF PaperMoved
  <2>2. Lifecycle!GenerateAgreement(d) \/ Lifecycle!UploadSigned(d)
    BY <1>2, <2>1 DEF PaperMoved, Lifecycle!GenerateAgreement, Lifecycle!UploadSigned
  <2> QED BY <2>2 DEF Lifecycle!Next
<1>3. ASSUME NEW d \in Deals, NEW l \in Leases, ClosedWith(settled, t, d, l, Others(settled, d)),
             Recomputed(settled, t, HomesOf(d, Others(settled, d)))
      PROVE  Lifecycle!Next
  BY <1>3, CloseRefined DEF Lifecycle!Next
<1>4. ASSUME NEW l \in Leases, Recomputed(settled, t, {LeaseListing[l]}),
             NEW action \in LeaseActions, LeaseMoved(settled, t, l, action)
      PROVE  Lifecycle!Next
  <2>1. Lifecycle!LeaseTransition(l, action) BY <1>4, LeaseRefined
  <2> QED BY <2>1 DEF LeaseActions, Lifecycle!MarkLeaseEndingSoon, Lifecycle!EndLease, Lifecycle!Next
<1>5. ASSUME NEW l \in Leases, Recomputed(settled, t, {LeaseListing[l]}),
             NEW new \in Leases, RenewedTo(settled, t, l, new)
      PROVE  Lifecycle!Next
  BY <1>5, RenewRefined DEF Lifecycle!Next
<1> QED BY <1>1, <1>2, <1>3, <1>4, <1>5 DEF Did

--------------------------------------------------------------------------------
(* EVERY STEP TELLS THE STORY ON.                                          *)
Progress(w) ==
  IF BetweenCalls(job'[w])
  THEN Did(settled, Now') /\ Story(job'[w], View(Now'), Now')
  ELSE Story(job'[w], settled, Now')

TypedTables(t) ==
  /\ t.deal \in [Deals -> DealStates \cup {NoDeal}]
  /\ t.docs \in [Deals -> Seq({"pending", "approved", "rejected"})]
  /\ t.agreement \in [Deals -> {"none", "generated", "signed"}]
  /\ t.lease \in [Leases -> [status : LeaseStatuses \cup {"none"},
                           deal : Deals \cup {NoRow},
                           renewedFrom : Leases \cup {NoRow}]]
  /\ t.status \in [Listings -> ListingStatuses]

LEMMA NowFields ==
  /\ Now.deal = deal /\ Now.docs = docs /\ Now.agreement = agreement
  /\ Now.lease = lease /\ Now.status = status
  /\ Now'.deal = deal' /\ Now'.docs = docs' /\ Now'.agreement = agreement'
  /\ Now'.lease = lease' /\ Now'.status = status'
BY DEF Now

LEMMA NowTyped == ASSUME TablesTyped PROVE TypedTables(Now)
BY NowFields DEF TypedTables, TablesTyped

LEMMA NowQueries ==
  /\ \A h : Reserving(h) = ReservingIn(Now, h) /\ Live(h) = LiveIn(Now, h)
  /\ \A d : SlotFree(d) <=> SlotFreeIn(Now, d)
  /\ \A d : OpenTwins(d) = OpenTwinsIn(Now, d)
BY NowFields DEF Reserving, DealsOn, Live, SlotFree, OpenTwins, ReservingIn, HomeDeals, LiveIn,
   SlotFreeIn, OpenTwinsIn

(* Queries of the tables ask for the deals and leases only.                *)
LEMMA ViewQueries ==
  ASSUME NEW t
  PROVE  /\ \A h : ReservingIn(View(t), h) = ReservingIn(t, h) /\ LiveIn(View(t), h) = LiveIn(t, h)
         /\ \A d : SlotFreeIn(View(t), d) <=> SlotFreeIn(t, d)
         /\ \A d : OpenTwinsIn(View(t), d) = OpenTwinsIn(t, d)
         /\ \A d : QueuedIn(View(t), d) = QueuedIn(t, d)
BY ViewFields DEF ReservingIn, LiveIn, SlotFreeIn, OpenTwinsIn, QueuedIn

(* A call that ends idle has nothing to tell.                              *)
LEMMA IdleStory == ASSUME NEW t PROVE Story(Idle, View(t), t)
BY DEF Story, Idle

LEMMA ReturnProgress ==
  ASSUME NEW w \in Workers, job \in [Workers -> JobRows], Return(w), Did(settled, Now')
  PROVE  Progress(w)
<1>1. job'[w] = Idle BY DEF Return
<1>2. BetweenCalls(Idle) BY DEF BetweenCalls, Idle
<1>3. Story(Idle, View(Now'), Now') BY IdleStory
<1> QED BY <1>1, <1>2, <1>3 DEF Progress

LEMMA NothingDone == ASSUME NEW s, NEW t, s = View(t) PROVE Did(s, t)
BY DEF Did

LEMMA SameNow == ASSUME UNCHANGED db PROVE Now' = Now
BY DEF db, Now

(* A step that ends the call without a write.                              *)
LEMMA GivenUp ==
  ASSUME NEW w \in Workers, job \in [Workers -> JobRows], Return(w), UNCHANGED db,
         settled = View(Now)
  PROVE  Progress(w)
<1>1. Now' = Now BY SameNow
<1>2. Did(settled, Now') BY <1>1, NothingDone
<1> QED BY <1>2, ReturnProgress

(* A step within a call that does not write.                               *)
LEMMA ReadOn ==
  ASSUME NEW w \in Workers, NEW k, job' = [job EXCEPT ![w] = k], job \in [Workers -> JobRows],
         UNCHANGED db, ~BetweenCalls(k), Story(k, settled, Now)
  PROVE  Progress(w)
<1>1. Now' = Now BY SameNow
<1>2. job'[w] = k OBVIOUS
<1> QED BY <1>1, <1>2 DEF Progress

--------------------------------------------------------------------------------
LEMMA BeginProgress ==
  ASSUME IInv, NEW w \in Workers, BeginCall(w), Story(job[w], settled, Now)
  PROVE  Progress(w)
<1>1. job \in [Workers -> JobRows] BY DEF IInv, Jobs
<1>2. At(w, "idle")
  BY DEF BeginCall, BeginRequest, BeginSelect, BeginUpload, BeginPlain, BeginVerify, BeginGenerate,
     BeginSign, BeginClose, BeginExpiry, BeginLease, BeginRenew, Begin
<1>3. settled = View(Now) BY <1>2 DEF Story, At
<1> DEFINE s == settled  t == Now
<1>4. /\ s.deal = deal /\ s.agreement = agreement /\ s.lease = lease /\ s.status = status
      /\ s.doc = Latest(docs)
      /\ t.deal = deal /\ t.docs = docs /\ t.agreement = agreement /\ t.lease = lease
      /\ t.status = status
  BY <1>3, ViewFields, NowFields
<1>5. s = View(t) BY <1>3
<1>6. \A d : SlotFree(d) <=> SlotFreeIn(s, d)
  BY <1>5, NowQueries, ViewQueries
<1>7. TypedTables(t) BY NowTyped DEF IInv
<1>8. \A d \in Deals : Latest(docs)[d] = IF docs[d] = << >> THEN "none" ELSE docs[d][Len(docs[d])]
  BY DEF Latest
<1> HIDE DEF s, t
<1>a. ASSUME NEW d \in Deals, BeginRequest(w, d) PROVE Progress(w)
  <2>1. PICK k : k = [On(d, "find_twin") EXCEPT !.call = "request"] OBVIOUS
  <2>2. /\ k.at = "find_twin" /\ k.call = "request" /\ k.deal = d /\ k.lease = NoRow /\ k.rest = {}
    BY <2>1 DEF On, Idle
  <2>3. job' = [job EXCEPT ![w] = k] /\ UNCHANGED db BY <1>a, <2>1 DEF BeginRequest, Begin
  <2>4. ~BetweenCalls(k) BY <2>2 DEF BetweenCalls
  <2>5. s.status[DealListing[d]] \in Lettable BY <1>4, <1>a DEF BeginRequest, Lettable
  <2>6. Story(k, s, t) BY <1>5, <2>2, <2>5 DEF Story, DealJob
  <2> QED BY <1>1, <2>3, <2>4, <2>6, ReadOn DEF s, t
<1>b. ASSUME NEW d \in Deals, BeginSelect(w, d) PROVE Progress(w)
  <2>1. PICK k : k = [[On(d, "read") EXCEPT !.action = "schedule_viewing"] EXCEPT !.call = "select"] OBVIOUS
  <2>2. /\ k.at = "read" /\ k.call = "select" /\ k.deal = d /\ k.lease = NoRow /\ k.rest = {}
        /\ k.action = "schedule_viewing"
    BY <2>1 DEF On, Idle
  <2>3. job' = [job EXCEPT ![w] = k] /\ UNCHANGED db BY <1>b, <2>1 DEF BeginSelect, Begin
  <2>4. ~BetweenCalls(k) BY <2>2 DEF BetweenCalls
  <2>5. SlotFreeIn(s, d) BY <1>6, <1>b DEF BeginSelect
  <2>6. Licensed(k, s, t) BY <2>2, <2>5 DEF Licensed, DealJob
  <2>7. Unmoved(k, s, t) BY <1>4, <2>2 DEF Unmoved, FilesOf
  <2>8. Story(k, s, t) BY <2>2, <2>6, <2>7 DEF Story, Reading
  <2> QED BY <1>1, <2>3, <2>4, <2>8, ReadOn DEF s, t
<1>c. ASSUME NEW d \in Deals, BeginUpload(w, d) PROVE Progress(w)
  <2>1. CASE deal[d] = "awaiting_docs"
    <3>1. PICK k : k = [[On(d, "insert_doc") EXCEPT !.action = "submit_documents"] EXCEPT !.call = "upload"] OBVIOUS
    <3>2. /\ k.at = "insert_doc" /\ k.call = "upload" /\ k.deal = d /\ k.lease = NoRow /\ k.rest = {}
          /\ k.action = "submit_documents"
      BY <3>1 DEF On, Idle
    <3>3. job' = [job EXCEPT ![w] = k] /\ UNCHANGED db BY <1>c, <2>1, <3>1 DEF BeginUpload, Begin
    <3>4. ~BetweenCalls(k) BY <3>2 DEF BetweenCalls
    <3>5. Licensed(k, s, t) BY <3>2 DEF Licensed, DealJob
    <3>6. "docs_in_review" \in Targets(s.deal[d], "submit_documents")
      BY <1>4, <2>1 DEF Targets, DealTransitions, DealStates
    <3>7. Story(k, s, t) BY <1>5, <3>2, <3>5, <3>6 DEF Story
    <3> QED BY <1>1, <3>3, <3>4, <3>7, ReadOn DEF s, t
  <2>2. CASE deal[d] # "awaiting_docs"
    <3>1. PICK k : k = [[On(d, "check_slot") EXCEPT !.action = "resubmit_documents"] EXCEPT !.call = "upload"] OBVIOUS
    <3>2. /\ k.at = "check_slot" /\ k.call = "upload" /\ k.deal = d /\ k.lease = NoRow /\ k.rest = {}
          /\ k.action = "resubmit_documents"
      BY <3>1 DEF On, Idle
    <3>3. job' = [job EXCEPT ![w] = k] /\ UNCHANGED db BY <1>c, <2>2, <3>1 DEF BeginUpload, Begin
    <3>4. ~BetweenCalls(k) BY <3>2 DEF BetweenCalls
    <3>5. s.deal[d] = "docs_rejected" BY <1>4, <1>c, <2>2 DEF BeginUpload
    <3>7. Story(k, s, t) BY <1>5, <3>2, <3>5 DEF Story, DealJob
    <3> QED BY <1>1, <3>3, <3>4, <3>7, ReadOn DEF s, t
  <2> QED BY <2>1, <2>2
<1>d. ASSUME NEW d \in Deals, NEW action \in PlainActions, BeginPlain(w, d, action) PROVE Progress(w)
  <2>1. PICK to \in Targets(deal[d], action) :
           Begin(w, action, [On(d, "commit") EXCEPT !.action = action, !.to = to])
    BY <1>d DEF BeginPlain
  <2>2. PICK k : k = [[On(d, "commit") EXCEPT !.action = action, !.to = to] EXCEPT !.call = action] OBVIOUS
  <2>3. /\ k.at = "commit" /\ k.call = action /\ k.deal = d /\ k.lease = NoRow /\ k.rest = {}
        /\ k.action = action /\ k.to = to
    BY <2>2 DEF On, Idle
  <2>4. job' = [job EXCEPT ![w] = k] /\ UNCHANGED db BY <1>d, <2>1, <2>2 DEF BeginPlain, Begin
  <2>5. ~BetweenCalls(k) BY <2>3 DEF BetweenCalls
  <2>6. Licensed(k, s, t) BY <2>3 DEF Licensed, DealJob
  <2>7. action \notin {"request", "upload"} BY DEF PlainActions
  <2>8. Unmoved(k, s, t) BY <1>4, <2>3, <2>7 DEF Unmoved, FilesOf
  <2>9. Reading(k, s, t) BY <2>3, <2>6, <2>7, <2>8 DEF Reading
  <2>10. Story(k, s, t) BY <1>4, <2>1, <2>3, <2>9 DEF Story
  <2> QED BY <1>1, <2>4, <2>5, <2>10, ReadOn DEF s, t
<1>e. ASSUME NEW d \in Deals, NEW action \in Verdicts, BeginVerify(w, d, action) PROVE Progress(w)
  <2>1. PICK k : k = [[On(d, "read") EXCEPT !.action = action, !.doc = Len(docs[d])] EXCEPT !.call = "verify"] OBVIOUS
  <2>2. /\ k.at = "read" /\ k.call = "verify" /\ k.deal = d /\ k.lease = NoRow /\ k.rest = {}
        /\ k.action = action /\ k.doc = Len(docs[d])
    BY <2>1 DEF On, Idle
  <2>3. job' = [job EXCEPT ![w] = k] /\ UNCHANGED db BY <1>e, <2>1 DEF BeginVerify, Begin
  <2>4. ~BetweenCalls(k) BY <2>2 DEF BetweenCalls
  <2>5. docs[d] # << >> /\ docs[d][Len(docs[d])] = "pending" BY <1>e DEF BeginVerify
  <2>6. s.doc[d] = "pending" BY <1>4, <1>8, <2>5
  <2>7. Licensed(k, s, t) BY <1>4, <2>2, <2>5, <2>6 DEF Licensed, DealJob
  <2>8. Unmoved(k, s, t) BY <1>4, <2>2 DEF Unmoved, FilesOf
  <2>9. Story(k, s, t) BY <2>2, <2>7, <2>8 DEF Story, Reading
  <2> QED BY <1>1, <2>3, <2>4, <2>9, ReadOn DEF s, t
<1>f. ASSUME NEW d \in Deals, BeginGenerate(w, d) PROVE Progress(w)
  <2>1. PICK k : k = [On(d, "write_paper") EXCEPT !.call = "generate"] OBVIOUS
  <2>2. /\ k.at = "write_paper" /\ k.deal = d /\ k.lease = NoRow
    BY <2>1 DEF On, Idle
  <2>3. job' = [job EXCEPT ![w] = k] /\ UNCHANGED db BY <1>f, <2>1 DEF BeginGenerate, Begin
  <2>4. ~BetweenCalls(k) BY <2>2 DEF BetweenCalls
  <2>5. s.deal[d] = "approved" BY <1>4, <1>f DEF BeginGenerate
  <2>6. Story(k, s, t) BY <1>5, <2>2, <2>5 DEF Story, DealJob
  <2> QED BY <1>1, <2>3, <2>4, <2>6, ReadOn DEF s, t
<1>g. ASSUME NEW d \in Deals, BeginSign(w, d) PROVE Progress(w)
  <2>1. PICK k : k = [On(d, "write_scan") EXCEPT !.call = "sign"] OBVIOUS
  <2>2. /\ k.at = "write_scan" /\ k.deal = d /\ k.lease = NoRow
    BY <2>1 DEF On, Idle
  <2>3. job' = [job EXCEPT ![w] = k] /\ UNCHANGED db BY <1>g, <2>1 DEF BeginSign, Begin
  <2>4. ~BetweenCalls(k) BY <2>2 DEF BetweenCalls
  <2>5. s.agreement[d] # "none" BY <1>4, <1>g DEF BeginSign
  <2>6. Story(k, s, t) BY <1>5, <2>2, <2>5 DEF Story, DealJob
  <2> QED BY <1>1, <2>3, <2>4, <2>6, ReadOn DEF s, t
<1>h. ASSUME NEW d \in Deals, BeginClose(w, d) PROVE Progress(w)
  <2>1. PICK k : k = [On(d, "check_lease") EXCEPT !.call = "close"] OBVIOUS
  <2>2. /\ k.at = "check_lease" /\ k.deal = d /\ k.lease = NoRow /\ k.call = "close"
        /\ k.action = "none" /\ k.rest = {}
    BY <2>1 DEF On, Idle
  <2>3. job' = [job EXCEPT ![w] = k] /\ UNCHANGED db BY <1>h, <2>1 DEF BeginClose, Begin
  <2>4. ~BetweenCalls(k) BY <2>2 DEF BetweenCalls
  <2>5. s.deal[d] = "approved" BY <1>4, <1>h DEF BeginClose
  <2>6. Closing(k, s) BY <2>2, <2>5 DEF Closing, DealJob
  <2>7. Story(k, s, t) BY <1>5, <2>2, <2>6 DEF Story
  <2> QED BY <1>1, <2>3, <2>4, <2>7, ReadOn DEF s, t
<1>i. ASSUME NEW call \in Timers, NEW from, BeginExpiry(w, call, from) PROVE Progress(w)
  <2>1. PICK batch \in SUBSET Deals :
           /\ batch # {}
           /\ \E i \in Visits([Idle EXCEPT !.action = "expire", !.rest = batch]) : Begin(w, call, i)
           /\ UNCHANGED db
    <3>1. PICK batch \in (SUBSET {d \in Deals : deal[d] = from}) \ {{}} :
             \E i \in Visits([Idle EXCEPT !.action = "expire", !.rest = batch]) :
                Begin(w, call, i) /\ UNCHANGED db
      BY <1>i DEF BeginExpiry
    <3>2. batch \in SUBSET Deals /\ batch # {} OBVIOUS
    <3> QED BY <3>1, <3>2
  <2>2. PICK e \in batch :
           Begin(w, call, [[Idle EXCEPT !.action = "expire", !.rest = batch]
                              EXCEPT !.at = "read", !.deal = e, !.rest = batch \ {e}])
    <3>1. PICK b : b = [Idle EXCEPT !.action = "expire", !.rest = batch] OBVIOUS
    <3>2. b.rest = batch BY <3>1 DEF Idle
    <3>3. PICK i \in Visits(b) : Begin(w, call, i) BY <2>1, <3>1
    <3>4. PICK e \in batch : i = [b EXCEPT !.at = "read", !.deal = e, !.rest = @ \ {e}]
      BY <2>1, <3>2 DEF Visits
    <3>5. i = [b EXCEPT !.at = "read", !.deal = e, !.rest = batch \ {e}] BY <3>2, <3>4
    <3> QED BY <3>1, <3>3, <3>5
  <2>3. PICK k : k = [[[Idle EXCEPT !.action = "expire", !.rest = batch]
                          EXCEPT !.at = "read", !.deal = e, !.rest = batch \ {e}] EXCEPT !.call = call]
    OBVIOUS
  <2>4. /\ k.at = "read" /\ k.deal = e /\ k.lease = NoRow /\ k.call = call /\ k.action = "expire"
    BY <2>3 DEF Idle
  <2>5. job'[w] = k BY <1>1, <2>2, <2>3 DEF Begin
  <2>6. BetweenCalls(k) BY <2>4 DEF BetweenCalls, Timers
  <2>7. call \notin {"request", "upload"} BY DEF Timers
  <2>8. Licensed(k, s, t) BY <2>4 DEF Licensed, DealJob
  <2>9. Unmoved(k, s, t) BY <1>4, <2>4, <2>7 DEF Unmoved, FilesOf
  <2>10. Story(k, s, t) BY <2>4, <2>7, <2>8, <2>9 DEF Story, Reading
  <2>11. Now' = t BY <2>1, SameNow DEF t
  <2>12. Did(s, t) BY <1>5, NothingDone
  <2> QED BY <1>5, <2>5, <2>6, <2>10, <2>11, <2>12 DEF Progress, s
<1>j. ASSUME NEW l \in Leases, NEW action \in LeaseActions, BeginLease(w, l, action) PROVE Progress(w)
  <2>1. PICK to \in LeaseTargets(lease[l].status, action) :
           Begin(w, action, [OnLease(l, "lease_commit") EXCEPT !.to = to])
    BY <1>j DEF BeginLease
  <2>2. PICK k : k = [[OnLease(l, "lease_commit") EXCEPT !.to = to] EXCEPT !.call = action] OBVIOUS
  <2>3. k.at = "lease_commit" /\ k.lease = l /\ k.call = action /\ k.rest = {} /\ k.to = to
    BY <2>2 DEF OnLease, Idle
  <2>4. job' = [job EXCEPT ![w] = k] /\ UNCHANGED db BY <1>j, <2>1, <2>2 DEF BeginLease, Begin
  <2>5. ~BetweenCalls(k) BY <2>3 DEF BetweenCalls
  <2>6. Story(k, s, t) BY <1>4, <1>5, <2>1, <2>3 DEF Story, OnOneLease
  <2> QED BY <1>1, <2>4, <2>5, <2>6, ReadOn DEF s, t
<1>k. ASSUME NEW l \in Leases, BeginRenew(w, l) PROVE Progress(w)
  <2>1. PICK k : k = [OnLease(l, "renew_tx") EXCEPT !.call = "renew"] OBVIOUS
  <2>2. k.at = "renew_tx" /\ k.lease = l /\ k.call = "renew" /\ k.rest = {}
    BY <2>1 DEF OnLease, Idle
  <2>3. job' = [job EXCEPT ![w] = k] /\ UNCHANGED db BY <1>k, <2>1 DEF BeginRenew, Begin
  <2>4. ~BetweenCalls(k) BY <2>2 DEF BetweenCalls
  <2>5. LeaseTargets(s.lease[l].status, "renew") # {} BY <1>4, <1>k DEF BeginRenew
  <2>6. Story(k, s, t) BY <1>5, <2>2, <2>5 DEF Story, OnOneLease
  <2> QED BY <1>1, <2>3, <2>4, <2>6, ReadOn DEF s, t
<1> QED BY <1>a, <1>b, <1>c, <1>d, <1>e, <1>f, <1>g, <1>h, <1>i, <1>j, <1>k
        DEF BeginCall, Verdicts, Timers, LeaseActions

--------------------------------------------------------------------------------
(* The files after an upload and after a verdict.                          *)
Verdict == {"pending", "approved", "rejected"}    \* statuses of a file

LEMMA AppendedLast ==
  ASSUME NEW q \in Seq(Verdict), NEW p, p = Append(q, "pending")
  PROVE  p # << >> /\ p[Len(p)] = "pending"
<1>1. "pending" \in Verdict BY DEF Verdict
<1>2. /\ Len(Append(q, "pending")) = Len(q) + 1 /\ Len(q) \in Nat
      /\ Append(q, "pending")[Len(q) + 1] = "pending"
      /\ Append(q, "pending") # << >>
  BY <1>1, AppendProperties, LenProperties
<1> QED BY <1>2

LEMMA StampedLast ==
  ASSUME NEW q \in Seq(Verdict), q # << >>, NEW mark, NEW p, p = [q EXCEPT ![Len(q)] = mark]
  PROVE  p # << >> /\ p[Len(p)] = mark
<1>1. Len(q) \in Nat /\ Len(q) > 0 /\ DOMAIN q = 1 .. Len(q) OBVIOUS
<1>2. DOMAIN p = 1 .. Len(q) /\ p[Len(q)] = mark BY <1>1
<1>3. Len(p) = Len(q) BY <1>1, <1>2
<1>4. p # << >> BY <1>1, <1>2
<1> QED BY <1>2, <1>3, <1>4

(* A licence is about the job's call, row and action.                      *)
SameErrand(j, k) ==
  /\ k.call = j.call /\ k.deal = j.deal /\ k.lease = j.lease /\ k.rest = j.rest
  /\ k.action = j.action /\ k.doc = j.doc

LEMMA SameLicence ==
  ASSUME NEW j, NEW k, SameErrand(j, k), NEW s, NEW t
  PROVE  /\ Licensed(j, s, t) => Licensed(k, s, t)
         /\ Unmoved(j, s, t) => Unmoved(k, s, t)
         /\ Moved(j, s, t) => Moved(k, s, t)
         /\ Withdrawing(j, s, t) => Withdrawing(k, s, t)
         /\ Withdrew(j, s, t) => Withdrew(k, s, t)
         /\ ClosedOnly(j, s, t) => ClosedOnly(k, s, t)
         /\ Reading(j, s, t) => Reading(k, s, t)
         /\ Written(j, s, t) => Written(k, s, t)
<1>1. Licensed(j, s, t) => Licensed(k, s, t) BY DEF Licensed, DealJob, SameErrand
<1>2. Unmoved(j, s, t) => Unmoved(k, s, t) BY DEF Unmoved, FilesOf, SameErrand
<1>3. Moved(j, s, t) => Moved(k, s, t) BY DEF Moved, RowOf, FilesOf, SameErrand
<1>4. Withdrawing(j, s, t) => Withdrawing(k, s, t) BY DEF Withdrawing, DealJob, SameErrand
<1>5. Withdrew(j, s, t) => Withdrew(k, s, t) BY DEF Withdrew, DealJob, SameErrand
<1>6. ClosedOnly(j, s, t) => ClosedOnly(k, s, t) BY DEF ClosedOnly, DealJob, SameErrand
<1>7. Reading(j, s, t) => Reading(k, s, t) BY <1>1, <1>2, <1>4 DEF Reading, SameErrand
<1>8. Written(j, s, t) => Written(k, s, t)
  BY <1>1, <1>3, <1>5, <1>6 DEF Written, OnOneLease, SameErrand
<1> QED BY <1>1, <1>2, <1>3, <1>4, <1>5, <1>6, <1>7, <1>8

(* The next step of the same call.                                         *)
LEMMA GotoFields ==
  ASSUME NEW j \in JobRows, NEW step, NEW k, k = [j EXCEPT !.at = step]
  PROVE  k.at = step /\ SameErrand(j, k)
BY DEF JobRows, SameErrand

LEMMA FindTwinProgress ==
  ASSUME IInv, NEW w \in Workers, FindTwin(w), Story(job[w], settled, Now)
  PROVE  Progress(w)
<1> DEFINE j == job[w]  s == settled  t == Now
<1>1. job \in [Workers -> JobRows] /\ j \in JobRows BY DEF IInv, Jobs
<1>2. j.at = "find_twin" BY DEF FindTwin, At
<1>3. s = View(t) /\ DealJob(j) /\ j.rest = {} /\ j.call = "request"
      /\ s.status[DealListing[j.deal]] \in Lettable
  BY <1>2 DEF Story
<1>4. UNCHANGED db BY DEF FindTwin
<1>5. CASE OpenTwins(j.deal) = {}
  <2>1. PICK k : k = [j EXCEPT !.at = "insert_deal"] OBVIOUS
  <2>2. job' = [job EXCEPT ![w] = k] BY <1>5, <2>1 DEF FindTwin, Require, Goto
  <2>3. OpenTwinsIn(s, j.deal) = {} BY <1>3, <1>5, NowQueries, ViewQueries
  <2> HIDE DEF j, s, t
  <2>4. k.at = "insert_deal" /\ SameErrand(j, k) BY <1>1, <2>1, GotoFields
  <2>5. ~BetweenCalls(k) BY <2>4 DEF BetweenCalls
  <2>6. Licensed(j, s, t) BY <1>3, <2>3 DEF Licensed
  <2>7. Story(k, s, t) BY <1>3, <2>4, <2>6, SameLicence DEF Story, SameErrand
  <2> QED BY <1>1, <1>4, <2>2, <2>5, <2>7, ReadOn DEF s, t
<1>6. CASE OpenTwins(j.deal) # {}
  <2>1. Return(w) BY <1>6 DEF FindTwin, Require
  <2> QED BY <1>1, <1>3, <1>4, <2>1, GivenUp
<1> QED BY <1>5, <1>6

LEMMA CheckSlotProgress ==
  ASSUME IInv, NEW w \in Workers, CheckSlot(w), Story(job[w], settled, Now)
  PROVE  Progress(w)
<1> DEFINE j == job[w]  s == settled  t == Now
<1>1. job \in [Workers -> JobRows] /\ j \in JobRows BY DEF IInv, Jobs
<1>2. j.at = "check_slot" BY DEF CheckSlot, At
<1>3. /\ s = View(t) /\ DealJob(j) /\ j.rest = {} /\ j.call = "upload"
      /\ j.action = "resubmit_documents" /\ s.deal[j.deal] = "docs_rejected"
  BY <1>2 DEF Story
<1>4. UNCHANGED db BY DEF CheckSlot
<1>5. CASE SlotFree(j.deal)
  <2>1. PICK k : k = [j EXCEPT !.at = "insert_doc"] OBVIOUS
  <2>2. job' = [job EXCEPT ![w] = k] BY <1>5, <2>1 DEF CheckSlot, Require, Goto
  <2>3. SlotFreeIn(s, j.deal) BY <1>3, <1>5, NowQueries, ViewQueries
  <2> HIDE DEF j, s, t
  <2>4. k.at = "insert_doc" /\ SameErrand(j, k) BY <1>1, <2>1, GotoFields
  <2>5. ~BetweenCalls(k) BY <2>4 DEF BetweenCalls
  <2>6. Licensed(j, s, t) BY <1>3, <2>3 DEF Licensed
  <2>7. "docs_in_review" \in Targets("docs_rejected", "resubmit_documents")
    BY DEF Targets, DealTransitions, DealStates
  <2>8. Targets(s.deal[k.deal], k.action) # {}
    BY <1>3, <2>4, <2>7 DEF SameErrand
  <2>9. Story(k, s, t) BY <1>3, <2>4, <2>6, <2>8, SameLicence DEF Story, SameErrand
  <2> QED BY <1>1, <1>4, <2>2, <2>5, <2>9, ReadOn DEF s, t
<1>6. CASE ~SlotFree(j.deal)
  <2>1. Return(w) BY <1>6 DEF CheckSlot, Require
  <2> QED BY <1>1, <1>3, <1>4, <2>1, GivenUp
<1> QED BY <1>5, <1>6

LEMMA CloseChecksProgress ==
  ASSUME IInv, NEW w \in Workers, CheckLease(w) \/ CheckScan(w), Story(job[w], settled, Now)
  PROVE  Progress(w)
<1> DEFINE j == job[w]  s == settled  t == Now
<1>1. job \in [Workers -> JobRows] /\ j \in JobRows BY DEF IInv, Jobs
<1>2. j.at \in {"check_lease", "check_scan"} BY DEF CheckLease, CheckScan, At
<1>3. s = View(t) /\ Closing(j, s)
  BY <1>2 DEF Story
<1>4. UNCHANGED db BY DEF CheckLease, CheckScan
<1>5. s.agreement = agreement /\ \A h : LiveIn(s, h) = Live(h)
  BY <1>3, ViewFields, NowFields, NowQueries, ViewQueries
<1>6. CASE Return(w) BY <1>1, <1>3, <1>4, <1>6, GivenUp
<1>7. ASSUME NEW step \in {"check_scan", "find_queue"}, Goto(w, step),
             step = "check_scan" => Live(DealListing[j.deal]) = {},
             step = "find_queue" => j.at = "check_scan" /\ agreement[j.deal] = "signed"
      PROVE  Progress(w)
  <2>1. PICK k : k = [j EXCEPT !.at = step] OBVIOUS
  <2>2. job' = [job EXCEPT ![w] = k] BY <1>7, <2>1 DEF Goto
  <2> HIDE DEF j, s, t
  <2>3. k.at = step /\ SameErrand(j, k) BY <1>1, <2>1, GotoFields
  <2>4. ~BetweenCalls(k) BY <2>3 DEF BetweenCalls
  <2>5. Closing(k, s) BY <1>2, <1>3, <1>5, <1>7, <2>3 DEF Closing, DealJob, SameErrand
  <2>6. Story(k, s, t) BY <1>3, <2>3, <2>5 DEF Story
  <2> QED BY <1>1, <1>4, <2>2, <2>4, <2>6, ReadOn DEF s, t
<1>8. CASE CheckLease(w) /\ ~Return(w)
  <2>1. Goto(w, "check_scan") /\ Live(DealListing[j.deal]) = {} BY <1>8 DEF CheckLease, Require
  <2> QED BY <1>7, <2>1
<1>9. CASE CheckScan(w) /\ ~Return(w)
  <2>1. Goto(w, "find_queue") /\ agreement[j.deal] = "signed" /\ j.at = "check_scan"
    BY <1>9 DEF CheckScan, Require, At
  <2> QED BY <1>7, <2>1
<1> QED BY <1>6, <1>8, <1>9

LEMMA FindQueueProgress ==
  ASSUME IInv, NEW w \in Workers, FindQueue(w), Story(job[w], settled, Now)
  PROVE  Progress(w)
<1> DEFINE j == job[w]  s == settled  t == Now
<1>1. job \in [Workers -> JobRows] /\ j \in JobRows BY DEF IInv, Jobs
<1>2. j.at = "find_queue" BY DEF FindQueue, At
<1>3. s = View(t) /\ Closing(j, s)
  BY <1>2 DEF Story
<1>4. UNCHANGED db BY DEF FindQueue
<1>5. s.deal = deal BY <1>3, ViewFields, NowFields
<1> DEFINE queue == {e \in DealsOn(DealListing[j.deal]) \ {j.deal} : deal[e] = "requested"}
<1>6. PICK k : k = [j EXCEPT !.at = "close_tx", !.rest = queue] OBVIOUS
<1>7. job' = [job EXCEPT ![w] = k] BY <1>1, <1>6 DEF FindQueue
<1>8. queue = QueuedIn(s, j.deal) BY <1>5 DEF QueuedIn, HomeDeals, DealsOn
<1> HIDE DEF j, s, t, queue
<1>9. /\ k.at = "close_tx" /\ k.rest = queue /\ k.call = j.call /\ k.deal = j.deal
      /\ k.lease = j.lease /\ k.action = j.action
  BY <1>1, <1>6 DEF JobRows
<1>10. ~BetweenCalls(k) BY <1>9 DEF BetweenCalls
<1>11. Closing(k, s) BY <1>2, <1>3, <1>8, <1>9 DEF Closing, DealJob
<1>12. Story(k, s, t) BY <1>3, <1>9, <1>11 DEF Story
<1> QED BY <1>1, <1>4, <1>7, <1>10, <1>12, ReadOn DEF s, t

LEMMA ReadProgress ==
  ASSUME IInv, NEW r, settled = View(r), NEW w \in Workers, Read(w), Story(job[w], settled, Now)
  PROVE  Progress(w)
<1> DEFINE j == job[w]  s == settled  t == Now
<1>0. s = View(r) OBVIOUS
<1>1. job \in [Workers -> JobRows] /\ j \in JobRows BY DEF IInv, Jobs
<1>2. j.at = "read" BY DEF Read, At
<1>3. Reading(j, s, t) BY <1>2 DEF Story
<1>4. UNCHANGED db BY DEF Read
<1>5. t.deal = deal BY NowFields
<1>6. t.deal[j.deal] = s.deal[j.deal]
  <2> HIDE DEF j, s, t
  <2>1. CASE j.call = "close" /\ j.action = "withdraw" /\ Withdrawing(j, s, t)
    BY <2>1 DEF Withdrawing, ClosedWith, DealJob, Others
  <2>2. CASE Unmoved(j, s, t) BY <2>2 DEF Unmoved
  <2> QED BY <1>3, <2>1, <2>2 DEF Reading
<1>7. ASSUME NEW to \in Targets(deal[j.deal], j.action),
             job' = [job EXCEPT ![w].at = "commit", ![w].to = to]
      PROVE  Progress(w)
  <2>1. PICK k : k = [j EXCEPT !.at = "commit", !.to = to] OBVIOUS
  <2>2. job' = [job EXCEPT ![w] = k] BY <1>1, <1>7, <2>1
  <2> HIDE DEF j, s, t
  <2>3. k.at = "commit" /\ k.to = to /\ SameErrand(j, k) BY <1>1, <2>1 DEF JobRows, SameErrand
  <2>4. ~BetweenCalls(k) BY <2>3 DEF BetweenCalls
  <2>5. Reading(k, s, t) BY <1>3, <2>3, SameLicence
  <2>6. k.to \in Targets(s.deal[k.deal], k.action) BY <1>5, <1>6, <1>7, <2>3 DEF SameErrand
  <2>7. Story(k, s, t) BY <2>3, <2>5, <2>6 DEF Story
  <2> QED BY <1>1, <1>4, <2>2, <2>4, <2>7, ReadOn DEF s, t
<1>8. ASSUME Targets(deal[j.deal], j.action) = {}, Return(w) PROVE Progress(w)
  <2>1. Targets(s.deal[j.deal], j.action) = {} BY <1>5, <1>6, <1>8
  <2> HIDE DEF j, s, t
  <2>2. ~Withdrawing(j, s, t) \/ j.action # "withdraw"
    <3>1. SUFFICES ASSUME Withdrawing(j, s, t), j.action = "withdraw" PROVE FALSE OBVIOUS
    <3>2. s.deal[j.deal] \in DealOpenStates BY <3>1 DEF Withdrawing, Others
    <3>3. "withdrawn" \in Targets(s.deal[j.deal], "withdraw")
      BY <3>2 DEF Targets, DealTransitions, DealStates
    <3> QED BY <2>1, <3>1, <3>3
  <2>3. Unmoved(j, s, t) /\ j.call # "upload" BY <1>3, <2>1, <2>2 DEF Reading
  <2>4. Latest(t.docs) = s.doc /\ t.deal = s.deal /\ t.lease = s.lease
        /\ t.agreement = s.agreement /\ t.status = s.status
    BY <2>3 DEF Unmoved, FilesOf
  <2>5. View(Now') = View(t) BY <1>4, SameNow DEF t
  <2>6. View(t).deal = s.deal BY <2>4, ViewFields
  <2>7. Did(s, t)
    <3>1. /\ r.deal = t.deal /\ r.agreement = t.agreement /\ r.lease = t.lease
          /\ r.status = t.status /\ Latest(r.docs) = Latest(t.docs)
      BY <1>0, <2>4, ViewFields
    <3>2. View(r) = View(t) BY <3>1 DEF View
    <3> QED BY <1>0, <3>2, NothingDone
  <2>8. Now' = t BY <1>4, SameNow DEF t
  <2> QED BY <1>1, <1>8, <2>7, <2>8, ReturnProgress DEF s
<1> QED BY <1>7, <1>8 DEF Read

--------------------------------------------------------------------------------
(* Steps that write.                                                       *)
LEMMA WriteOn ==
  ASSUME NEW w \in Workers, NEW k, job' = [job EXCEPT ![w] = k], job \in [Workers -> JobRows],
         ~BetweenCalls(k), Story(k, settled, Now')
  PROVE  Progress(w)
<1>1. job'[w] = k OBVIOUS
<1> QED BY <1>1 DEF Progress

LEMMA RecountFields ==
  ASSUME NEW j \in JobRows, NEW k, k = Recount(j)
  PROVE  /\ k.at = "recount" /\ k.action = "none" /\ k.reserving = "unknown" /\ k.live = "unknown"
         /\ k.call = j.call /\ k.deal = j.deal /\ k.lease = j.lease /\ k.rest = j.rest
         /\ k.doc = j.doc
BY DEF Recount, JobRows

LEMMA RecountStory ==
  ASSUME NEW k, k.at = "recount", k.reserving = "unknown", k.live = "unknown", NEW s, NEW t,
         Written(k, s, t)
  PROVE  Story(k, s, t) /\ ~BetweenCalls(k)
BY DEF Story, Counted, BetweenCalls

LEMMA InsertDealProgress ==
  ASSUME IInv, NEW w \in Workers, InsertDeal(w), Story(job[w], settled, Now)
  PROVE  Progress(w)
<1> DEFINE j == job[w]  s == settled  t == Now  u == Now'
<1>1. job \in [Workers -> JobRows] /\ j \in JobRows BY DEF IInv, Jobs
<1>2. j.at = "insert_deal" BY DEF InsertDeal, At
<1>3. s = View(t) /\ j.call = "request" /\ Licensed(j, s, t) BY <1>2 DEF Story
<1>4. PICK d \in Deals :
        /\ deal[d] = NoDeal
        /\ DealListing[d] = DealListing[j.deal] /\ DealCustomer[d] = DealCustomer[j.deal]
        /\ deal' = [deal EXCEPT ![d] = "requested"]
        /\ job' = [job EXCEPT ![w] = Recount([@ EXCEPT !.deal = d])]
  BY DEF InsertDeal
<1>5. PICK i : i = [j EXCEPT !.deal = d] OBVIOUS
<1>6. PICK k : k = Recount(i) OBVIOUS
<1>7. job' = [job EXCEPT ![w] = k] BY <1>4, <1>5, <1>6
<1>8. /\ s.deal = deal /\ s.agreement = agreement /\ s.lease = lease /\ s.status = status
      /\ s.doc = Latest(docs)
      /\ u.deal = deal' /\ u.docs = docs /\ u.agreement = agreement /\ u.lease = lease
      /\ u.status = status
  BY <1>3, ViewFields, NowFields DEF InsertDeal
<1> HIDE DEF j, s, t, u
<1>9. i \in JobRows /\ i.deal = d /\ i.call = j.call /\ i.lease = j.lease /\ i.rest = j.rest
  BY <1>1, <1>5 DEF JobRows
<1>10. /\ k.at = "recount" /\ k.action = "none" /\ k.reserving = "unknown" /\ k.live = "unknown"
       /\ k.call = "request" /\ k.deal = d /\ k.lease = NoRow /\ k.rest = {}
  BY <1>3, <1>6, <1>9, RecountFields DEF Licensed, DealJob, Timers
<1>11. OpenTwinsIn(s, d) = OpenTwinsIn(s, j.deal) BY <1>4 DEF OpenTwinsIn
<1>12. s.status[DealListing[j.deal]] \in Lettable /\ OpenTwinsIn(s, j.deal) = {}
  BY <1>3 DEF Licensed, PlainActions, Timers
<1>13. Licensed(k, s, u) BY <1>4, <1>10, <1>11, <1>12 DEF Licensed, DealJob
<1>14. MovedTo(s, u, d, "request")
  BY <1>4, <1>8 DEF MovedTo, DealTransitions, DealStates
<1>15. Moved(k, s, u) BY <1>8, <1>10, <1>14 DEF Moved, RowOf, FilesOf
<1>16. Written(k, s, u) BY <1>8, <1>13, <1>15 DEF Written
<1>17. Story(k, s, u) /\ ~BetweenCalls(k) BY <1>10, <1>16, RecountStory
<1> QED BY <1>1, <1>7, <1>17, WriteOn DEF s, u

LEMMA SameDerived ==
  ASSUME NEW t, NEW u, u.deal = t.deal, u.lease = t.lease
  PROVE  /\ \A h : ReservingIn(u, h) = ReservingIn(t, h) /\ LiveIn(u, h) = LiveIn(t, h)
         /\ \A h : DerivedIn(u, h) = DerivedIn(t, h)
BY DEF DerivedIn, ReservingIn, LiveIn

LEMMA WithdrawsOne ==
  ASSUME NEW j, NEW s, NEW t, NEW u, Withdrawing(j, s, t), TypedTables(t),
         u.deal = [t.deal EXCEPT ![j.deal] = "withdrawn"], u.docs = t.docs, u.lease = t.lease,
         u.agreement = t.agreement, u.status = t.status
  PROVE  Withdrew(j, s, u)
<1>1. PICK d \in Deals, l \in Leases :
        LET done == Others(s, d) \ (j.rest \cup {j.deal}) IN
        /\ j.deal \in Others(s, d) \ j.rest /\ j.rest \subseteq Others(s, d)
        /\ ClosedWith(s, t, d, l, done)
        /\ Recomputed(s, t, HomesOf(d, done))
  BY DEF Withdrawing
<1> DEFINE before == Others(s, d) \ (j.rest \cup {j.deal})  done == Others(s, d) \ j.rest
<1>2. /\ j.deal \in done /\ j.rest \subseteq Others(s, d) /\ ClosedWith(s, t, d, l, before)
      /\ Recomputed(s, t, HomesOf(d, before)) /\ done = before \cup {j.deal}
      /\ done \subseteq Others(s, d) /\ j.deal \in Others(s, d)
  BY <1>1
<1>3. j.deal \in Deals /\ j.deal # d /\ j.deal \notin QueuedIn(s, d) BY <1>2 DEF Others
<1> HIDE DEF before, done
<1>4. u.deal = [e \in Deals |-> IF e = d THEN "closed"
                                ELSE IF e \in QueuedIn(s, d) THEN "expired"
                                ELSE IF e \in done THEN "withdrawn"
                                ELSE s.deal[e]]
  BY <1>2, <1>3 DEF ClosedWith
<1>5. ClosedWith(s, u, d, l, done) BY <1>2, <1>4 DEF ClosedWith
<1>6. ASSUME NEW h \in Listings \ {DealListing[j.deal]}
      PROVE  u.status[h] = IF h \in HomesOf(d, done) THEN DerivedIn(u, h) ELSE s.status[h]
  <2>0. \A e \in HomeDeals(h) : u.deal[e] = t.deal[e] BY DEF TypedTables, HomeDeals
  <2>1. DerivedIn(u, h) = DerivedIn(t, h) BY <2>0 DEF DerivedIn, ReservingIn, LiveIn
  <2>2. h \in HomesOf(d, done) <=> h \in HomesOf(d, before) BY <1>2 DEF HomesOf
  <2>3. u.status[h] = IF h \in HomesOf(d, before) THEN DerivedIn(t, h) ELSE s.status[h]
    BY <1>2 DEF Recomputed
  <2> QED BY <2>1, <2>2, <2>3
<1>7. DealJob(j) BY DEF Withdrawing
<1> QED BY <1>2, <1>5, <1>6, <1>7 DEF Withdrew, done

LEMMA CommitProgress ==
  ASSUME IInv, NEW w \in Workers, Commit(w), Story(job[w], settled, Now)
  PROVE  Progress(w)
<1> DEFINE j == job[w]  s == settled  t == Now  u == Now'
<1>1. job \in [Workers -> JobRows] /\ j \in JobRows BY DEF IInv, Jobs
<1>2. j.at = "commit" BY DEF Commit, At
<1>3. Reading(j, s, t) /\ j.to \in Targets(s.deal[j.deal], j.action) BY <1>2 DEF Story
<1>4. PICK k : k = [Recount(j) EXCEPT !.action = j.action] OBVIOUS
<1>5. job' = [job EXCEPT ![w] = k] BY <1>4 DEF Commit
<1>6. /\ t.deal = deal /\ t.agreement = agreement /\ t.lease = lease /\ t.status = status
      /\ t.docs = docs
      /\ u.deal = [deal EXCEPT ![j.deal] = j.to] /\ u.docs = docs /\ u.agreement = agreement
      /\ u.lease = lease /\ u.status = status
  BY NowFields DEF Commit
<1>7. TypedTables(t) BY NowTyped DEF IInv
<1> HIDE DEF j, s, t, u
<1>8. k.at = "recount" /\ k.reserving = "unknown" /\ k.live = "unknown" /\ SameErrand(j, k)
  BY <1>1, <1>4 DEF Recount, SameErrand, JobRows
<1>9. CASE j.call = "close" /\ j.action = "withdraw" /\ Withdrawing(j, s, t)
  <2>1. j.to = "withdrawn" BY <1>3, <1>9 DEF Targets, DealTransitions
  <2>2. Withdrew(j, s, u) BY <1>6, <1>7, <1>9, <2>1, WithdrawsOne
  <2> QED
    <3>1. Written(j, s, u) BY <1>9, <2>2 DEF Written
    <3>2. Written(k, s, u) BY <1>8, <3>1, SameLicence
    <3>3. Story(k, s, u) /\ ~BetweenCalls(k) BY <1>8, <3>2, RecountStory
    <3> QED BY <1>1, <1>5, <3>3, WriteOn DEF s, u
<1>10. CASE j.call # "request" /\ Licensed(j, s, t) /\ Unmoved(j, s, t)
  <2>1. Licensed(j, s, u) BY <1>6, <1>10 DEF Licensed
  <2>2. MovedTo(s, u, j.deal, j.action)
    BY <1>3, <1>6, <1>10 DEF MovedTo, Unmoved, Targets
  <2>3. Moved(j, s, u) BY <1>6, <1>10, <2>2 DEF Moved, RowOf, Unmoved
  <2>4. Written(j, s, u) BY <1>6, <1>10, <2>1, <2>3 DEF Written, Unmoved
  <2>5. Written(k, s, u) BY <1>8, <2>4, SameLicence
  <2>6. Story(k, s, u) /\ ~BetweenCalls(k) BY <1>8, <2>5, RecountStory
  <2> QED BY <1>1, <1>5, <2>6, WriteOn DEF s, u
<1> QED BY <1>3, <1>9, <1>10 DEF Reading

LEMMA CountProgress ==
  ASSUME IInv, NEW w \in Workers, CountReserving(w) \/ CountLive(w), Story(job[w], settled, Now)
  PROVE  Progress(w)
<1> DEFINE j == job[w]  s == settled  t == Now
<1>1. job \in [Workers -> JobRows] /\ j \in JobRows BY DEF IInv, Jobs
<1>2. j.at = "recount" BY DEF CountReserving, CountLive, At
<1>3. Written(j, s, t) /\ Counted(j, t) BY <1>2 DEF Story
<1>4. UNCHANGED db BY DEF CountReserving, CountLive
<1>5. ASSUME NEW k, job' = [job EXCEPT ![w] = k], k.at = "recount", SameErrand(j, k), Counted(k, t)
      PROVE  Progress(w)
  <2> HIDE DEF j, s, t
  <2>1. Written(k, s, t) BY <1>3, <1>5, SameLicence
  <2>2. Story(k, s, t) /\ ~BetweenCalls(k) BY <1>5, <2>1 DEF Story, BetweenCalls
  <2> QED BY <1>1, <1>4, <1>5, <2>2, ReadOn DEF s, t
<1>6. CASE CountReserving(w)
  <2>1. PICK n : n = IF Reserving(Home(j)) # {} THEN "some" ELSE "none" OBVIOUS
  <2>2. PICK k : k = [j EXCEPT !.reserving = n] OBVIOUS
  <2>3. job' = [job EXCEPT ![w] = k] BY <1>1, <1>6, <2>1, <2>2 DEF CountReserving
  <2>4. n = "some" <=> ReservingIn(t, Home(j)) # {} BY <2>1, NowQueries
  <2>5. k.at = "recount" /\ SameErrand(j, k) /\ k.reserving = n /\ k.live = j.live
    BY <1>1, <1>2, <2>2 DEF SameErrand, JobRows
  <2>6. Home(k) = Home(j) BY <2>5 DEF Home, SameErrand
  <2>7. Counted(k, t) BY <1>3, <2>4, <2>5, <2>6 DEF Counted
  <2> QED BY <1>5, <2>3, <2>5, <2>7
<1>7. CASE CountLive(w)
  <2>1. PICK n : n = IF Live(Home(j)) # {} THEN "some" ELSE "none" OBVIOUS
  <2>2. PICK k : k = [j EXCEPT !.live = n] OBVIOUS
  <2>3. job' = [job EXCEPT ![w] = k] BY <1>1, <1>7, <2>1, <2>2 DEF CountLive
  <2>4. n = "some" <=> LiveIn(t, Home(j)) # {} BY <2>1, NowQueries
  <2>5. k.at = "recount" /\ SameErrand(j, k) /\ k.live = n /\ k.reserving = j.reserving
    BY <1>1, <1>2, <2>2 DEF SameErrand, JobRows
  <2>6. Home(k) = Home(j) BY <2>5 DEF Home, SameErrand
  <2>7. Counted(k, t) BY <1>3, <2>4, <2>5, <2>6 DEF Counted
  <2> QED BY <1>5, <2>3, <2>5, <2>7
<1> QED BY <1>6, <1>7

(* The recompute's last write makes the home's status true of its tables.  *)
LEMMA StatusWritten ==
  ASSUME NEW j, NEW t, NEW u, Counted(j, t), j.reserving # "unknown", j.live # "unknown",
         TypedTables(t), u.deal = t.deal, u.lease = t.lease,
         u.status = [t.status EXCEPT ![Home(j)] =
                       DeriveListingStatus(j.live = "some", j.reserving = "some")]
  PROVE  u.status = [h \in Listings |-> IF h = Home(j) THEN DerivedIn(u, h) ELSE t.status[h]]
<1>1. /\ (j.reserving = "some") = (ReservingIn(t, Home(j)) # {})
      /\ (j.live = "some") = (LiveIn(t, Home(j)) # {})
  BY DEF Counted
<1>2. DeriveListingStatus(j.live = "some", j.reserving = "some") = DerivedIn(t, Home(j))
  BY <1>1 DEF DerivedIn
<1>3. DerivedIn(t, Home(j)) = DerivedIn(u, Home(j)) BY SameDerived
<1>4. t.status = [h \in Listings |-> t.status[h]] BY DEF TypedTables
<1> QED BY <1>2, <1>3, <1>4

LEMMA VisitFields ==
  ASSUME NEW j \in JobRows, NEW k \in Visits(j)
  PROVE  \/ j.rest = {} /\ k = Idle
         \/ /\ k.at = "read" /\ k.call = j.call /\ k.lease = j.lease /\ k.action = j.action
            /\ k.deal \in j.rest /\ k.rest = j.rest \ {k.deal} /\ j.rest \subseteq Deals
<1>1. CASE j.rest = {} BY <1>1 DEF Visits
<1>2. CASE j.rest # {}
  <2>1. PICK e \in j.rest : k = [j EXCEPT !.at = "read", !.deal = e, !.rest = @ \ {e}]
    BY <1>2 DEF Visits
  <2> QED BY <2>1 DEF JobRows
<1> QED BY <1>1, <1>2

LEMMA WriteStatusProgress ==
  ASSUME IInv, NEW w \in Workers, WriteStatus(w), Story(job[w], settled, Now)
  PROVE  Progress(w)
<1> DEFINE j == job[w]  s == settled  t == Now  u == Now'
<1>1. job \in [Workers -> JobRows] /\ j \in JobRows BY DEF IInv, Jobs
<1>2. j.at = "recount" /\ j.reserving # "unknown" /\ j.live # "unknown" BY DEF WriteStatus, At
<1>3. Written(j, s, t) /\ Counted(j, t) BY <1>2 DEF Story
<1>4. TypedTables(t) BY NowTyped DEF IInv
<1>5. /\ u.deal = t.deal /\ u.lease = t.lease /\ u.agreement = t.agreement /\ u.docs = t.docs
      /\ u.status = [t.status EXCEPT ![Home(j)] =
                       DeriveListingStatus(j.live = "some", j.reserving = "some")]
  BY NowFields DEF WriteStatus
<1>6. \/ j.call = "verify" /\ Goto(w, "stamp_doc")
      \/ j.call = "close" /\ j.action # "withdraw" /\ Goto(w, "find_others")
      \/ /\ j.call # "verify" /\ ~(j.call = "close" /\ j.action # "withdraw")
         /\ \E k \in Visits(j) : job' = [job EXCEPT ![w] = k]
  BY DEF WriteStatus, Continue
<1> HIDE DEF j, s, t, u
<1>7. u.status = [h \in Listings |-> IF h = Home(j) THEN DerivedIn(u, h) ELSE t.status[h]]
  BY <1>2, <1>3, <1>4, <1>5, StatusWritten
<1>8. t.status = s.status => Recomputed(s, u, {Home(j)}) BY <1>7 DEF Recomputed
<1>9. DealJob(j) => Home(j) = DealListing[j.deal] BY DEF DealJob, Home
<1>a. CASE Licensed(j, s, t) /\ Moved(j, s, t) /\ t.status = s.status
  <2>1. Licensed(j, s, u) /\ Moved(j, s, u)
    <3>1. Licensed(j, s, u) BY <1>5, <1>a DEF Licensed
    <3>2. Moved(j, s, u) BY <1>5, <1>a DEF Moved, MovedTo
    <3> QED BY <3>1, <3>2
  <2>2. Recomputed(s, u, {DealListing[j.deal]}) BY <1>8, <1>9, <1>a DEF Licensed
  <2>3. CASE j.call = "verify" /\ Goto(w, "stamp_doc")
    <3>1. PICK k : k = [j EXCEPT !.at = "stamp_doc"] OBVIOUS
    <3>2. job' = [job EXCEPT ![w] = k] BY <2>3, <3>1 DEF Goto, j
    <3>3. k.at = "stamp_doc" /\ SameErrand(j, k) BY <1>1, <3>1, GotoFields
    <3>4. Licensed(k, s, u) /\ Moved(k, s, u) BY <2>1, <3>3, SameLicence
    <3>5. Story(k, s, u) BY <2>2, <2>3, <3>3, <3>4 DEF Story, SameErrand
    <3>6. ~BetweenCalls(k) BY <3>3 DEF BetweenCalls
    <3> QED BY <1>1, <3>2, <3>5, <3>6, WriteOn DEF s, u
  <2>4. j.call # "close" BY <1>a DEF Licensed, PlainActions, Timers
  <2>5. ASSUME j.call # "verify", NEW k \in Visits(j), job' = [job EXCEPT ![w] = k]
        PROVE  Progress(w)
    <3>1. DealMoved(s, u, j.deal, RowOf(j))
      <4>1. MovedTo(s, u, j.deal, RowOf(j)) /\ Latest(u.docs) = FilesOf(j, s) BY <2>1 DEF Moved
      <4>2. CASE j.call = "upload"
        <5>1. RowOf(j) = j.action /\ Latest(u.docs) = [s.doc EXCEPT ![j.deal] = "pending"]
          BY <4>1, <4>2 DEF RowOf, FilesOf
        <5>2. \/ j.action = "submit_documents"
              \/ j.action = "resubmit_documents" /\ SlotFreeIn(s, j.deal)
          BY <2>1, <4>2 DEF Licensed, PlainActions, Timers
        <5> QED BY <2>2, <4>1, <5>1, <5>2 DEF DealMoved
      <4>3. CASE j.call # "upload"
        <5>1. Latest(u.docs) = s.doc BY <4>1, <4>3 DEF FilesOf
        <5>2. \/ RowOf(j) \in PlainActions \cup {"expire"}
              \/ RowOf(j) = "schedule_viewing" /\ SlotFreeIn(s, j.deal)
              \/ /\ RowOf(j) = "request" /\ s.status[DealListing[j.deal]] \in Lettable
                 /\ OpenTwinsIn(s, j.deal) = {}
          BY <2>1, <2>5, <4>3 DEF Licensed, RowOf, PlainActions, Timers
        <5> QED BY <2>2, <4>1, <5>1, <5>2 DEF DealMoved
      <4> QED BY <4>2, <4>3
    <3>2. RowOf(j) \in {r[2] : r \in DealTransitions} /\ j.deal \in Deals
      <4>1. PICK to : <<s.deal[j.deal], RowOf(j), to>> \in DealTransitions
        BY <3>1 DEF DealMoved, MovedTo
      <4> QED BY <2>1, <4>1 DEF Licensed, DealJob
    <3>3. Did(s, u) BY <3>1, <3>2 DEF Did
    <3>4. CASE k = Idle
      <4>1. Return(w) BY <2>5, <3>4 DEF Return
      <4> QED BY <1>1, <3>3, <4>1, ReturnProgress DEF s, u
    <3>5. CASE j.rest # {}
      <4>1. /\ k.at = "read" /\ k.call = j.call /\ k.lease = j.lease /\ k.action = j.action
            /\ k.deal \in j.rest /\ j.rest \subseteq Deals
        BY <1>1, <3>5, VisitFields
      <4>2. j.call \in Timers /\ j.action = "expire" /\ j.lease = NoRow
        BY <2>1, <3>5 DEF Licensed, DealJob, Timers, PlainActions
      <4>3. j.call \notin {"request", "upload", "close"} BY <4>2 DEF Timers
      <4>4. Licensed(k, View(u), u) BY <4>1, <4>2 DEF Licensed, DealJob
      <4>5. Unmoved(k, View(u), u) BY <4>1, <4>3, ViewFields DEF Unmoved, FilesOf
      <4>6. Story(k, View(u), u) BY <4>1, <4>3, <4>4, <4>5 DEF Story, Reading
      <4>7. BetweenCalls(k) BY <4>1, <4>2 DEF BetweenCalls, Timers
      <4>8. job'[w] = k BY <1>1, <2>5
      <4> QED BY <3>3, <4>6, <4>7, <4>8 DEF Progress, s, u
    <3> QED BY <1>1, <2>5, <3>4, <3>5, VisitFields
  <2> QED BY <1>6, <2>3, <2>4, <2>5
<1>b. CASE j.call = "close" /\ j.action = "none" /\ ClosedOnly(j, s, t) /\ t.status = s.status
  <2>1. Goto(w, "find_others") BY <1>6, <1>b
  <2>2. PICK k : k = [j EXCEPT !.at = "find_others"] OBVIOUS
  <2>3. job' = [job EXCEPT ![w] = k] BY <2>1, <2>2 DEF Goto, j
  <2>4. k.at = "find_others" /\ SameErrand(j, k) BY <1>1, <2>2, GotoFields
  <2>5. ClosedOnly(j, s, u) BY <1>5, <1>b DEF ClosedOnly, ClosedWith
  <2>6. ClosedOnly(k, s, u) BY <2>4, <2>5, SameLicence
  <2>7. Recomputed(s, u, {DealListing[j.deal]}) BY <1>8, <1>9, <1>b DEF ClosedOnly
  <2>8. Story(k, s, u) BY <1>b, <2>4, <2>6, <2>7 DEF Story, SameErrand
  <2>9. ~BetweenCalls(k) BY <2>4 DEF BetweenCalls
  <2> QED BY <1>1, <2>3, <2>8, <2>9, WriteOn DEF s, u
<1>c. CASE j.call = "close" /\ j.action = "withdraw" /\ Withdrew(j, s, t)
  <2>1. PICK k \in Visits(j) : job' = [job EXCEPT ![w] = k] BY <1>6, <1>c
  <2>2. PICK d \in Deals, l \in Leases :
          LET done == Others(s, d) \ j.rest IN
          /\ j.deal \in done /\ j.rest \subseteq Others(s, d)
          /\ ClosedWith(s, t, d, l, done)
          /\ \A h \in Listings \ {DealListing[j.deal]} :
               t.status[h] = IF h \in HomesOf(d, done) THEN DerivedIn(t, h) ELSE s.status[h]
    BY <1>c DEF Withdrew
  <2> DEFINE done == Others(s, d) \ j.rest
  <2>3. /\ j.deal \in done /\ j.rest \subseteq Others(s, d) /\ ClosedWith(s, t, d, l, done)
        /\ \A h \in Listings \ {DealListing[j.deal]} :
             t.status[h] = IF h \in HomesOf(d, done) THEN DerivedIn(t, h) ELSE s.status[h]
    BY <2>2
  <2>4. Home(j) = DealListing[j.deal] /\ j.lease = NoRow BY <1>9, <1>c DEF Withdrew, DealJob
  <2>5. ClosedWith(s, u, d, l, done) BY <1>5, <2>3 DEF ClosedWith
  <2>6. Recomputed(s, u, HomesOf(d, done))
    <3>1. DealListing[j.deal] \in HomesOf(d, done) BY <2>3 DEF HomesOf
    <3>2. \A h : DerivedIn(u, h) = DerivedIn(t, h) BY <1>5, SameDerived
    <3> HIDE DEF done
    <3>3. \A h \in Listings : u.status[h] = IF h \in HomesOf(d, done) THEN DerivedIn(u, h) ELSE s.status[h]
      BY <1>7, <2>3, <2>4, <3>1, <3>2
    <3>4. u.status = [h \in Listings |-> u.status[h]] BY <1>7
    <3> QED BY <3>3, <3>4 DEF Recomputed
  <2>7. CASE k = Idle /\ j.rest = {}
    <3>1. done = Others(s, d) BY <2>7
    <3>2. Did(s, u) BY <2>5, <2>6, <3>1 DEF Did
    <3>3. Return(w) BY <2>1, <2>7 DEF Return
    <3> QED BY <1>1, <3>2, <3>3, ReturnProgress DEF s, u
  <2>8. CASE j.rest # {}
    <3>1. /\ k.at = "read" /\ k.call = "close" /\ k.lease = NoRow /\ k.action = "withdraw"
          /\ k.deal \in j.rest /\ k.rest = j.rest \ {k.deal} /\ j.rest \subseteq Deals
      BY <1>1, <1>c, <2>4, <2>8, VisitFields
    <3>2. done = Others(s, d) \ (k.rest \cup {k.deal}) BY <3>1
    <3>3. k.deal \in Others(s, d) \ k.rest /\ k.rest \subseteq Others(s, d) BY <2>3, <3>1
    <3> HIDE DEF done
    <3>4. Withdrawing(k, s, u) BY <2>5, <2>6, <3>1, <3>2, <3>3 DEF Withdrawing, DealJob
    <3>5. Story(k, s, u) BY <3>1, <3>4 DEF Story, Reading
    <3>6. ~BetweenCalls(k) BY <3>1 DEF BetweenCalls
    <3> QED BY <1>1, <2>1, <3>5, <3>6, WriteOn DEF s, u
  <2> QED BY <1>1, <2>7, <2>8, VisitFields
<1>d. CASE /\ OnOneLease(j) /\ t.status = s.status
           /\ \/ j.call \in LeaseActions /\ LeaseMoved(s, t, j.lease, j.call)
              \/ j.call = "renew" /\ \E new \in Leases : RenewedTo(s, t, j.lease, new)
  <2>1. j.call \notin {"verify", "close"} /\ j.rest = {} /\ j.lease \in Leases
    BY <1>d DEF OnOneLease, LeaseActions
  <2>2. Visits(j) = {Idle} BY <2>1 DEF Visits
  <2>3. Return(w) BY <1>6, <2>1, <2>2 DEF Return
  <2>4. Home(j) = LeaseListing[j.lease] BY <2>1, DealStepsAssumption DEF Home
  <2>5. Recomputed(s, u, {LeaseListing[j.lease]}) BY <1>8, <1>d, <2>4
  <2>6. \/ j.call \in LeaseActions /\ LeaseMoved(s, u, j.lease, j.call)
        \/ \E new \in Leases : RenewedTo(s, u, j.lease, new)
    <3>1. LeaseMoved(s, t, j.lease, j.call) => LeaseMoved(s, u, j.lease, j.call)
      BY <1>5 DEF LeaseMoved
    <3>2. \A new \in Leases : RenewedTo(s, t, j.lease, new) => RenewedTo(s, u, j.lease, new)
      BY <1>5 DEF RenewedTo
    <3> QED BY <1>d, <3>1, <3>2
  <2>7. Did(s, u) BY <2>1, <2>5, <2>6 DEF Did
  <2> QED BY <1>1, <2>3, <2>7, ReturnProgress DEF s, u
<1> QED BY <1>3, <1>a, <1>b, <1>c, <1>d DEF Written

LEMMA InsertDocProgress ==
  ASSUME IInv, NEW w \in Workers, InsertDoc(w), Story(job[w], settled, Now)
  PROVE  Progress(w)
<1> DEFINE j == job[w]  s == settled  t == Now  u == Now'
<1>1. job \in [Workers -> JobRows] /\ j \in JobRows BY DEF IInv, Jobs
<1>2. j.at = "insert_doc" BY DEF InsertDoc, At
<1>3. /\ s = View(t) /\ j.call = "upload" /\ Licensed(j, s, t)
      /\ Targets(s.deal[j.deal], j.action) # {}
  BY <1>2 DEF Story
<1>4. j.deal \in Deals BY <1>3 DEF Licensed, DealJob
<1>5. PICK k : k = [j EXCEPT !.at = "read"] OBVIOUS
<1>6. job' = [job EXCEPT ![w] = k] BY <1>5 DEF InsertDoc, Goto
<1>7. /\ s.deal = u.deal /\ s.agreement = u.agreement /\ s.lease = u.lease /\ s.status = u.status
      /\ s.doc = Latest(docs) /\ u.docs = [docs EXCEPT ![j.deal] = Append(docs[j.deal], "pending")]
  BY <1>3, ViewFields, NowFields DEF InsertDoc
<1>8. docs \in [Deals -> Seq({"pending", "approved", "rejected"})] BY DEF IInv, TablesTyped
<1> HIDE DEF j, s, t, u
<1>9. Latest(u.docs) = [s.doc EXCEPT ![j.deal] = "pending"]
  <2>1. PICK q, p : q = docs[j.deal] /\ p = u.docs[j.deal] OBVIOUS
  <2>2. q \in Seq(Verdict) BY <1>4, <1>8, <2>1 DEF Verdict
  <2>3. p = Append(q, "pending") /\ \A e \in Deals \ {j.deal} : u.docs[e] = docs[e]
    BY <1>4, <1>7, <1>8, <2>1
  <2>4. p # << >> /\ p[Len(p)] = "pending" BY <2>2, <2>3, AppendedLast
  <2>5. Latest(u.docs) = [Latest(docs) EXCEPT ![j.deal] = "pending"]
    BY <1>4, <2>1, <2>3, <2>4 DEF Latest
  <2> QED BY <1>7, <2>5
<1>10. k.at = "read" /\ SameErrand(j, k) BY <1>1, <1>5, GotoFields
<1>11. Licensed(j, s, u) BY <1>3 DEF Licensed, PlainActions, Timers
<1>12. Unmoved(j, s, u) BY <1>3, <1>7, <1>9 DEF Unmoved, FilesOf
<1>13. Licensed(k, s, u) /\ Unmoved(k, s, u) BY <1>10, <1>11, <1>12, SameLicence
<1>14. k.call = "upload" /\ Targets(s.deal[k.deal], k.action) # {} BY <1>3, <1>10 DEF SameErrand
<1>15. Story(k, s, u) BY <1>10, <1>13, <1>14 DEF Story, Reading
<1>16. ~BetweenCalls(k) BY <1>14, <1>10 DEF BetweenCalls
<1> QED BY <1>1, <1>6, <1>15, <1>16, WriteOn DEF s, u

LEMMA StampDocProgress ==
  ASSUME IInv, NEW w \in Workers, StampDoc(w), Story(job[w], settled, Now)
  PROVE  Progress(w)
<1> DEFINE j == job[w]  s == settled  t == Now  u == Now'
           mark == IF j.action = "approve_documents" THEN "approved" ELSE "rejected"
<1>1. job \in [Workers -> JobRows] BY DEF IInv, Jobs
<1>2. j.at = "stamp_doc" BY DEF StampDoc, At
<1>3. /\ j.call = "verify" /\ Licensed(j, s, t) /\ Moved(j, s, t)
      /\ Recomputed(s, t, {DealListing[j.deal]})
  BY <1>2 DEF Story
<1>4. /\ t.deal = u.deal /\ t.agreement = u.agreement /\ t.lease = u.lease /\ t.status = u.status
      /\ t.docs = docs /\ u.docs = [docs EXCEPT ![j.deal][j.doc] = mark]
  BY NowFields DEF StampDoc
<1>5. docs \in [Deals -> Seq({"pending", "approved", "rejected"})] BY DEF IInv, TablesTyped
<1>6. Return(w) BY DEF StampDoc
<1> HIDE DEF j, s, t, u, mark
<1>7. /\ j.deal \in Deals /\ j.action \in Verdicts /\ s.doc[j.deal] = "pending"
      /\ docs[j.deal] # << >> /\ j.doc = Len(docs[j.deal])
  BY <1>3, <1>4 DEF Licensed, DealJob, PlainActions, Timers
<1>9. Latest(u.docs) = [Latest(docs) EXCEPT ![j.deal] = mark]
  <2>1. PICK q, p : q = docs[j.deal] /\ p = u.docs[j.deal] OBVIOUS
  <2>2. q \in Seq(Verdict) BY <1>5, <1>7, <2>1 DEF Verdict
  <2>3. p = [docs[j.deal] EXCEPT ![j.doc] = mark] BY <1>4, <1>5, <1>7, <2>1
  <2>4. \A e \in Deals \ {j.deal} : u.docs[e] = docs[e] BY <1>4, <1>5, <1>7
  <2>5. p = [q EXCEPT ![Len(q)] = mark] BY <1>7, <2>1, <2>3
  <2>6. p # << >> /\ p[Len(p)] = mark BY <1>7, <2>1, <2>2, <2>5, StampedLast
  <2> QED BY <1>7, <2>1, <2>4, <2>6 DEF Latest
<1>10. Latest(docs) = s.doc /\ MovedTo(s, t, j.deal, j.action)
  BY <1>3, <1>4 DEF Moved, RowOf, FilesOf
<1>11. MovedTo(s, u, j.deal, j.action) BY <1>4, <1>10 DEF MovedTo
<1>12. Recomputed(s, u, {DealListing[j.deal]}) BY <1>3, <1>4, SameDerived DEF Recomputed
<1>13. Latest(u.docs) = [s.doc EXCEPT ![j.deal] = mark] BY <1>9, <1>10
<1>14. DealMoved(s, u, j.deal, j.action)
  BY <1>7, <1>11, <1>12, <1>13 DEF DealMoved, mark
<1>15. j.action \in {r[2] : r \in DealTransitions}
  <2>1. PICK to : <<s.deal[j.deal], j.action, to>> \in DealTransitions BY <1>11 DEF MovedTo
  <2> QED BY <2>1
<1>16. Did(s, u) BY <1>7, <1>14, <1>15 DEF Did
<1> QED BY <1>1, <1>6, <1>16, ReturnProgress DEF s, u

LEMMA PaperProgress ==
  ASSUME IInv, NEW w \in Workers, WritePaper(w) \/ WriteScan(w), Story(job[w], settled, Now)
  PROVE  Progress(w)
<1> DEFINE j == job[w]  s == settled  t == Now  u == Now'
<1>1. job \in [Workers -> JobRows] BY DEF IInv, Jobs
<1>2. \/ WritePaper(w) /\ j.at = "write_paper"
      \/ WriteScan(w) /\ j.at = "write_scan"
  BY DEF WritePaper, WriteScan, At
<1>3. s = View(t) /\ DealJob(j) BY <1>2 DEF Story
<1>4. /\ s.deal = u.deal /\ s.lease = u.lease /\ s.status = u.status
      /\ s.doc = Latest(u.docs) /\ s.agreement = agreement
  BY <1>3, ViewFields, NowFields DEF WritePaper, WriteScan
<1>5. u.agreement = agreement' BY NowFields
<1>6. CASE WritePaper(w) /\ j.at = "write_paper"
  <2>1. s.deal[j.deal] = "approved" BY <1>6 DEF Story
  <2>2. u.agreement = [s.agreement EXCEPT ![j.deal] = "generated"]
    BY <1>4, <1>5, <1>6 DEF WritePaper
  <2> HIDE DEF j, s, t, u
  <2>3. PaperMoved(s, u, j.deal) BY <1>4, <2>1, <2>2 DEF PaperMoved
  <2>4. Did(s, u) BY <1>3, <2>3 DEF Did, DealJob
  <2> QED BY <1>1, <1>6, <2>4, ReturnProgress DEF s, u, WritePaper
<1>7. CASE WriteScan(w) /\ j.at = "write_scan"
  <2>1. s.agreement[j.deal] # "none" BY <1>7 DEF Story
  <2>2. u.agreement = [s.agreement EXCEPT ![j.deal] = "signed"]
    BY <1>4, <1>5, <1>7 DEF WriteScan
  <2> HIDE DEF j, s, t, u
  <2>3. PaperMoved(s, u, j.deal) BY <1>4, <2>1, <2>2 DEF PaperMoved
  <2>4. Did(s, u) BY <1>3, <2>3 DEF Did, DealJob
  <2> QED BY <1>1, <1>7, <2>4, ReturnProgress DEF s, u, WriteScan
<1> QED BY <1>2, <1>6, <1>7

LEMMA CloseTxProgress ==
  ASSUME IInv, NEW w \in Workers, CloseTx(w), Story(job[w], settled, Now)
  PROVE  Progress(w)
<1> DEFINE j == job[w]  s == settled  t == Now  u == Now'
<1>1. job \in [Workers -> JobRows] /\ j \in JobRows BY DEF IInv, Jobs
<1>2. j.at = "close_tx" BY DEF CloseTx, At
<1>3. s = View(t) /\ Closing(j, s) BY <1>2 DEF Story
<1>4. /\ s.deal = deal /\ s.agreement = agreement /\ s.lease = lease /\ s.status = status
      /\ s.doc = Latest(docs)
      /\ u.deal = deal' /\ u.docs = docs' /\ u.agreement = agreement' /\ u.lease = lease'
      /\ u.status = status'
  BY <1>3, ViewFields, NowFields
<1>5. CASE \E k \in Leases : lease[k].deal = j.deal
  <2>1. Return(w) /\ UNCHANGED db BY <1>5 DEF CloseTx
  <2> QED BY <1>1, <1>3, <2>1, GivenUp
<1>6. CASE \A k \in Leases : lease[k].deal # j.deal
  <2>1. PICK l \in Leases :
          /\ lease[l].status = "none" /\ LeaseListing[l] = DealListing[j.deal]
          /\ lease' = [lease EXCEPT ![l] =
               [status |-> "active", deal |-> j.deal, renewedFrom |-> NoRow]]
    BY <1>6 DEF CloseTx
  <2>2. /\ deal' = [d \in Deals |-> IF d = j.deal THEN "closed"
                                    ELSE IF d \in j.rest THEN "expired"
                                    ELSE deal[d]]
        /\ job' = [job EXCEPT ![w] = Recount([j EXCEPT !.rest = {}])]
        /\ UNCHANGED <<docs, agreement, status>>
    BY <1>6 DEF CloseTx
  <2>3. PICK i : i = [j EXCEPT !.rest = {}] OBVIOUS
  <2>4. PICK k : k = Recount(i) OBVIOUS
  <2>5. job' = [job EXCEPT ![w] = k] BY <2>2, <2>3, <2>4
  <2> HIDE DEF j, s, t, u
  <2>6. /\ i \in JobRows /\ i.rest = {} /\ i.deal = j.deal /\ i.call = j.call /\ i.lease = j.lease
    BY <1>1, <2>3 DEF JobRows
  <2>7. /\ DealJob(j) /\ j.call = "close" /\ s.deal[j.deal] = "approved" /\ j.rest = QueuedIn(s, j.deal)
        /\ LiveIn(s, DealListing[j.deal]) = {} /\ s.agreement[j.deal] = "signed"
    BY <1>2, <1>3 DEF Closing
  <2>8. /\ k.at = "recount" /\ k.action = "none" /\ k.reserving = "unknown" /\ k.live = "unknown"
        /\ k.call = "close" /\ k.deal = j.deal /\ k.lease = NoRow /\ k.rest = {}
    BY <2>4, <2>6, <2>7, RecountFields DEF DealJob
  <2>9. CloseGuard(s, j.deal, l) BY <1>4, <1>6, <2>1, <2>7 DEF CloseGuard
  <2>10. u.deal = [e \in Deals |-> IF e = j.deal THEN "closed"
                                   ELSE IF e \in QueuedIn(s, j.deal) THEN "expired"
                                   ELSE IF e \in {} THEN "withdrawn"
                                   ELSE s.deal[e]]
    BY <1>4, <2>2, <2>7
  <2>11. ClosedWith(s, u, j.deal, l, {}) BY <1>4, <2>1, <2>2, <2>9, <2>10 DEF ClosedWith
  <2>12. ClosedOnly(k, s, u) BY <2>7, <2>8, <2>11 DEF ClosedOnly, DealJob
  <2>13. Written(k, s, u) BY <1>4, <2>2, <2>8, <2>12 DEF Written
  <2>14. Story(k, s, u) /\ ~BetweenCalls(k) BY <2>8, <2>13, RecountStory
  <2> QED BY <1>1, <2>5, <2>14, WriteOn DEF s, u
<1> QED BY <1>5, <1>6

LEMMA FindOthersProgress ==
  ASSUME IInv, NEW w \in Workers, FindOthers(w), Story(job[w], settled, Now)
  PROVE  Progress(w)
<1> DEFINE j == job[w]  s == settled  t == Now
           others == {e \in Deals \ {j.deal} : /\ DealCustomer[e] = DealCustomer[j.deal]
                                               /\ deal[e] \in DealOpenStates}
<1>1. job \in [Workers -> JobRows] /\ j \in JobRows BY DEF IInv, Jobs
<1>2. j.at = "find_others" BY DEF FindOthers, At
<1>3. j.call = "close" /\ ClosedOnly(j, s, t) /\ Recomputed(s, t, {DealListing[j.deal]})
  BY <1>2 DEF Story
<1>4. UNCHANGED db BY DEF FindOthers
<1>5. PICK i : i = [j EXCEPT !.rest = others, !.action = "withdraw"] OBVIOUS
<1>6. PICK k \in Visits(i) : job' = [job EXCEPT ![w] = k] BY <1>5 DEF FindOthers, Continue
<1>7. t.deal = deal BY NowFields
<1>8. i \in JobRows /\ i.rest = others /\ i.action = "withdraw" /\ i.call = "close" /\ i.lease = j.lease
  <2>1. "withdraw" \in {r[2] : r \in DealTransitions} BY ActionsAreTableActions DEF PlainActions
  <2>2. others \in SUBSET Deals OBVIOUS
  <2> HIDE DEF j, others
  <2> QED BY <1>1, <1>3, <1>5, <2>1, <2>2 DEF JobRows
<1> HIDE DEF j, s, t
<1>9. PICK l \in Leases : ClosedWith(s, t, j.deal, l, {}) BY <1>3 DEF ClosedOnly
<1>10. DealJob(j) /\ j.deal \in Deals BY <1>3 DEF ClosedOnly, DealJob
<1>11. others = Others(s, j.deal)
  <2>1. \A e \in Deals \ {j.deal} :
          deal[e] \in DealOpenStates <=> e \notin QueuedIn(s, j.deal) /\ s.deal[e] \in DealOpenStates
    BY <1>7, <1>9 DEF ClosedWith, DealOpenStates
  <2> QED BY <2>1 DEF Others
<1>12. HomesOf(j.deal, {}) = {DealListing[j.deal]} BY DEF HomesOf
<1> HIDE DEF others
<1>13. CASE k = Idle /\ i.rest = {}
  <2>1. Others(s, j.deal) = {} BY <1>8, <1>11, <1>13
  <2>2. Did(s, t) BY <1>3, <1>9, <1>10, <1>12, <2>1 DEF Did
  <2>3. Return(w) BY <1>6, <1>13 DEF Return
  <2>4. Now' = t BY <1>4, SameNow DEF t
  <2> QED BY <1>1, <2>2, <2>3, <2>4, ReturnProgress DEF s
<1>14. CASE i.rest # {}
  <2>1. /\ k.at = "read" /\ k.call = "close" /\ k.lease = NoRow /\ k.action = "withdraw"
        /\ k.deal \in others /\ k.rest = others \ {k.deal} /\ others \subseteq Deals
    BY <1>8, <1>10, <1>14, VisitFields DEF DealJob
  <2>2. Others(s, j.deal) \ (k.rest \cup {k.deal}) = {} BY <1>11, <2>1
  <2>3. k.deal \in Others(s, j.deal) \ k.rest /\ k.rest \subseteq Others(s, j.deal) BY <1>11, <2>1
  <2>4. Withdrawing(k, s, t)
    <3> DEFINE done == Others(s, j.deal) \ (k.rest \cup {k.deal})
    <3>1. done = {} BY <2>2
    <3> HIDE DEF done
    <3>2. ClosedWith(s, t, j.deal, l, done) /\ Recomputed(s, t, HomesOf(j.deal, done))
      BY <1>3, <1>9, <1>12, <3>1
    <3>3. DealJob(k) BY <2>1 DEF DealJob
    <3> QED BY <1>10, <2>3, <3>2, <3>3 DEF Withdrawing, done
  <2>5. Story(k, s, t) BY <2>1, <2>4 DEF Story, Reading
  <2>6. ~BetweenCalls(k) BY <2>1 DEF BetweenCalls
  <2> QED BY <1>1, <1>4, <1>6, <2>5, <2>6, ReadOn DEF s, t
<1> QED BY <1>8, <1>13, <1>14, VisitFields

LEMMA LeaseProgress ==
  ASSUME IInv, NEW w \in Workers, LeaseCommit(w) \/ RenewTx(w), Story(job[w], settled, Now)
  PROVE  Progress(w)
<1> DEFINE j == job[w]  s == settled  t == Now  u == Now'
<1>1. job \in [Workers -> JobRows] /\ j \in JobRows BY DEF IInv, Jobs
<1>2. \/ LeaseCommit(w) /\ j.at = "lease_commit"
      \/ RenewTx(w) /\ j.at = "renew_tx"
  BY DEF LeaseCommit, RenewTx, At
<1>3. s = View(t) /\ OnOneLease(j) BY <1>2 DEF Story
<1>4. /\ s.deal = deal /\ s.agreement = agreement /\ s.lease = lease /\ s.status = status
      /\ s.doc = Latest(docs)
      /\ u.deal = deal' /\ u.docs = docs' /\ u.agreement = agreement' /\ u.lease = lease'
      /\ u.status = status'
  BY <1>3, ViewFields, NowFields
<1>5. ASSUME job' = [job EXCEPT ![w] = Recount(j)], UNCHANGED <<deal, docs, agreement, status>>,
             \/ j.call \in LeaseActions /\ LeaseMoved(s, u, j.lease, j.call)
             \/ j.call = "renew" /\ \E new \in Leases : RenewedTo(s, u, j.lease, new)
      PROVE  Progress(w)
  <2>1. PICK k : k = Recount(j) OBVIOUS
  <2>2. job' = [job EXCEPT ![w] = k] BY <1>5, <2>1
  <2> HIDE DEF j, s, t, u
  <2>3. /\ k.at = "recount" /\ k.reserving = "unknown" /\ k.live = "unknown"
        /\ k.call = j.call /\ k.lease = j.lease /\ k.rest = j.rest
    BY <1>1, <2>1, RecountFields
  <2>4. OnOneLease(k) BY <1>3, <2>3 DEF OnOneLease
  <2>5. Written(k, s, u) BY <1>4, <1>5, <2>3, <2>4 DEF Written
  <2>6. Story(k, s, u) /\ ~BetweenCalls(k) BY <2>3, <2>5, RecountStory
  <2> QED BY <1>1, <2>2, <2>6, WriteOn DEF s, u
<1>6. CASE LeaseCommit(w) /\ j.at = "lease_commit"
  <2>1. j.call \in LeaseActions /\ j.to \in LeaseTargets(s.lease[j.lease].status, j.call)
    BY <1>6 DEF Story
  <2>2. /\ lease' = [lease EXCEPT ![j.lease].status = j.to]
        /\ job' = [job EXCEPT ![w] = Recount(j)]
        /\ UNCHANGED <<deal, docs, agreement, status>>
    BY <1>6 DEF LeaseCommit
  <2>3. LeaseMoved(s, u, j.lease, j.call)
    <3> HIDE DEF j, s, t, u
    <3> QED BY <1>4, <2>1, <2>2 DEF LeaseMoved, LeaseTargets
  <2> QED BY <1>5, <2>1, <2>2, <2>3
<1>7. CASE RenewTx(w) /\ j.at = "renew_tx"
  <2>1. j.call = "renew" /\ LeaseTargets(s.lease[j.lease].status, "renew") # {}
    BY <1>7 DEF Story
  <2>2. CASE \E k \in Leases : lease[k].renewedFrom = j.lease
    <3>1. Return(w) /\ UNCHANGED db BY <1>7, <2>2 DEF RenewTx
    <3> QED BY <1>1, <1>3, <3>1, GivenUp
  <2>3. CASE \A k \in Leases : lease[k].renewedFrom # j.lease
    <3>1. PICK new \in Leases :
            /\ lease[new].status = "none" /\ LeaseListing[new] = LeaseListing[j.lease]
            /\ lease' = [lease EXCEPT ![j.lease].status = "renewed",
                                      ![new] = Renewal(j.lease)]
      BY <1>7, <2>3 DEF RenewTx
    <3>2. job' = [job EXCEPT ![w] = Recount(j)] /\ UNCHANGED <<deal, docs, agreement, status>>
      BY <1>7, <2>3 DEF RenewTx
    <3>3. <<s.lease[j.lease].status, "renew", "renewed">> \in LeaseTransitions
      BY <2>1 DEF LeaseTargets, LeaseTransitions
    <3>4. RenewedTo(s, u, j.lease, new)
      <4> HIDE DEF j, s, t, u
      <4> QED BY <1>4, <2>3, <3>1, <3>2, <3>3 DEF RenewedTo
    <3> QED BY <1>5, <2>1, <3>2, <3>4
  <2> QED BY <2>2, <2>3
<1> QED BY <1>2, <1>6, <1>7

LEMMA StepProgress ==
  ASSUME IInv, NEW r, settled = View(r), NEW w \in Workers, BeginCall(w) \/ Step(w),
         Story(job[w], settled, Now)
  PROVE  Progress(w)
BY BeginProgress, FindTwinProgress, InsertDealProgress, ReadProgress, CommitProgress, CountProgress,
   WriteStatusProgress, CheckSlotProgress, InsertDocProgress, StampDocProgress, PaperProgress,
   CloseChecksProgress, FindQueueProgress, CloseTxProgress, FindOthersProgress, LeaseProgress
   DEF Step

--------------------------------------------------------------------------------
(* One worker and no crash: its calls run one at a time and to their end.  *)
Serial == MayCrash = FALSE /\ \A v, w \in Workers : v = w

SerialInv ==
  /\ IInv /\ \A w \in Workers : Story(job[w], settled, Now)
  /\ \E r : settled = View(r)

LEMMA TablesView == Tables = View(Now) /\ Tables' = View(Now')
BY DEF Tables, View, Now, Latest

LEMMA InitSerialInv == SInit => SerialInv
<1> SUFFICES ASSUME SInit PROVE SerialInv OBVIOUS
<1>1. IInv BY InitIInv DEF SInit
<1>2. settled = View(Now) BY TablesView DEF SInit
<1>3. \A w \in Workers : job[w] = Idle BY DEF SInit, Init
<1> QED BY <1>1, <1>2, <1>3, IdleStory DEF SerialInv

LEMMA NextSerialInv ==
  ASSUME Serial, SerialInv, [SNext]_<<vars, settled>>
  PROVE  SerialInv' /\ (Lifecycle!Next \/ settled' = settled)
<1>1. CASE UNCHANGED <<vars, settled>>
  <2>1. UNCHANGED vars /\ settled' = settled BY <1>1
  <2>2. IInv' BY <2>1, NextIInv DEF SerialInv
  <2>3. Now' = Now BY <2>1, SameNow DEF vars
  <2>4. job' = job BY <2>1 DEF vars
  <2> QED BY <2>1, <2>2, <2>3, <2>4 DEF SerialInv
<1>2. CASE SNext
  <2>1. IInv' BY <1>2, NextIInv DEF SNext, SerialInv
  <2>2. PICK w \in Workers : BeginCall(w) \/ Step(w)
    BY <1>2 DEF SNext, Next, Crash, Serial
  <2>3. \A v \in Workers : v = w BY DEF Serial
  <2>4. Progress(w) BY <2>2, StepProgress DEF SerialInv
  <2>5. (\A v \in Workers : BetweenCalls(job'[v])) <=> BetweenCalls(job'[w]) BY <2>3
  <2>6. settled' = IF BetweenCalls(job'[w]) THEN View(Now') ELSE settled
    <3>1. Tables' = View(Now') BY TablesView
    <3> QED BY <1>2, <2>5, <3>1 DEF SNext
  <2>7. Story(job'[w], settled', Now') BY <2>4, <2>6 DEF Progress
  <2>8. \E r : settled' = View(r) BY <2>6 DEF SerialInv
  <2>9. Lifecycle!Next \/ settled' = settled
    <3>1. CASE BetweenCalls(job'[w])
      <4>1. settled' = View(Now') /\ Did(settled, Now') BY <2>4, <2>6, <3>1 DEF Progress
      <4> QED BY <4>1, DoneRefined
    <3>2. CASE ~BetweenCalls(job'[w]) BY <2>6, <3>2
    <3> QED BY <3>1, <3>2
  <2> QED BY <2>1, <2>3, <2>7, <2>8, <2>9 DEF SerialInv
<1> QED BY <1>1, <1>2

(* Refinement: when one worker makes the calls, one after the other and    *)
(* each to its end, every call is as a whole one handler of DealLifecycle, *)
(* run at once, or changes nothing, for any number of deals, leases and    *)
(* homes: no check a handler makes on its way, no count of a recompute and *)
(* no row of close()'s loop is lost between its steps.                     *)
THEOREM SerialImplementsLifecycle == Serial => (SSpec => ImplementsLifecycle)
<1> SUFFICES ASSUME Serial PROVE SSpec => ImplementsLifecycle OBVIOUS
<1>1. SerialInv /\ [SNext]_<<vars, settled>> => SerialInv'
  BY NextSerialInv
<1>2. SerialInv /\ [SNext]_<<vars, settled>> => [Lifecycle!Next]_(Lifecycle!vars)
  BY NextSerialInv DEF Lifecycle!vars
<1> QED BY <1>1, <1>2, InitSerialInv, InitRefined, PTL DEF SSpec, ImplementsLifecycle, Lifecycle!Spec
================================================================================
