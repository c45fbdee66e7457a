------------------------------- MODULE DealSteps -------------------------------
(***************************************************************************)
(* The handlers of DealLifecycle split where the code awaits the database. *)
(* A worker is one request or job in flight; between two of its steps any  *)
(* other worker may run.  PostgreSQL is used at READ COMMITTED, so a step  *)
(* is one statement or one transaction, and a write by id does not check   *)
(* that the row still is what an earlier step of its handler read.         *)
(*                                                                         *)
(* Duties names the calls a worker may make, so that a run can say which   *)
(* handlers overlap.  A worker whose request fails, or whose process dies, *)
(* leaves what it has written and forgets the rest.                        *)
(***************************************************************************)
EXTENDS GuriTables, Naturals, Sequences, FiniteSets

CONSTANTS Deals, Leases, Listings, Customers,
          DealListing, DealCustomer, LeaseListing, NoRow,
          Workers,
          Duties,    \* the calls each worker may make
          MayCrash,  \* whether a call can be cut short between two steps
          MaxDocs    \* bound: no upload starts once there are so many documents

Calls == {"request", "select", "upload", "verify", "generate", "sign", "close",
          "reschedule_viewing", "decline_request", "record_no_show", "record_declined",
          "record_proceeding", "withdraw", "expire_requests", "expire_viewings",
          "mark_ending_soon", "renew", "record_move_out"}

ASSUME DealStepsAssumption ==
  /\ DealListing \in [Deals -> Listings]
  /\ DealCustomer \in [Deals -> Customers]
  /\ LeaseListing \in [Leases -> Listings]
  /\ NoRow \notin Deals \cup Leases
  /\ Duties \in [Workers -> SUBSET Calls]
  /\ MayCrash \in BOOLEAN
  /\ MaxDocs \in Nat \ {0}

VARIABLES
  deal,       \* deals.state, or NoDeal before the insert
  docs,       \* the statuses of the deal's customer_documents, oldest first
  agreement,  \* none, generated, or signed (signed_scan_key is set)
  lease,      \* lease rows: status, originating deal, renewed-from lease
  status,     \* listings.status, the persisted derivation
  job         \* what each worker is in the middle of

db == <<deal, docs, agreement, lease, status>>
vars == <<db, job>>

--------------------------------------------------------------------------------
(* Jobs.  `at' is the step to do next; deal or lease the row being worked  *)
(* on; action and to a pending transition and the state it leads to; doc   *)
(* the document being decided; rest the rows still to visit; reserving and *)
(* live the two counts of a recompute, once they are known.                *)

Steps == {"find_twin", "insert_deal", "check_slot", "insert_doc", "read", "commit",
          "recount", "stamp_doc", "check_lease", "check_scan", "find_queue",
          "close_tx", "find_others", "write_paper", "write_scan",
          "lease_commit", "renew_tx"}

Counts == {"unknown", "some", "none"}

JobRows == [at : Steps \cup {"idle"}, call : Calls \cup {"none"},
            deal : Deals \cup {NoRow}, lease : Leases \cup {NoRow},
            action : {t[2] : t \in DealTransitions} \cup {"none"},
            to : DealStates \cup LeaseStatuses \cup {"none"},
            doc : Nat, rest : SUBSET Deals, reserving : Counts, live : Counts]

Idle == [at |-> "idle", call |-> "none", deal |-> NoRow, lease |-> NoRow,
         action |-> "none", to |-> "none", doc |-> 0, rest |-> {},
         reserving |-> "unknown", live |-> "unknown"]

TypeOK ==
  /\ deal \in [Deals -> DealStates \cup {NoDeal}]
  /\ docs \in [Deals -> Seq({"pending", "approved", "rejected"})]
  /\ agreement \in [Deals -> {"none", "generated", "signed"}]
  /\ lease \in [Leases -> [status : LeaseStatuses \cup {"none"},
                           deal : Deals \cup {NoRow},
                           renewedFrom : Leases \cup {NoRow}]]
  /\ status \in [Listings -> ListingStatuses]
  /\ job \in [Workers -> JobRows]

Init ==
  /\ deal = [d \in Deals |-> NoDeal]
  /\ docs = [d \in Deals |-> << >>]
  /\ agreement = [d \in Deals |-> "none"]
  /\ lease = [l \in Leases |-> [status |-> "none", deal |-> NoRow, renewedFrom |-> NoRow]]
  /\ status = [h \in Listings |-> "available"]
  /\ job = [w \in Workers |-> Idle]

At(w, step) == job[w].at = step

Begin(w, call, j) ==
  /\ At(w, "idle") /\ call \in Duties[w]
  /\ job' = [job EXCEPT ![w] = [j EXCEPT !.call = call]]

On(d, step) == [Idle EXCEPT !.deal = d, !.at = step]
OnLease(l, step) == [Idle EXCEPT !.lease = l, !.at = step]

Goto(w, step) == job' = [job EXCEPT ![w].at = step]

Return(w) == job' = [job EXCEPT ![w] = Idle]

(* A check: go on, or answer with an error.                                *)
Require(w, condition, step) == IF condition THEN Goto(w, step) ELSE Return(w)

(* Mutant: a loop's second visit reuses the counts of its first.           *)
Recount_KeepsCounts(j) == [j EXCEPT !.at = "recount", !.action = "none", !.to = "none"]

(* The recompute that follows every write to a deal or a lease.            *)
Recount(j) == [j EXCEPT !.at = "recount", !.action = "none", !.to = "none",
                        !.reserving = "unknown", !.live = "unknown"]

(* A loop over deals visits them in any order; the next visit starts with  *)
(* transition()'s read, and a loop with nothing left returns.              *)
Visits(j) ==
  IF j.rest = {} THEN {Idle}
  ELSE {[j EXCEPT !.at = "read", !.deal = e, !.rest = @ \ {e}] : e \in j.rest}

Continue(w, j) == \E k \in Visits(j) : job' = [job EXCEPT ![w] = k]

--------------------------------------------------------------------------------
(* Queries.                                                                *)

DealsOn(home) == {d \in Deals : DealListing[d] = home}

Reserving(home) == {d \in DealsOn(home) : deal[d] \in DealReservingStates}

Live(home) ==
  {l \in Leases : LeaseListing[l] = home /\ lease[l].status \in LeaseLiveStatuses}

(* Mutant: only a viewing counts as holding the slot.                      *)
SlotFree_ViewingsOnly(d) ==
  \A e \in DealsOn(DealListing[d]) \ {d} : deal[e] # "viewing_scheduled"

SlotFree(d) == Reserving(DealListing[d]) \subseteq {d}

OpenTwins(d) ==
  {e \in DealsOn(DealListing[d]) :
      DealCustomer[e] = DealCustomer[d] /\ deal[e] \in DealOpenStates}

Home(j) == IF j.lease # NoRow THEN LeaseListing[j.lease] ELSE DealListing[j.deal]

--------------------------------------------------------------------------------
(* createRequest                                                           *)

BeginRequest(w, d) ==
  /\ deal[d] = NoDeal
  /\ status[DealListing[d]] \in {"available", "reserved"}
  /\ Begin(w, "request", On(d, "find_twin"))
  /\ UNCHANGED db

FindTwin(w) ==
  /\ At(w, "find_twin")
  /\ Require(w, OpenTwins(job[w].deal) = {}, "insert_deal")
  /\ UNCHANGED db

(* The insert makes a new row: one that no other request has taken.        *)
InsertDeal(w) ==
  /\ At(w, "insert_deal")
  /\ \E d \in Deals :
        /\ deal[d] = NoDeal
        /\ DealListing[d] = DealListing[job[w].deal]
        /\ DealCustomer[d] = DealCustomer[job[w].deal]
        /\ deal' = [deal EXCEPT ![d] = "requested"]
        /\ job' = [job EXCEPT ![w] = Recount([@ EXCEPT !.deal = d])]
  /\ UNCHANGED <<docs, agreement, lease, status>>

--------------------------------------------------------------------------------
(* The state a table row takes the row being handled to, if it has one.    *)
Targets(from, action) ==
  {to \in DealStates : <<from, action, to>> \in DealTransitions}

LeaseTargets(from, action) ==
  {to \in LeaseStatuses : <<from, action, to>> \in LeaseTransitions}

(* transition(): read and validate, then write and log in one transaction, *)
(* then recompute.                                                         *)

Read(w) ==
  LET j == job[w] IN
  /\ At(w, "read")
  /\ \/ \E to \in Targets(deal[j.deal], j.action) :
           job' = [job EXCEPT ![w].at = "commit", ![w].to = to]
     \/ Targets(deal[j.deal], j.action) = {} /\ Return(w)
  /\ UNCHANGED db

Commit(w) ==
  LET j == job[w] IN
  /\ At(w, "commit")
  /\ deal' = [deal EXCEPT ![j.deal] = j.to]
  /\ job' = [job EXCEPT ![w] = [Recount(j) EXCEPT !.action = j.action]]
  /\ UNCHANGED <<docs, agreement, lease, status>>

(* The two counts run as two queries, each on its own snapshot.            *)
CountReserving(w) ==
  /\ At(w, "recount") /\ job[w].reserving = "unknown"
  /\ job' = [job EXCEPT ![w].reserving =
               IF Reserving(Home(job[w])) # {} THEN "some" ELSE "none"]
  /\ UNCHANGED db

CountLive(w) ==
  /\ At(w, "recount") /\ job[w].live = "unknown"
  /\ job' = [job EXCEPT ![w].live = IF Live(Home(job[w])) # {} THEN "some" ELSE "none"]
  /\ UNCHANGED db

(* The last write of recomputeStatus, and where each handler goes on.      *)
WriteStatus(w) ==
  LET j == job[w] IN
  /\ At(w, "recount") /\ j.reserving # "unknown" /\ j.live # "unknown"
  /\ status' = [status EXCEPT ![Home(j)] =
                  DeriveListingStatus(j.live = "some", j.reserving = "some")]
  /\ CASE j.call = "verify" -> Goto(w, "stamp_doc")
       [] j.call = "close" /\ j.action # "withdraw" -> Goto(w, "find_others")
       [] OTHER -> Continue(w, j)
  /\ UNCHANGED <<deal, docs, agreement, lease>>

--------------------------------------------------------------------------------
(* The handlers that are a transition, and select, which first looks for   *)
(* another deal in the active slot.                                        *)

PlainActions == {"reschedule_viewing", "decline_request", "record_no_show",
                 "record_declined", "record_proceeding", "withdraw"}

BeginPlain(w, d, action) ==
  /\ \E to \in Targets(deal[d], action) :
        Begin(w, action, [On(d, "commit") EXCEPT !.action = action, !.to = to])
  /\ UNCHANGED db

BeginSelect(w, d) ==
  /\ deal[d] # NoDeal
  /\ SlotFree(d)
  /\ Begin(w, "select", [On(d, "read") EXCEPT !.action = "schedule_viewing"])
  /\ UNCHANGED db

(* The two deal timers: a batch of rows old enough is read first, then     *)
(* each is expired by a transition of its own; one refusal ends the batch. *)
BeginExpiry(w, call, from) ==
  \E batch \in (SUBSET {d \in Deals : deal[d] = from}) \ {{}} :
    \E j \in Visits([Idle EXCEPT !.action = "expire", !.rest = batch]) :
       /\ Begin(w, call, j)
       /\ UNCHANGED db

--------------------------------------------------------------------------------
(* documents: upload and verify                                            *)

(* The customer_documents rows there are.                                  *)
Documents == {e \in Deals \X (1 .. MaxDocs) : e[2] <= Len(docs[e[1]])}

BeginUpload(w, d) ==
  /\ Cardinality(Documents) < MaxDocs
  /\ deal[d] \in {"awaiting_docs", "docs_rejected"}
  /\ Begin(w, "upload",
           IF deal[d] = "awaiting_docs"
           THEN [On(d, "insert_doc") EXCEPT !.action = "submit_documents"]
           ELSE [On(d, "check_slot") EXCEPT !.action = "resubmit_documents"])
  /\ UNCHANGED db

CheckSlot(w) ==
  /\ At(w, "check_slot")
  /\ Require(w, SlotFree(job[w].deal), "insert_doc")
  /\ UNCHANGED db

InsertDoc(w) ==
  /\ At(w, "insert_doc")
  /\ docs' = [docs EXCEPT ![job[w].deal] = Append(@, "pending")]
  /\ Goto(w, "read")
  /\ UNCHANGED <<deal, agreement, lease, status>>

BeginVerify(w, d, action) ==
  /\ docs[d] # << >> /\ docs[d][Len(docs[d])] = "pending"
  /\ Begin(w, "verify", [On(d, "read") EXCEPT !.action = action, !.doc = Len(docs[d])])
  /\ UNCHANGED db

StampDoc(w) ==
  LET j == job[w] IN
  /\ At(w, "stamp_doc")
  /\ docs' = [docs EXCEPT ![j.deal][j.doc] =
                IF j.action = "approve_documents" THEN "approved" ELSE "rejected"]
  /\ Return(w)
  /\ UNCHANGED <<deal, agreement, lease, status>>

--------------------------------------------------------------------------------
(* agreements: generate (a new paper voids the scan) and uploadSigned      *)

BeginGenerate(w, d) ==
  /\ deal[d] = "approved"
  /\ Begin(w, "generate", On(d, "write_paper"))
  /\ UNCHANGED db

WritePaper(w) ==
  /\ At(w, "write_paper")
  /\ agreement' = [agreement EXCEPT ![job[w].deal] = "generated"]
  /\ Return(w)
  /\ UNCHANGED <<deal, docs, lease, status>>

BeginSign(w, d) ==
  /\ agreement[d] # "none"
  /\ Begin(w, "sign", On(d, "write_scan"))
  /\ UNCHANGED db

WriteScan(w) ==
  /\ At(w, "write_scan")
  /\ agreement' = [agreement EXCEPT ![job[w].deal] = "signed"]
  /\ Return(w)
  /\ UNCHANGED <<deal, docs, lease, status>>

--------------------------------------------------------------------------------
(* close: four checks, one transaction, a recompute, then the customer's   *)
(* other open deals are withdrawn one transition at a time.                *)

BeginClose(w, d) ==
  /\ deal[d] = "approved"
  /\ Begin(w, "close", On(d, "check_lease"))
  /\ UNCHANGED db

(* Mutant: a lease in its last month no longer blocks a close.             *)
CheckLease_EndingIgnored(w) ==
  /\ At(w, "check_lease")
  /\ Require(w, \A l \in Live(DealListing[job[w].deal]) : lease[l].status # "active",
             "check_scan")
  /\ UNCHANGED db

CheckLease(w) ==
  /\ At(w, "check_lease")
  /\ Require(w, Live(DealListing[job[w].deal]) = {}, "check_scan")
  /\ UNCHANGED db

CheckScan(w) ==
  /\ At(w, "check_scan")
  /\ Require(w, agreement[job[w].deal] = "signed", "find_queue")
  /\ UNCHANGED db

FindQueue(w) ==
  LET d == job[w].deal IN
  /\ At(w, "find_queue")
  /\ job' = [job EXCEPT ![w].at = "close_tx",
                        ![w].rest = {e \in DealsOn(DealListing[d]) \ {d} :
                                        deal[e] = "requested"}]
  /\ UNCHANGED db

(* leases.deal_id is unique: a second lease of the deal aborts the whole   *)
(* transaction.                                                            *)
CloseTx(w) ==
  LET j == job[w] IN
  /\ At(w, "close_tx")
  /\ IF \E k \in Leases : lease[k].deal = j.deal
     THEN Return(w) /\ UNCHANGED db
     ELSE /\ \E l \in Leases :
                /\ lease[l].status = "none" /\ LeaseListing[l] = DealListing[j.deal]
                /\ lease' = [lease EXCEPT ![l] =
                     [status |-> "active", deal |-> j.deal, renewedFrom |-> NoRow]]
          /\ deal' = [d \in Deals |-> IF d = j.deal THEN "closed"
                                      ELSE IF d \in j.rest THEN "expired"
                                      ELSE deal[d]]
          /\ job' = [job EXCEPT ![w] = Recount([j EXCEPT !.rest = {}])]
          /\ UNCHANGED <<docs, agreement, status>>

FindOthers(w) ==
  LET j == job[w]
      others == {e \in Deals \ {j.deal} : /\ DealCustomer[e] = DealCustomer[j.deal]
                                          /\ deal[e] \in DealOpenStates}
  IN /\ At(w, "find_others")
     /\ Continue(w, [j EXCEPT !.rest = others, !.action = "withdraw"])
     /\ UNCHANGED db

--------------------------------------------------------------------------------
(* leases: the ending-soon timer, the move-out, the renewal                *)

(* Mutant: the action is looked up without the status it starts from.      *)
BeginLease_AnyStatus(w, l, action) ==
  /\ lease[l].status # "none"
  /\ \E to \in UNION {LeaseTargets(from, action) : from \in LeaseStatuses} :
        Begin(w, action, [OnLease(l, "lease_commit") EXCEPT !.to = to])
  /\ UNCHANGED db

BeginLease(w, l, action) ==
  /\ \E to \in LeaseTargets(lease[l].status, action) :
        Begin(w, action, [OnLease(l, "lease_commit") EXCEPT !.to = to])
  /\ UNCHANGED db

LeaseCommit(w) ==
  LET j == job[w] IN
  /\ At(w, "lease_commit")
  /\ lease' = [lease EXCEPT ![j.lease].status = j.to]
  /\ job' = [job EXCEPT ![w] = Recount(j)]
  /\ UNCHANGED <<deal, docs, agreement, status>>

BeginRenew(w, l) ==
  /\ LeaseTargets(lease[l].status, "renew") # {}
  /\ Begin(w, "renew", OnLease(l, "renew_tx"))
  /\ UNCHANGED db

(* Mutant: the old row is copied with its deal.                            *)
Renewal_CopiesDeal(l) == [status |-> "active", deal |-> lease[l].deal, renewedFrom |-> l]

(* The row a renewal inserts: no deal of its own, linked to the old lease. *)
Renewal(l) == [status |-> "active", deal |-> NoRow, renewedFrom |-> l]

(* leases.renewed_from_lease_id is unique.                                 *)
RenewTx(w) ==
  LET j == job[w] IN
  /\ At(w, "renew_tx")
  /\ IF \E k \in Leases : lease[k].renewedFrom = j.lease
     THEN Return(w) /\ UNCHANGED db
     ELSE /\ \E new \in Leases :
                /\ lease[new].status = "none" /\ LeaseListing[new] = LeaseListing[j.lease]
                /\ lease' = [lease EXCEPT ![j.lease].status = "renewed",
                                          ![new] = Renewal(j.lease)]
          /\ job' = [job EXCEPT ![w] = Recount(j)]
          /\ UNCHANGED <<deal, docs, agreement, status>>

--------------------------------------------------------------------------------
Crash(w) ==
  /\ MayCrash /\ ~At(w, "idle")
  /\ Return(w)
  /\ UNCHANGED db

BeginCall(w) ==
  \/ \E d \in Deals :
        \/ BeginRequest(w, d) \/ BeginSelect(w, d) \/ BeginUpload(w, d)
        \/ \E action \in PlainActions : BeginPlain(w, d, action)
        \/ \E action \in {"approve_documents", "reject_documents"} : BeginVerify(w, d, action)
        \/ BeginGenerate(w, d) \/ BeginSign(w, d) \/ BeginClose(w, d)
  \/ BeginExpiry(w, "expire_requests", "requested")
  \/ BeginExpiry(w, "expire_viewings", "viewing_scheduled")
  \/ \E l \in Leases :
        \/ \E action \in {"mark_ending_soon", "record_move_out"} : BeginLease(w, l, action)
        \/ BeginRenew(w, l)

Step(w) ==
  \/ FindTwin(w) \/ InsertDeal(w)
  \/ Read(w) \/ Commit(w) \/ CountReserving(w) \/ CountLive(w) \/ WriteStatus(w)
  \/ CheckSlot(w) \/ InsertDoc(w) \/ StampDoc(w) \/ WritePaper(w) \/ WriteScan(w)
  \/ CheckLease(w) \/ CheckScan(w) \/ FindQueue(w) \/ CloseTx(w) \/ FindOthers(w)
  \/ LeaseCommit(w) \/ RenewTx(w)

Next == \E w \in Workers : BeginCall(w) \/ Step(w) \/ Crash(w)

Spec == Init /\ [][Next]_vars
--------------------------------------------------------------------------------
(* PROPERTIES.  Each run of the MC module says which calls may overlap.    *)

(* At most one deal holds a home's active slot (deal-state.service.ts:308). *)
OneReservingDeal == \A h \in Listings : \A d, e \in Reserving(h) : d = e

(* A home has one live lease at most, "ever" (deal-state.service.ts:420).  *)
OneLiveLease == \A h \in Listings : \A k, l \in Live(h) : k = l

(* A closed deal has its lease, and no deal ever has two: the lease and    *)
(* the closed state appear together and the unique deal_id settles a race  *)
(* of two closes.                                                          *)
ClosedDealHasLease ==
  \A d \in Deals :
     /\ deal[d] = "closed" => \E l \in Leases : lease[l].deal = d
     /\ \A k, l \in Leases : lease[k].deal = d /\ lease[l].deal = d => k = l

(* A lease that was renewed or vacated never becomes live again.           *)
EndedLeaseStaysEnded ==
  [][\A l \in Leases :
        lease[l].status \in {"renewed", "vacated"} => lease'[l].status = lease[l].status]_vars

--------------------------------------------------------------------------------
(* WHAT THE TEXTS PROMISE AND THE CODE DOES NOT ALWAYS KEEP.  No run       *)
(* checks these; README.md tells the steps that break each of them.        *)

(* The status is the derivation whenever no call is half done.             *)
StatusDerivedWhenQuiet ==
  (\A w \in Workers : At(w, "idle")) =>
     \A h \in Listings :
        status[h] = DeriveListingStatus(Live(h) # {}, Reserving(h) # {})

(* A deal that reached a decision keeps it (SPEC.md:99 calls these states  *)
(* terminal), except a rejected one that is uploaded again.                *)
DecidedStaysDecided ==
  [][\A d \in Deals :
        deal[d] \in DealTerminalStates /\ deal'[d] # deal[d]
          => deal[d] = "docs_rejected" /\ deal'[d] = "docs_in_review"]_vars

(* No deal closes without the signed scan of its agreement on file         *)
(* (deal-state.service.ts:411 checks it; SPEC.md:337 wants it of all).     *)
ClosedDealHasScan == \A d \in Deals : deal[d] = "closed" => agreement[d] = "signed"
================================================================================
