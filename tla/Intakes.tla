-------------------------------- MODULE Intakes --------------------------------
(***************************************************************************)
(* Owner intakes: a house submitted by its owner to one agency, which      *)
(* accepts or declines it, meets the owner, and converts it into a draft   *)
(* listing.  Handlers are split where they await the database; every       *)
(* status write is by id alone, on the strength of an earlier read.        *)
(*                                                                         *)
(* A worker is one request or one run of the timer in flight; Duties names *)
(* the calls it may make.  Time is two flags of a row: `aged' (createdAt   *)
(* is more than five days ago) and the auxiliary `waited' (its present     *)
(* agency has had it for five days).                                       *)
(***************************************************************************)
CONSTANTS Intakes, Agencies, Drafts, Users,
          OwnerOf,   \* the user who submitted an intake
          Null,
          Workers, Duties,
          MayCrash   \* whether a call can be cut short between two steps

IntakeCalls == {"submit", "reassign", "accept", "decline", "convert", "expire"}

ASSUME IntakesAssumption ==
  /\ OwnerOf \in [Intakes -> Users]
  /\ Null \notin Intakes \cup Agencies \cup Drafts
  /\ Duties \in [Workers -> SUBSET IntakeCalls]
  /\ MayCrash \in BOOLEAN

VARIABLES
  status,    \* intakes.status, or none before the insert
  agency,    \* intakes.agency_id
  listing,   \* intakes.listing_id
  draft,     \* draft listings made by convert: their intake and agency
  published, \* drafts the agency has published
  ties,      \* owners rows: a user linked to an agency
  active,    \* agencies that are neither pending nor suspended
  aged, waited,
  notices,   \* dedupe keys of the notifications recorded so far
  told,      \* intakes whose present agency has been sent the lead
  prompted,  \* expired intakes whose owner has been prompted
  job

rows == <<status, agency, listing, draft, ties>>
clock == <<aged, waited>>
bell == <<notices, told, prompted>>
vars == <<rows, published, active, clock, bell, job>>

IntakeStatuses == {"submitted", "accepted", "converted", "declined", "expired"}

IntakeTransitions ==
  {<<"none", "submit", "submitted">>,
   <<"submitted", "accept", "accepted">>,
   <<"submitted", "decline", "declined">>,
   <<"submitted", "expire", "expired">>,
   <<"accepted", "convert", "converted">>,
   <<"accepted", "abandon", "declined">>,
   <<"declined", "reassign", "submitted">>,
   <<"expired", "reassign", "submitted">>}

(* nextStatus: defined only for a row of the table.                        *)
May(i, action) == \E to \in IntakeStatuses : <<status[i], action, to>> \in IntakeTransitions

Steps == {"insert", "announce", "resend", "decide", "tie", "draft", "converted",
          "expired", "prompt"}

JobRows == [at : Steps \cup {"idle"}, intake : Intakes \cup {Null},
            agency : Agencies \cup {Null}, to : IntakeStatuses \cup {"none"},
            draft : Drafts \cup {Null}, rest : SUBSET Intakes]

Idle == [at |-> "idle", intake |-> Null, agency |-> Null, to |-> "none",
         draft |-> Null, rest |-> {}]

NewLead(i, a) == <<"intake_new_lead", i, a>>
Expired(i) == <<"intake_expired", i>>

TypeOK ==
  /\ status \in [Intakes -> IntakeStatuses \cup {"none"}]
  /\ agency \in [Intakes -> Agencies \cup {Null}]
  /\ listing \in [Intakes -> Drafts \cup {Null}]
  /\ draft \in [Drafts -> [intake : Intakes \cup {Null}, agency : Agencies \cup {Null}]]
  /\ published \subseteq Drafts
  /\ ties \subseteq Users \X Agencies
  /\ active \subseteq Agencies
  /\ aged \subseteq Intakes /\ waited \subseteq aged
  /\ told \subseteq Intakes /\ prompted \subseteq Intakes
  /\ notices \subseteq {NewLead(i, a) : i \in Intakes, a \in Agencies}
                       \cup {Expired(i) : i \in Intakes}
  /\ job \in [Workers -> JobRows]

NoDraft == [intake |-> Null, agency |-> Null]

Init ==
  /\ status = [i \in Intakes |-> "none"]
  /\ agency = [i \in Intakes |-> Null]
  /\ listing = [i \in Intakes |-> Null]
  /\ draft = [d \in Drafts |-> NoDraft]
  /\ published = {} /\ ties = {} /\ active = Agencies
  /\ aged = {} /\ waited = {}
  /\ notices = {} /\ told = {} /\ prompted = {}
  /\ job = [w \in Workers |-> Idle]

--------------------------------------------------------------------------------
Begin(w, call, j) ==
  /\ job[w].at = "idle" /\ call \in Duties[w]
  /\ job' = [job EXCEPT ![w] = j]
  /\ UNCHANGED <<rows, published, active, clock, bell>>

Row(i, a, step, to, rest) ==
  [at |-> step, intake |-> i, agency |-> a, to |-> to, draft |-> Null, rest |-> rest]

On(i, a, step) == Row(i, a, step, "none", {})

Goto(w, step) == job' = [job EXCEPT ![w].at = step]
Return(w) == job' = [job EXCEPT ![w] = Idle]

(* notify() with a dedupe key: at most one notification per key, ever.     *)
Notify(key, i, seen) == IF key \in notices THEN seen ELSE seen \cup {i}

(* The owner's calls.  Any active agency may be picked, the one that has   *)
(* just declined included.                                                 *)
BeginSubmit(w, i, a) ==
  /\ May(i, "submit") /\ a \in active
  /\ Begin(w, "submit", On(i, a, "insert"))

(* Mutant: the table is not asked.                                         *)
BeginReassign_Anytime(w, i, a) ==
  /\ status[i] # "none" /\ a \in active
  /\ Begin(w, "reassign", On(i, a, "resend"))

BeginReassign(w, i, a) ==
  /\ May(i, "reassign") /\ a \in active
  /\ Begin(w, "reassign", On(i, a, "resend"))

(* The agency's calls: its own leads only, and only while it is active.    *)
BeginAccept(w, i) ==
  /\ May(i, "accept") /\ agency[i] \in active
  /\ Begin(w, "accept", Row(i, agency[i], "decide", "accepted", {}))

BeginDecline(w, i) ==
  /\ May(i, IF status[i] = "accepted" THEN "abandon" ELSE "decline")
  /\ agency[i] \in active
  /\ Begin(w, "decline", Row(i, agency[i], "decide", "declined", {}))

BeginConvert(w, i) ==
  /\ May(i, "convert") /\ agency[i] \in active
  /\ Begin(w, "convert", On(i, agency[i], "tie"))

(* The timer reads its whole batch first and trusts it for each row.       *)
Visits(batch) ==
  IF batch = {} THEN {Idle}
  ELSE {Row(i, Null, "expired", "none", batch \ {i}) : i \in batch}

(* Mutant: only leads whose agency is active are expired.                  *)
Stale_ActiveOnly == {i \in aged : status[i] = "submitted" /\ agency[i] \in active}

Stale == {i \in aged : status[i] = "submitted"}

BeginExpire(w) ==
  /\ Stale # {}
  /\ \E j \in Visits(Stale) : Begin(w, "expire", j)

--------------------------------------------------------------------------------
(* The insert makes a new row of this owner, one no other submission took. *)
Insert(w) ==
  /\ job[w].at = "insert"
  /\ \E i \in Intakes :
        /\ status[i] = "none" /\ OwnerOf[i] = OwnerOf[job[w].intake]
        /\ status' = [status EXCEPT ![i] = "submitted"]
        /\ agency' = [agency EXCEPT ![i] = job[w].agency]
        /\ job' = [job EXCEPT ![w].at = "announce", ![w].intake = i]
  /\ UNCHANGED <<listing, draft, ties, published, active, clock, bell>>

(* createdAt, the timer's clock, stays that of the first submission.       *)
Resend(w) ==
  LET i == job[w].intake IN
  /\ job[w].at = "resend"
  /\ status' = [status EXCEPT ![i] = "submitted"]
  /\ agency' = [agency EXCEPT ![i] = job[w].agency]
  /\ Goto(w, "announce")
  /\ waited' = waited \ {i}
  /\ told' = told \ {i} /\ prompted' = prompted \ {i}
  /\ UNCHANGED <<listing, draft, ties, published, active, aged, notices>>

Announce(w) ==
  LET i == job[w].intake  key == NewLead(i, job[w].agency) IN
  /\ job[w].at = "announce"
  /\ told' = Notify(key, i, told)
  /\ notices' = notices \cup {key}
  /\ Return(w)
  /\ UNCHANGED <<rows, published, active, clock, prompted>>

Decide(w) ==
  /\ job[w].at = "decide"
  /\ status' = [status EXCEPT ![job[w].intake] = job[w].to]
  /\ Return(w)
  /\ UNCHANGED <<agency, listing, draft, ties, published, active, clock, bell>>

(* The owner link is an upsert: a second convert finds it there.           *)
Tie(w) ==
  /\ job[w].at = "tie"
  /\ ties' = ties \cup {<<OwnerOf[job[w].intake], job[w].agency>>}
  /\ Goto(w, "draft")
  /\ UNCHANGED <<status, agency, listing, draft, published, active, clock, bell>>

CreateDraft(w) ==
  /\ job[w].at = "draft"
  /\ \E d \in Drafts :
        /\ draft[d] = NoDraft
        /\ draft' = [draft EXCEPT ![d] = [intake |-> job[w].intake, agency |-> job[w].agency]]
        /\ job' = [job EXCEPT ![w].at = "converted", ![w].draft = d]
  /\ UNCHANGED <<status, agency, listing, ties, published, active, clock, bell>>

(* Mutant: the intake is marked converted and its listing forgotten.       *)
Convert_Unlinked(w) ==
  /\ job[w].at = "converted"
  /\ status' = [status EXCEPT ![job[w].intake] = "converted"]
  /\ Return(w)
  /\ UNCHANGED <<agency, listing, draft, ties, published, active, clock, bell>>

Convert(w) ==
  LET j == job[w] IN
  /\ j.at = "converted"
  /\ status' = [status EXCEPT ![j.intake] = "converted"]
  /\ listing' = [listing EXCEPT ![j.intake] = j.draft]
  /\ Return(w)
  /\ UNCHANGED <<agency, draft, ties, published, active, clock, bell>>

Expire(w) ==
  /\ job[w].at = "expired"
  /\ status' = [status EXCEPT ![job[w].intake] = "expired"]
  /\ Goto(w, "prompt")
  /\ UNCHANGED <<agency, listing, draft, ties, published, active, clock, bell>>

Prompt(w) ==
  LET i == job[w].intake IN
  /\ job[w].at = "prompt"
  /\ prompted' = Notify(Expired(i), i, prompted)
  /\ notices' = notices \cup {Expired(i)}
  /\ \E j \in Visits(job[w].rest) : job' = [job EXCEPT ![w] = j]
  /\ UNCHANGED <<rows, published, active, clock, told>>

Crash(w) ==
  /\ MayCrash /\ job[w].at # "idle"
  /\ Return(w)
  /\ UNCHANGED <<rows, published, active, clock, bell>>

--------------------------------------------------------------------------------
(* Around the handlers: the agency publishes a draft, the platform admin   *)
(* suspends and reactivates agencies, days go by.                          *)
Publish(d) ==
  /\ draft[d] # NoDraft /\ draft[d].agency \in active /\ d \notin published
  /\ published' = published \cup {d}
  /\ UNCHANGED <<rows, active, clock, bell, job>>

SetActive(a) ==
  /\ active' = IF a \in active THEN active \ {a} ELSE active \cup {a}
  /\ UNCHANGED <<rows, published, clock, bell, job>>

FiveDaysPass(i) ==
  /\ status[i] # "none" /\ i \notin waited
  /\ aged' = aged \cup {i} /\ waited' = waited \cup {i}
  /\ UNCHANGED <<rows, published, active, bell, job>>

BeginCall(w) ==
  \/ \E i \in Intakes :
        \/ \E a \in Agencies : BeginSubmit(w, i, a) \/ BeginReassign(w, i, a)
        \/ BeginAccept(w, i) \/ BeginDecline(w, i) \/ BeginConvert(w, i)
  \/ BeginExpire(w)

Step(w) ==
  \/ Insert(w) \/ Resend(w) \/ Announce(w) \/ Decide(w)
  \/ Tie(w) \/ CreateDraft(w) \/ Convert(w) \/ Expire(w) \/ Prompt(w)

Next ==
  \/ \E w \in Workers : BeginCall(w) \/ Step(w) \/ Crash(w)
  \/ \E d \in Drafts : Publish(d)
  \/ \E a \in Agencies : SetActive(a)
  \/ \E i \in Intakes : FiveDaysPass(i)

Spec == Init /\ [][Next]_vars

(* Days pass, and a call in flight goes on; a tick may fail now and then,  *)
(* but not whenever it has come to the write.  People and agencies need    *)
(* not do anything.  That ticks begin depends on the worker they run in.   *)
GoesOn ==
  /\ \A w \in Workers : WF_vars(Step(w)) /\ SF_vars(Expire(w))
  /\ \A i \in Intakes : WF_vars(FiveDaysPass(i))

--------------------------------------------------------------------------------
(* PROPERTIES                                                              *)

(* Whatever overlaps or is cut short, a draft is never without its owner's *)
(* tie, and a converted lead never without a draft made from it.           *)
DraftHasTie ==
  /\ \A d \in Drafts : draft[d] # NoDraft => <<OwnerOf[draft[d].intake], draft[d].agency>> \in ties
  /\ \A i \in Intakes : status[i] = "converted" =>
        listing[i] # Null /\ draft[listing[i]].intake = i

(* A call of an agency writes by id what it decided on an earlier read:    *)
(* the lead it writes to, ties or makes a draft from is still that         *)
(* agency's.  Its owner hands a lead on only once it is declined or        *)
(* expired, so no agency loses one that it is working on.                  *)
Answers(w) == job[w].at \in {"decide", "tie", "draft", "converted"} /\ job'[w] # job[w]
AnswersInHand ==
  [][/\ \A w \in Workers : Answers(w) /\ rows' # rows => agency[job[w].intake] = job[w].agency
     /\ \A i \in Intakes : agency'[i] # agency[i] => status[i] \in {"none", "declined", "expired"}]_vars

(* A lead does not wait for ever: it is answered or it expires, even when  *)
(* its agency is suspended and when ticks fail.                            *)
LeadIsAnswered ==
  \A i \in Intakes : status[i] = "submitted" ~> status[i] # "submitted"

--------------------------------------------------------------------------------
(* WHAT THE TEXTS PROMISE AND THE CODE DOES NOT ALWAYS KEEP.  No run       *)
(* checks these; README.md tells the steps that break each of them.        *)

(* A conversion is permanent (intakes.service.ts:197): the lead is never   *)
(* handed to another agency, declined or expired afterwards.               *)
ConvertedIsFinal ==
  [][\A i \in Intakes : status[i] = "converted"
        => status'[i] = "converted" /\ agency'[i] = agency[i] /\ listing'[i] = listing[i]]_vars

(* The three writes of a conversion agree: a converted lead points to a    *)
(* draft made from it, at the agency that holds it, tied to its owner; and *)
(* only a converted lead points to one.                                    *)
ConversionIsWhole ==
  \A i \in Intakes :
     /\ status[i] = "converted" <=> listing[i] # Null
     /\ listing[i] # Null =>
           /\ draft[listing[i]] = [intake |-> i, agency |-> agency[i]]
           /\ <<OwnerOf[i], agency[i]>> \in ties

(* A house is published by the one agency its owner's lead was converted   *)
(* by, from one draft.                                                     *)
PublishedOnce ==
  \A d \in published : \A e \in Drafts :
     draft[e].intake = draft[d].intake => e = d /\ agency[draft[d].intake] = draft[d].agency

(* SPEC.md:367: an agency has five days to respond before a lead expires.  *)
FiveDaysToAnswer ==
  [][\A i \in Intakes : status[i] = "submitted" /\ status'[i] = "expired" => i \in waited]_vars

Quiet == \A w \in Workers : job[w].at = "idle"

(* SPEC.md:367: the owner of an expired lead is prompted to choose again.  *)
OwnerIsPrompted == Quiet => \A i \in Intakes : status[i] = "expired" => i \in prompted

(* SPEC.md:364: the agency a lead is sent to is notified.                  *)
AgencyIsTold == Quiet => \A i \in Intakes : status[i] = "submitted" => i \in told
================================================================================
