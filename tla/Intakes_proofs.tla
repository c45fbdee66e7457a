----------------------------- MODULE Intakes_proofs -----------------------------
(***************************************************************************)
(* Theorems about Intakes, for any number of workers, any duties, and      *)
(* calls that may be cut short between any two steps.  The argument: the   *)
(* three writes of a conversion come in an order in which each finds the   *)
(* one before it in place, ties are never removed and a draft, once made,  *)
(* is never rewritten.  Then the promises that overlaps break, which hold  *)
(* where TwoDesks keeps the calls of the agencies and the timer in one     *)
(* worker and the owner's reassign() in one.                               *)
(***************************************************************************)
EXTENDS Intakes, TLAPS

(* What a call in flight carries.                                          *)
JobShape ==
  \A w \in Workers :
     /\ job[w].at # "idle" => job[w].intake \in Intakes
     /\ job[w].at \notin {"idle", "expired", "prompt"} => job[w].agency \in Agencies
     /\ job[w].at = "decide" => job[w].to \in IntakeStatuses \ {"converted"}

(* A conversion that got as far as the draft has its tie, and one that got *)
(* as far as the intake has its draft.                                     *)
InOrder ==
  \A w \in Workers :
     /\ job[w].at = "draft" => <<OwnerOf[job[w].intake], job[w].agency>> \in ties
     /\ job[w].at = "converted" =>
           job[w].draft \in Drafts /\ draft[job[w].draft].intake = job[w].intake

Tied ==
  \A d \in Drafts : draft[d] # NoDraft => <<OwnerOf[draft[d].intake], draft[d].agency>> \in ties

Backed ==
  \A i \in Intakes : status[i] = "converted" =>
     listing[i] \in Drafts /\ draft[listing[i]].intake = i

IInv == TypeOK /\ JobShape /\ InOrder /\ Tied /\ Backed

USE DEF IntakeStatuses

(* A row of the job table that is replaced by another.                     *)
LEMMA NewJob ==
  ASSUME job \in [Workers -> JobRows], NEW w \in Workers, NEW j \in JobRows,
         job' = [job EXCEPT ![w] = j]
  PROVE  /\ job' \in [Workers -> JobRows]
         /\ job'[w] = j
         /\ \A v \in Workers \ {w} : job'[v] = job[v]
BY SMT

LEMMA IdleRow == Idle \in JobRows
BY DEF Idle, JobRows

(* A call that begins has written nothing yet.                             *)
LEMMA BeginKeeps ==
  ASSUME IInv, NEW w \in Workers, NEW call, NEW j \in JobRows, Begin(w, call, j),
         j.intake \in Intakes,
         j.at \notin {"idle", "draft", "converted"},
         j.at \notin {"expired", "prompt"} => j.agency \in Agencies,
         j.at = "decide" => j.to \in IntakeStatuses \ {"converted"}
  PROVE  IInv'
<1>1. /\ job' \in [Workers -> JobRows]
      /\ job'[w] = j
      /\ \A v \in Workers \ {w} : job'[v] = job[v]
  BY NewJob DEF Begin, IInv, TypeOK
<1>2. TypeOK'
  BY <1>1 DEF IInv, TypeOK, Begin, rows, clock, bell
<1>3. JobShape'
  BY <1>1 DEF IInv, JobShape
<1>4. InOrder'
  BY <1>1 DEF IInv, InOrder, Begin, rows
<1>5. Tied' /\ Backed'
  BY DEF IInv, Tied, Backed, Begin, rows
<1> QED BY <1>2, <1>3, <1>4, <1>5 DEF IInv

LEMMA OnRow ==
  ASSUME NEW i \in Intakes, NEW a \in Agencies \cup {Null}, NEW step \in Steps
  PROVE  /\ On(i, a, step) \in JobRows
         /\ On(i, a, step).at = step /\ On(i, a, step).intake = i
         /\ On(i, a, step).agency = a
         /\ On(i, a, step).to = "none" /\ On(i, a, step).rest = {}
BY DEF On, Row, JobRows

LEMMA BeginCallKeeps ==
  ASSUME IInv, NEW w \in Workers, BeginCall(w)
  PROVE  IInv'
<1>1. CASE \E i \in Intakes, a \in Agencies : BeginSubmit(w, i, a)
  <2>1. PICK i \in Intakes, a \in Agencies : BeginSubmit(w, i, a) BY <1>1
  <2>2. "insert" \in Steps BY DEF Steps
  <2> QED BY <2>1, <2>2, OnRow, BeginKeeps DEF BeginSubmit
<1>2. CASE \E i \in Intakes, a \in Agencies : BeginReassign(w, i, a)
  <2>1. PICK i \in Intakes, a \in Agencies : BeginReassign(w, i, a) BY <1>2
  <2>2. "resend" \in Steps BY DEF Steps
  <2> QED BY <2>1, <2>2, OnRow, BeginKeeps DEF BeginReassign
<1>3. ASSUME NEW i \in Intakes, NEW to \in {"accepted", "declined"}, NEW call,
             agency[i] \in active,
             Begin(w, call, Row(i, agency[i], "decide", to, {}))
      PROVE  IInv'
  <2>1. agency[i] \in Agencies BY <1>3 DEF IInv, TypeOK
  <2> DEFINE j == Row(i, agency[i], "decide", to, {})
  <2>2. /\ j \in JobRows /\ j.at = "decide" /\ j.intake = i
        /\ j.agency = agency[i] /\ j.to = to
    BY <2>1 DEF Row, JobRows, Steps
  <2>3. Begin(w, call, j) BY <1>3
  <2> HIDE DEF j
  <2> QED BY <2>1, <2>2, <2>3, BeginKeeps
<1>4. CASE \E i \in Intakes : BeginAccept(w, i)
  BY <1>3, <1>4 DEF BeginAccept
<1>5. CASE \E i \in Intakes : BeginDecline(w, i)
  BY <1>3, <1>5 DEF BeginDecline
<1>6. CASE \E i \in Intakes : BeginConvert(w, i)
  <2>1. PICK i \in Intakes : BeginConvert(w, i) BY <1>6
  <2>2. agency[i] \in Agencies BY <2>1 DEF IInv, TypeOK, BeginConvert
  <2>3. "tie" \in Steps BY DEF Steps
  <2> QED BY <2>1, <2>2, <2>3, OnRow, BeginKeeps DEF BeginConvert
<1>7. CASE BeginExpire(w)
  <2>1. PICK i \in Stale : Begin(w, "expire", Row(i, Null, "expired", "none", Stale \ {i}))
    BY <1>7 DEF BeginExpire, Visits
  <2>2. Stale \subseteq Intakes BY DEF IInv, TypeOK, Stale
  <2> DEFINE j == Row(i, Null, "expired", "none", Stale \ {i})
  <2>3. j \in JobRows /\ j.at = "expired" /\ j.intake = i
    BY <2>2 DEF Row, JobRows, Steps
  <2>4. Begin(w, "expire", j) BY <2>1
  <2> HIDE DEF j
  <2> QED BY <2>2, <2>3, <2>4, BeginKeeps
<1> QED BY <1>1, <1>2, <1>4, <1>5, <1>6, <1>7 DEF BeginCall

--------------------------------------------------------------------------------
(* The steps of a call: each finds what it carries in its row.             *)
LEMMA MovedOn ==
  ASSUME IInv, NEW w \in Workers, NEW step \in Steps, Goto(w, step)
  PROVE  /\ job' \in [Workers -> JobRows]
         /\ job'[w] = [job[w] EXCEPT !.at = step]
         /\ \A v \in Workers \ {w} : job'[v] = job[v]
<1>1. job[w] \in JobRows BY DEF IInv, TypeOK
<1>2. [job[w] EXCEPT !.at = step] \in JobRows BY <1>1 DEF JobRows
<1>3. job' = [job EXCEPT ![w] = [job[w] EXCEPT !.at = step]] BY DEF Goto
<1> QED BY <1>2, <1>3, NewJob DEF IInv, TypeOK

LEMMA Returned ==
  ASSUME IInv, NEW w \in Workers, Return(w)
  PROVE  /\ job' \in [Workers -> JobRows]
         /\ job'[w] = Idle
         /\ \A v \in Workers \ {w} : job'[v] = job[v]
BY IdleRow DEF IInv, TypeOK, Return

LEMMA CarriesIntake ==
  ASSUME IInv, NEW w \in Workers, job[w].at # "idle"
  PROVE  /\ job[w] \in JobRows /\ job[w].intake \in Intakes
         /\ job[w].at \notin {"expired", "prompt"} => job[w].agency \in Agencies
BY DEF IInv, TypeOK, JobShape

(* A step of the intake row alone, to any status but converted.            *)
LEMMA StatusKeeps ==
  ASSUME IInv, NEW i \in Intakes, NEW to \in IntakeStatuses \ {"converted"},
         status' = [status EXCEPT ![i] = to], listing' = listing, draft' = draft, ties' = ties
  PROVE  Tied' /\ Backed'
BY DEF IInv, TypeOK, Tied, Backed

LEMMA InsertKeeps == ASSUME IInv, NEW w \in Workers, Insert(w) PROVE IInv'
<1>1. PICK i \in Intakes :
         /\ status' = [status EXCEPT ![i] = "submitted"]
         /\ agency' = [agency EXCEPT ![i] = job[w].agency]
         /\ job' = [job EXCEPT ![w].at = "announce", ![w].intake = i]
  BY DEF Insert
<1>2. job[w] \in JobRows /\ job[w].agency \in Agencies
  BY CarriesIntake DEF Insert
<1>3. /\ job' \in [Workers -> JobRows]
      /\ job'[w].at = "announce" /\ job'[w].intake = i /\ job'[w].agency = job[w].agency
      /\ \A v \in Workers \ {w} : job'[v] = job[v]
  <2> DEFINE j == [job[w] EXCEPT !.at = "announce", !.intake = i]
  <2>1. /\ j \in JobRows /\ j.at = "announce" /\ j.intake = i /\ j.agency = job[w].agency
    BY <1>2 DEF JobRows, Steps
  <2>2. job' = [job EXCEPT ![w] = j] BY <1>1
  <2> HIDE DEF j
  <2> QED BY <2>1, <2>2, NewJob DEF IInv, TypeOK
<1>4. TypeOK'
  BY <1>1, <1>2, <1>3 DEF IInv, TypeOK, Insert, clock, bell
<1>5. JobShape'
  BY <1>2, <1>3 DEF IInv, JobShape
<1>6. InOrder'
  BY <1>3 DEF IInv, InOrder, Insert
<1>7. Tied' /\ Backed'
  BY <1>1, StatusKeeps DEF Insert
<1> QED BY <1>4, <1>5, <1>6, <1>7 DEF IInv

LEMMA ResendKeeps == ASSUME IInv, NEW w \in Workers, Resend(w) PROVE IInv'
<1>1. /\ job[w].at = "resend" /\ job[w] \in JobRows
      /\ job[w].intake \in Intakes /\ job[w].agency \in Agencies
  BY CarriesIntake DEF Resend
<1>2. /\ job' \in [Workers -> JobRows]
      /\ job'[w] = [job[w] EXCEPT !.at = "announce"]
      /\ \A v \in Workers \ {w} : job'[v] = job[v]
  BY MovedOn DEF Resend, Steps
<1>3. TypeOK'
  BY <1>1, <1>2 DEF IInv, TypeOK, Resend
<1>4. JobShape' /\ InOrder'
  BY <1>1, <1>2 DEF IInv, JobShape, InOrder, Resend, JobRows
<1>5. Tied' /\ Backed'
  BY <1>1, StatusKeeps DEF Resend
<1> QED BY <1>3, <1>4, <1>5 DEF IInv

LEMMA AnnounceKeeps == ASSUME IInv, NEW w \in Workers, Announce(w) PROVE IInv'
<1>1. job[w].intake \in Intakes /\ job[w].agency \in Agencies
  BY CarriesIntake DEF Announce
<1>2. /\ job' \in [Workers -> JobRows] /\ job'[w] = Idle
      /\ \A v \in Workers \ {w} : job'[v] = job[v]
  BY Returned DEF Announce
<1>3. TypeOK'
  BY <1>1, <1>2 DEF IInv, TypeOK, Announce, Notify, rows, clock
<1>4. JobShape' /\ InOrder' /\ Tied' /\ Backed'
  BY <1>2 DEF IInv, JobShape, InOrder, Tied, Backed, Announce, rows, Idle
<1> QED BY <1>3, <1>4 DEF IInv

LEMMA DecideKeeps == ASSUME IInv, NEW w \in Workers, Decide(w) PROVE IInv'
<1>1. job[w].intake \in Intakes /\ job[w].to \in IntakeStatuses \ {"converted"}
  BY CarriesIntake DEF Decide, IInv, JobShape
<1>2. /\ job' \in [Workers -> JobRows] /\ job'[w] = Idle
      /\ \A v \in Workers \ {w} : job'[v] = job[v]
  BY Returned DEF Decide
<1>3. TypeOK'
  BY <1>1, <1>2 DEF IInv, TypeOK, Decide, clock, bell
<1>4. JobShape' /\ InOrder'
  BY <1>2 DEF IInv, JobShape, InOrder, Decide, Idle
<1>5. Tied' /\ Backed'
  BY <1>1, StatusKeeps DEF Decide
<1> QED BY <1>3, <1>4, <1>5 DEF IInv

LEMMA TieKeeps == ASSUME IInv, NEW w \in Workers, Tie(w) PROVE IInv'
<1>1. job[w] \in JobRows /\ job[w].intake \in Intakes /\ job[w].agency \in Agencies
  BY CarriesIntake DEF Tie
<1>2. /\ job' \in [Workers -> JobRows]
      /\ job'[w] = [job[w] EXCEPT !.at = "draft"]
      /\ \A v \in Workers \ {w} : job'[v] = job[v]
  BY MovedOn DEF Tie, Steps
<1>3. <<OwnerOf[job[w].intake], job[w].agency>> \in Users \X Agencies
  BY <1>1, IntakesAssumption
<1>4. TypeOK'
  BY <1>2, <1>3 DEF IInv, TypeOK, Tie, clock, bell
<1>5. JobShape' /\ InOrder'
  BY <1>1, <1>2 DEF IInv, JobShape, InOrder, Tie, JobRows
<1>6. Tied' /\ Backed'
  BY DEF IInv, Tied, Backed, Tie
<1> QED BY <1>4, <1>5, <1>6 DEF IInv

(* The new draft takes a row that was free, so no other one changes.       *)
LEMMA CreateDraftKeeps == ASSUME IInv, NEW w \in Workers, CreateDraft(w) PROVE IInv'
<1> DEFINE new == [intake |-> job[w].intake, agency |-> job[w].agency]
<1>1. PICK d \in Drafts :
         /\ draft[d] = NoDraft /\ draft' = [draft EXCEPT ![d] = new]
         /\ job' = [job EXCEPT ![w].at = "converted", ![w].draft = d]
  BY DEF CreateDraft
<1>2. job[w] \in JobRows /\ job[w].intake \in Intakes /\ job[w].agency \in Agencies
  BY CarriesIntake DEF CreateDraft
<1>3. /\ job' \in [Workers -> JobRows]
      /\ job'[w].at = "converted" /\ job'[w].draft = d
      /\ job'[w].intake = job[w].intake /\ job'[w].agency = job[w].agency
      /\ \A v \in Workers \ {w} : job'[v] = job[v]
  <2> DEFINE j == [job[w] EXCEPT !.at = "converted", !.draft = d]
  <2>1. /\ j \in JobRows /\ j.at = "converted" /\ j.draft = d
        /\ j.intake = job[w].intake /\ j.agency = job[w].agency
    BY <1>2 DEF JobRows, Steps
  <2>2. job' = [job EXCEPT ![w] = j] BY <1>1
  <2> HIDE DEF j
  <2> QED BY <2>1, <2>2, NewJob DEF IInv, TypeOK
<1>4. /\ draft'[d] = new /\ draft'[d].intake = job[w].intake
      /\ \A e \in Drafts \ {d} : draft'[e] = draft[e]
  BY <1>1 DEF IInv, TypeOK
<1>5. \A e \in Drafts : draft[e].intake \in Intakes => draft'[e].intake = draft[e].intake
  BY <1>1, <1>4, IntakesAssumption DEF NoDraft
<1>6. TypeOK'
  BY <1>1, <1>2, <1>3 DEF IInv, TypeOK, CreateDraft, clock, bell
<1>7. JobShape'
  BY <1>2, <1>3 DEF IInv, JobShape
<1>8. InOrder'
  <2>1. ASSUME NEW v \in Workers, job'[v].at = "draft"
        PROVE  <<OwnerOf[job'[v].intake], job'[v].agency>> \in ties'
    BY <2>1, <1>3 DEF IInv, InOrder, CreateDraft
  <2>2. ASSUME NEW v \in Workers, job'[v].at = "converted"
        PROVE  job'[v].draft \in Drafts /\ draft'[job'[v].draft].intake = job'[v].intake
    <3>1. CASE v = w BY <3>1, <1>3, <1>4
    <3>2. CASE v # w
      <4>1. job'[v] = job[v] BY <3>2, <1>3
      <4>2. job[v].intake \in Intakes BY <4>1, <2>2, CarriesIntake
      <4> QED BY <4>1, <4>2, <2>2, <1>5, ZenonT(60) DEF IInv, InOrder
    <3> QED BY <3>1, <3>2
  <2> QED BY <2>1, <2>2 DEF InOrder
<1>9. Tied'
  BY <1>4 DEF IInv, Tied, InOrder, CreateDraft
<1>10. Backed'
  BY <1>5 DEF IInv, Backed, CreateDraft
<1> QED BY <1>6, <1>7, <1>8, <1>9, <1>10 DEF IInv

LEMMA ConvertKeeps == ASSUME IInv, NEW w \in Workers, Convert(w) PROVE IInv'
<1>1. /\ job[w].intake \in Intakes /\ job[w].draft \in Drafts
      /\ draft[job[w].draft].intake = job[w].intake
  BY CarriesIntake DEF Convert, IInv, InOrder
<1>2. /\ job' \in [Workers -> JobRows] /\ job'[w] = Idle
      /\ \A v \in Workers \ {w} : job'[v] = job[v]
  BY Returned DEF Convert
<1>3. TypeOK'
  BY <1>1, <1>2 DEF IInv, TypeOK, Convert, clock, bell
<1>4. JobShape' /\ InOrder'
  BY <1>2 DEF IInv, JobShape, InOrder, Convert, Idle
<1>5. Tied' /\ Backed'
  BY <1>1 DEF IInv, TypeOK, Tied, Backed, Convert
<1> QED BY <1>3, <1>4, <1>5 DEF IInv

LEMMA ExpireKeeps == ASSUME IInv, NEW w \in Workers, Expire(w) PROVE IInv'
<1>1. job[w] \in JobRows /\ job[w].intake \in Intakes
  BY CarriesIntake DEF Expire
<1>2. /\ job' \in [Workers -> JobRows]
      /\ job'[w] = [job[w] EXCEPT !.at = "prompt"]
      /\ \A v \in Workers \ {w} : job'[v] = job[v]
  BY MovedOn DEF Expire, Steps
<1>3. TypeOK'
  BY <1>1, <1>2 DEF IInv, TypeOK, Expire, clock, bell
<1>4. JobShape' /\ InOrder'
  BY <1>1, <1>2 DEF IInv, JobShape, InOrder, Expire, JobRows
<1>5. Tied' /\ Backed'
  BY <1>1, StatusKeeps DEF Expire
<1> QED BY <1>3, <1>4, <1>5 DEF IInv

LEMMA PromptKeeps == ASSUME IInv, NEW w \in Workers, Prompt(w) PROVE IInv'
<1>1. job[w] \in JobRows /\ job[w].intake \in Intakes
  BY CarriesIntake DEF Prompt
<1>2. PICK j \in Visits(job[w].rest) : job' = [job EXCEPT ![w] = j]
  BY DEF Prompt
<1>3. /\ j \in JobRows /\ j.at \in {"idle", "expired"}
      /\ j.at # "idle" => j.intake \in Intakes
  BY <1>1, IdleRow DEF Visits, Row, Idle, JobRows, Steps
<1>4. /\ job' \in [Workers -> JobRows] /\ job'[w] = j
      /\ \A v \in Workers \ {w} : job'[v] = job[v]
  BY <1>2, <1>3 DEF IInv, TypeOK
<1>5. TypeOK'
  BY <1>1, <1>4 DEF IInv, TypeOK, Prompt, Notify, rows, clock
<1>6. JobShape' /\ InOrder' /\ Tied' /\ Backed'
  BY <1>3, <1>4 DEF IInv, JobShape, InOrder, Tied, Backed, Prompt, rows
<1> QED BY <1>5, <1>6 DEF IInv

LEMMA CrashKeeps == ASSUME IInv, NEW w \in Workers, Crash(w) PROVE IInv'
<1>1. /\ job' \in [Workers -> JobRows] /\ job'[w] = Idle
      /\ \A v \in Workers \ {w} : job'[v] = job[v]
  BY Returned DEF Crash
<1> QED
  BY <1>1 DEF IInv, TypeOK, JobShape, InOrder, Tied, Backed, Crash, rows, clock, bell, Idle

--------------------------------------------------------------------------------
(* The invariant, which no step can break.                                 *)
LEMMA InitIInv == Init => IInv
BY IntakesAssumption, IdleRow
   DEF Init, IInv, TypeOK, JobShape, InOrder, Tied, Backed, Idle, NoDraft

LEMMA NextIInv == IInv /\ [Next]_vars => IInv'
<1> SUFFICES ASSUME IInv, [Next]_vars PROVE IInv' OBVIOUS
<1>1. ASSUME NEW w \in Workers, BeginCall(w) \/ Step(w) \/ Crash(w) PROVE IInv'
  BY <1>1, BeginCallKeeps, InsertKeeps, ResendKeeps, AnnounceKeeps, DecideKeeps, TieKeeps,
     CreateDraftKeeps, ConvertKeeps, ExpireKeeps, PromptKeeps, CrashKeeps DEF Step
<1>2. ASSUME NEW d \in Drafts, Publish(d) PROVE IInv'
  BY <1>2 DEF Publish, IInv, TypeOK, JobShape, InOrder, Tied, Backed, rows, clock, bell
<1>3. ASSUME NEW a \in Agencies, SetActive(a) PROVE IInv'
  BY <1>3 DEF SetActive, IInv, TypeOK, JobShape, InOrder, Tied, Backed, rows, clock, bell
<1>4. ASSUME NEW i \in Intakes, FiveDaysPass(i) PROVE IInv'
  BY <1>4 DEF FiveDaysPass, IInv, TypeOK, JobShape, InOrder, Tied, Backed, rows, bell
<1>5. CASE UNCHANGED vars
  BY <1>5 DEF vars, IInv, TypeOK, JobShape, InOrder, Tied, Backed, rows, clock, bell
<1> QED BY <1>1, <1>2, <1>3, <1>4, <1>5 DEF Next

LEMMA Invariance == Spec => []IInv
BY InitIInv, NextIInv, PTL DEF Spec

(* Every variable of the intakes module keeps its type (the intakes, owners *)
(* and listings rows the handlers write).                                  *)
THEOREM TypeCorrect == Spec => []TypeOK
<1>1. IInv => TypeOK BY DEF IInv
<1> QED BY <1>1, Invariance, PTL

(* However calls overlap and wherever they are cut short, convert() never  *)
(* leaves a draft listing without the owner's tie, nor a converted intake  *)
(* without a draft made from it.                                           *)
THEOREM DraftAlwaysHasTie == Spec => []DraftHasTie
<1>1. IInv => DraftHasTie
  BY IntakesAssumption DEF IInv, Tied, Backed, DraftHasTie
<1> QED BY <1>1, Invariance, PTL

--------------------------------------------------------------------------------
(* TWO DESKS                                                               *)
(*                                                                         *)
(* Every write of a lead is by id, on the strength of an earlier read      *)
(* (intakes.service.ts:181).  When the calls of the agencies and the timer *)
(* come from one worker, and the owner's reassign() from one, what they    *)
(* have read is still so: the table keeps the two apart, as each wants the *)
(* lead in a status in which the other leaves it alone.  Submissions may   *)
(* overlap them.  That a conversion leaves one draft needs more: that it   *)
(* is not cut short.                                                       *)

Converting == {"tie", "draft", "converted"}

DeskCalls == {"accept", "decline", "convert", "expire"}
DeskSteps == {"decide", "tie", "draft", "converted", "expired", "prompt"}
LeadSteps == DeskSteps \cup {"resend"}

TwoDesks ==
  \A v, w \in Workers :
     /\ Duties[v] \cap DeskCalls # {} /\ Duties[w] \cap DeskCalls # {} => v = w
     /\ "reassign" \in Duties[v] \cap Duties[w] => v = w

Decisions ==
  {<<"submitted", "accepted">>, <<"submitted", "declined">>, <<"accepted", "declined">>}

(* What a call has read of the leads, and what it has written since.       *)
LeadRead(j, s, a, d) ==
  /\ j.at = "resend" => s[j.intake] \in {"declined", "expired"}
  /\ j.at = "decide" => <<s[j.intake], j.to>> \in Decisions
  /\ j.at \in Converting => s[j.intake] = "accepted"
  /\ j.at \in Converting \cup {"decide"} => a[j.intake] = j.agency
  /\ j.at = "converted" => d[j.draft] = [intake |-> j.intake, agency |-> j.agency]
  /\ j.at = "expired" => s[j.intake] = "submitted"
  /\ j.at \in {"expired", "prompt"} => \A r \in j.rest : s[r] = "submitted" /\ r # j.intake

OnDuty(w, j) ==
  /\ j.at \in DeskSteps => Duties[w] \cap DeskCalls # {}
  /\ j.at = "resend" => "reassign" \in Duties[w]

DeskInv ==
  /\ \A w \in Workers : OnDuty(w, job[w]) /\ LeadRead(job[w], status, agency, draft)
  /\ ConversionIsWhole

(* Every change of a lead's status is a row of the table.                  *)
LeadMove ==
  \A i \in Intakes : status'[i] # status[i] =>
     \E action \in {"submit", "accept", "decline", "expire", "convert", "abandon", "reassign"} :
        <<status[i], action, status'[i]>> \in IntakeTransitions

Settled ==
  \A i \in Intakes : status[i] = "converted"
     => status'[i] = "converted" /\ agency'[i] = agency[i] /\ listing'[i] = listing[i]

(* The table leads nowhere from converted, and a link is set with it.      *)
LEMMA MoveSettles ==
  ASSUME LeadMove,
         \A i \in Intakes : status[i] = "converted"
            => agency'[i] = agency[i] /\ listing'[i] = listing[i]
  PROVE  Settled
BY DEF LeadMove, Settled, IntakeTransitions

LEMMA NothingRead ==
  ASSUME NEW j, j.at \notin LeadSteps, NEW s, NEW a, NEW d, NEW w
  PROVE  LeadRead(j, s, a, d) /\ OnDuty(w, j)
BY DEF LeadRead, OnDuty, LeadSteps, DeskSteps, Converting

(* Of two calls that have read leads, one is the owner's.                  *)
LEMMA OneEach ==
  ASSUME TwoDesks, DeskInv, NEW v \in Workers, NEW w \in Workers, v # w,
         job[v].at \in LeadSteps, job[w].at \in LeadSteps
  PROVE  \/ job[v].at = "resend" /\ job[w].at \in DeskSteps
         \/ job[v].at \in DeskSteps /\ job[w].at = "resend"
BY DEF TwoDesks, DeskInv, OnDuty, LeadSteps

(* A write to one's own lead is none to a lead that others have read.      *)
LEMMA OthersKeepRead ==
  ASSUME TwoDesks, DeskInv, IInv, NEW w \in Workers, job[w].at \in LeadSteps \ {"prompt"},
         NEW v \in Workers \ {w},
         \A k \in Intakes \ {job[w].intake} : status'[k] = status[k] /\ agency'[k] = agency[k],
         job[w].at = "resend" => draft' = draft
  PROVE  LeadRead(job[v], status', agency', draft')
<1>1. CASE job[v].at \notin LeadSteps
  BY <1>1, NothingRead
<1>2. /\ job[v].at # "idle" => job[v].intake \in Intakes /\ job[v].rest \subseteq Intakes
      /\ LeadRead(job[v], status, agency, draft) /\ LeadRead(job[w], status, agency, draft)
  BY CarriesIntake DEF JobRows, DeskInv
<1>3. CASE job[v].at = "resend" /\ job[w].at \in DeskSteps
  <2>1. status[job[w].intake] \in {"submitted", "accepted"}
    BY <1>2, <1>3 DEF LeadRead, Decisions, DeskSteps, Converting
  <2>2. job[v].intake \in Intakes \ {job[w].intake} /\ status[job[v].intake] \in {"declined", "expired"}
    BY <1>2, <1>3, <2>1 DEF LeadRead
  <2>3. QED BY <1>3, <2>2 DEF LeadRead, Converting
<1>4. CASE job[v].at \in DeskSteps /\ job[w].at = "resend"
  <2>1. status[job[w].intake] \in {"declined", "expired"}
    BY <1>2, <1>4 DEF LeadRead
  <2>2. job[v].at # "prompt" => job[v].intake \in Intakes \ {job[w].intake}
    BY <1>2, <1>4, <2>1 DEF LeadRead, Decisions, DeskSteps, Converting
  <2>3. job[v].at \in {"expired", "prompt"} => job[v].rest \subseteq Intakes \ {job[w].intake}
    BY <1>2, <1>4, <2>1 DEF LeadRead
  <2>4. QED BY <1>2, <1>4, <2>2, <2>3 DEF LeadRead, Converting, Decisions
<1>5. QED BY <1>1, <1>3, <1>4, OneEach DEF LeadSteps

(* A submission writes a row that no call has read.                        *)
LEMMA NewLeadsKeepRead ==
  ASSUME IInv, NEW v \in Workers, LeadRead(job[v], status, agency, draft),
         \A i \in Intakes :
            status[i] = "none" \/ (status'[i] = status[i] /\ agency'[i] = agency[i]),
         draft' = draft
  PROVE  LeadRead(job[v], status', agency', draft')
<1>1. job[v].at # "idle" => job[v].intake \in Intakes /\ job[v].rest \subseteq Intakes
  BY CarriesIntake DEF JobRows
<1>2. QED BY <1>1 DEF LeadRead, Converting, Decisions

LEMMA BeginReads ==
  ASSUME IInv, NEW w \in Workers, BeginCall(w)
  PROVE  /\ LeadRead(job'[w], status, agency, draft) /\ OnDuty(w, job'[w])
         /\ \A v \in Workers \ {w} : job'[v] = job[v]
         /\ UNCHANGED rows /\ published' = published /\ job[w].at = "idle"
<1> DEFINE Begins(call, j) == /\ Begin(w, call, j) /\ LeadRead(j, status, agency, draft)
                              /\ j.at \in DeskSteps => call \in DeskCalls
                              /\ j.at = "resend" => call = "reassign"
<1>1. \E call, j : Begins(call, j)
  <2>1. ASSUME NEW i \in Intakes, NEW a \in Agencies, BeginSubmit(w, i, a)
        PROVE  Begins("submit", On(i, a, "insert"))
    <3>1. On(i, a, "insert").at \notin LeadSteps
      BY DEF On, Row, LeadSteps, DeskSteps
    <3>2. QED BY <2>1, <3>1, NothingRead DEF BeginSubmit, LeadSteps
  <2>2. ASSUME NEW i \in Intakes, NEW a \in Agencies, BeginReassign(w, i, a)
        PROVE  Begins("reassign", On(i, a, "resend"))
    <3>1. status[i] \in {"declined", "expired"}
      BY <2>2 DEF BeginReassign, May, IntakeTransitions
    <3>2. LeadRead(On(i, a, "resend"), status, agency, draft)
      BY <3>1 DEF LeadRead, On, Row, Converting
    <3>3. QED BY <2>2, <3>2 DEF BeginReassign, On, Row, DeskSteps
  <2>3. ASSUME NEW i \in Intakes, BeginAccept(w, i)
        PROVE  Begins("accept", Row(i, agency[i], "decide", "accepted", {}))
    <3>1. status[i] = "submitted"
      BY <2>3 DEF BeginAccept, May, IntakeTransitions
    <3>2. LeadRead(Row(i, agency[i], "decide", "accepted", {}), status, agency, draft)
      BY <3>1 DEF LeadRead, Row, Converting, Decisions
    <3>3. QED BY <2>3, <3>2 DEF BeginAccept, Row, DeskCalls
  <2>4. ASSUME NEW i \in Intakes, BeginDecline(w, i)
        PROVE  Begins("decline", Row(i, agency[i], "decide", "declined", {}))
    <3>1. status[i] \in {"submitted", "accepted"}
      BY <2>4 DEF BeginDecline, May, IntakeTransitions
    <3>2. LeadRead(Row(i, agency[i], "decide", "declined", {}), status, agency, draft)
      BY <3>1 DEF LeadRead, Row, Converting, Decisions
    <3>3. QED BY <2>4, <3>2 DEF BeginDecline, Row, DeskCalls
  <2>5. ASSUME NEW i \in Intakes, BeginConvert(w, i)
        PROVE  Begins("convert", On(i, agency[i], "tie"))
    <3>1. status[i] = "accepted"
      BY <2>5 DEF BeginConvert, May, IntakeTransitions
    <3>2. LeadRead(On(i, agency[i], "tie"), status, agency, draft)
      BY <3>1 DEF LeadRead, On, Row, Converting
    <3>3. QED BY <2>5, <3>2 DEF BeginConvert, On, Row, DeskCalls
  <2>6. ASSUME BeginExpire(w) PROVE \E j : Begins("expire", j)
    <3>1. PICK i \in Stale : Begin(w, "expire", Row(i, Null, "expired", "none", Stale \ {i}))
      BY <2>6 DEF BeginExpire, Visits
    <3>2. LeadRead(Row(i, Null, "expired", "none", Stale \ {i}), status, agency, draft)
      BY DEF LeadRead, Row, Converting, Stale
    <3>3. QED BY <3>1, <3>2 DEF Row, DeskCalls
  <2> HIDE DEF Begins
  <2>7. QED BY <2>1, <2>2, <2>3, <2>4, <2>5, <2>6 DEF BeginCall
<1>2. PICK call, j : Begins(call, j)
  BY <1>1
<1>3. /\ job'[w] = j /\ \A v \in Workers \ {w} : job'[v] = job[v]
      /\ UNCHANGED rows /\ published' = published /\ job[w].at = "idle" /\ call \in Duties[w]
  BY <1>2 DEF Begin, IInv, TypeOK
<1>4. QED BY <1>2, <1>3 DEF OnDuty

(* What a step of a call about an existing lead does: to its own lead, by  *)
(* the table, and to nothing that the other calls have read.               *)
LEMMA LeadStepKeeps ==
  ASSUME TwoDesks, IInv, DeskInv, NEW w \in Workers, job[w].at \in LeadSteps \ {"prompt"},
         \A v \in Workers \ {w} : job'[v] = job[v],
         \A k \in Intakes \ {job[w].intake} : status'[k] = status[k] /\ agency'[k] = agency[k],
         job[w].at = "resend" => draft' = draft,
         LeadRead(job'[w], status', agency', draft'), OnDuty(w, job'[w]),
         ConversionIsWhole'
  PROVE  DeskInv'
<1>1. \A v \in Workers \ {w} : LeadRead(job'[v], status', agency', draft') /\ OnDuty(v, job'[v])
  BY OthersKeepRead DEF DeskInv
<1>2. QED BY <1>1 DEF DeskInv

(* A lead that changes its status, and was not and is not converted.       *)
LEMMA OtherMoveIsWhole ==
  ASSUME IInv, DeskInv, NEW i \in Intakes, NEW to \in IntakeStatuses \ {"converted"}, NEW a,
         status' = [status EXCEPT ![i] = to], status[i] # "converted",
         agency' = agency \/ agency' = [agency EXCEPT ![i] = a],
         UNCHANGED <<listing, draft, ties>>
  PROVE  ConversionIsWhole'
<1>1. listing[i] = Null
  BY DEF DeskInv, ConversionIsWhole
<1>2. ASSUME NEW k \in Intakes \ {i} PROVE status'[k] = status[k] /\ agency'[k] = agency[k]
  BY <1>2 DEF IInv, TypeOK
<1>3. status'[i] # "converted"
  BY DEF IInv, TypeOK
<1>4. QED BY <1>1, <1>2, <1>3 DEF DeskInv, ConversionIsWhole

LEMMA ResendReads ==
  ASSUME TwoDesks, IInv, DeskInv, NEW w \in Workers, Resend(w)
  PROVE  DeskInv' /\ LeadMove /\ Settled
<1> DEFINE i == job[w].intake
<1>1. job[w].at = "resend" /\ job[w] \in JobRows /\ i \in Intakes
  BY CarriesIntake DEF Resend
<1>2. status[i] \in {"declined", "expired"}
  BY <1>1 DEF DeskInv, LeadRead
<1>3. /\ job'[w] = [job[w] EXCEPT !.at = "announce"]
      /\ \A v \in Workers \ {w} : job'[v] = job[v]
  BY MovedOn DEF Resend, Steps
<1>4. job'[w].at = "announce"
  BY <1>1, <1>3 DEF JobRows
<1>5. /\ status' = [status EXCEPT ![i] = "submitted"]
      /\ agency' = [agency EXCEPT ![i] = job[w].agency] /\ UNCHANGED <<listing, draft, ties>>
  BY DEF Resend
<1> HIDE DEF i
<1>6. ConversionIsWhole'
  BY <1>1, <1>2, <1>5, OtherMoveIsWhole
<1>7. \A k \in Intakes \ {i} : status'[k] = status[k] /\ agency'[k] = agency[k]
  BY <1>5 DEF IInv, TypeOK
<1>8. DeskInv'
  BY <1>1, <1>3, <1>4, <1>5, <1>6, <1>7, LeadStepKeeps, NothingRead DEF LeadSteps, DeskSteps, i
<1>9. LeadMove
  BY <1>1, <1>2, <1>5 DEF LeadMove, IntakeTransitions, IInv, TypeOK
<1>10. QED BY <1>1, <1>2, <1>5, <1>8, <1>9, MoveSettles DEF IInv, TypeOK

LEMMA DecideReads ==
  ASSUME TwoDesks, IInv, DeskInv, NEW w \in Workers, Decide(w)
  PROVE  DeskInv' /\ LeadMove /\ Settled
<1> DEFINE i == job[w].intake
           to == job[w].to
<1>1. job[w].at = "decide" /\ i \in Intakes /\ to \in IntakeStatuses \ {"converted"}
  BY CarriesIntake DEF Decide, IInv, JobShape
<1>2. <<status[i], to>> \in Decisions
  BY <1>1 DEF DeskInv, LeadRead
<1>3. job'[w] = Idle /\ \A v \in Workers \ {w} : job'[v] = job[v]
  BY Returned DEF Decide
<1>4. job'[w].at \notin LeadSteps
  BY <1>3 DEF Idle, LeadSteps, DeskSteps
<1>5. /\ status' = [status EXCEPT ![i] = to] /\ UNCHANGED <<agency, listing, draft, ties>>
  BY DEF Decide
<1> HIDE DEF i, to
<1>6. ConversionIsWhole'
  BY <1>1, <1>2, <1>5, OtherMoveIsWhole DEF Decisions
<1>7. \A k \in Intakes \ {i} : status'[k] = status[k] /\ agency'[k] = agency[k]
  BY <1>5 DEF IInv, TypeOK
<1>8. DeskInv'
  BY <1>1, <1>3, <1>4, <1>6, <1>7, LeadStepKeeps, NothingRead DEF LeadSteps, DeskSteps, i
<1>9. LeadMove
  BY <1>1, <1>2, <1>5 DEF LeadMove, Decisions, IntakeTransitions, IInv, TypeOK
<1>10. QED BY <1>5, <1>8, <1>9, MoveSettles

LEMMA ExpireReads ==
  ASSUME TwoDesks, IInv, DeskInv, NEW w \in Workers, Expire(w)
  PROVE  DeskInv' /\ LeadMove /\ Settled
<1> DEFINE i == job[w].intake
<1>1. job[w].at = "expired" /\ job[w] \in JobRows /\ i \in Intakes
  BY CarriesIntake DEF Expire
<1>2. status[i] = "submitted" /\ \A r \in job[w].rest : status[r] = "submitted" /\ r # i
  BY <1>1 DEF DeskInv, LeadRead
<1>3. /\ job'[w] = [job[w] EXCEPT !.at = "prompt"]
      /\ \A v \in Workers \ {w} : job'[v] = job[v]
  BY MovedOn DEF Expire, Steps
<1>4. job'[w].at = "prompt" /\ job'[w].intake = i /\ job'[w].rest = job[w].rest
  BY <1>1, <1>3 DEF JobRows
<1>5. /\ status' = [status EXCEPT ![i] = "expired"] /\ UNCHANGED <<agency, listing, draft, ties>>
  BY DEF Expire
<1>6. job[w].rest \subseteq Intakes
  BY <1>1 DEF JobRows
<1> HIDE DEF i
<1>7. ConversionIsWhole'
  BY <1>1, <1>2, <1>5, OtherMoveIsWhole
<1>8. \A r \in job'[w].rest : status'[r] = "submitted" /\ r # job'[w].intake
  BY <1>2, <1>4, <1>5, <1>6 DEF IInv, TypeOK
<1>9. LeadRead(job'[w], status', agency', draft')
  BY <1>4, <1>8 DEF LeadRead, Converting
<1>10. \A k \in Intakes \ {i} : status'[k] = status[k] /\ agency'[k] = agency[k]
  BY <1>5 DEF IInv, TypeOK
<1>11. OnDuty(w, job'[w])
  BY <1>1, <1>4 DEF DeskInv, OnDuty, DeskSteps
<1>12. DeskInv'
  BY <1>1, <1>3, <1>7, <1>9, <1>10, <1>11, LeadStepKeeps DEF LeadSteps, DeskSteps, i
<1>13. LeadMove
  BY <1>1, <1>2, <1>5 DEF LeadMove, IntakeTransitions, IInv, TypeOK
<1>14. QED BY <1>5, <1>12, <1>13, MoveSettles

(* The conversion: its tie, its draft, and the link with the status.       *)
LEMMA TieReads ==
  ASSUME TwoDesks, IInv, DeskInv, NEW w \in Workers, Tie(w)
  PROVE  DeskInv' /\ LeadMove /\ Settled
<1>1. job[w].at = "tie" /\ job[w] \in JobRows
  BY CarriesIntake DEF Tie
<1>2. /\ job'[w] = [job[w] EXCEPT !.at = "draft"]
      /\ \A v \in Workers \ {w} : job'[v] = job[v]
  BY MovedOn DEF Tie, Steps
<1>3. job'[w].at = "draft" /\ job'[w].intake = job[w].intake /\ job'[w].agency = job[w].agency
  BY <1>1, <1>2 DEF JobRows
<1>4. UNCHANGED <<status, agency, listing, draft>> /\ ties \subseteq ties'
  BY DEF Tie
<1>5. ConversionIsWhole'
  BY <1>4 DEF DeskInv, ConversionIsWhole
<1>6. LeadRead(job'[w], status', agency', draft')
  BY <1>1, <1>3, <1>4 DEF DeskInv, LeadRead, Converting
<1>7. OnDuty(w, job'[w])
  BY <1>1, <1>3 DEF DeskInv, OnDuty, DeskSteps
<1>8. QED BY <1>1, <1>2, <1>4, <1>5, <1>6, <1>7, LeadStepKeeps DEF LeadSteps, DeskSteps, LeadMove, Settled

LEMMA CreateDraftReads ==
  ASSUME TwoDesks, IInv, DeskInv, NEW w \in Workers, CreateDraft(w)
  PROVE  DeskInv' /\ LeadMove /\ Settled
<1> DEFINE new == [intake |-> job[w].intake, agency |-> job[w].agency]
<1>1. PICK d \in Drafts :
         /\ draft[d] = NoDraft /\ draft' = [draft EXCEPT ![d] = new]
         /\ job' = [job EXCEPT ![w].at = "converted", ![w].draft = d]
  BY DEF CreateDraft
<1>2. job[w].at = "draft" /\ job[w] \in JobRows /\ job[w].intake \in Intakes
  BY CarriesIntake DEF CreateDraft
<1>3. /\ job'[w].at = "converted" /\ job'[w].draft = d
      /\ job'[w].intake = job[w].intake /\ job'[w].agency = job[w].agency
      /\ \A v \in Workers \ {w} : job'[v] = job[v]
  BY <1>1, <1>2 DEF JobRows, IInv, TypeOK
<1>4. UNCHANGED <<status, agency, listing, ties>>
  BY DEF CreateDraft
<1>5. draft'[d] = new /\ \A e \in Drafts \ {d} : draft'[e] = draft[e]
  BY <1>1 DEF IInv, TypeOK
<1>6. ASSUME NEW i \in Intakes, listing[i] # Null
      PROVE  listing[i] \in Drafts /\ listing[i] # d
  <2>1. listing[i] \in Drafts
    BY <1>6 DEF IInv, TypeOK
  <2>2. draft[listing[i]] = [intake |-> i, agency |-> agency[i]]
    BY <1>6 DEF DeskInv, ConversionIsWhole
  <2>3. draft[listing[i]].intake = i
    BY <2>2
  <2>4. draft[d].intake = Null
    BY <1>1 DEF NoDraft
  <2>5. QED BY <2>1, <2>3, <2>4, IntakesAssumption
<1>7. ConversionIsWhole'
  BY <1>4, <1>5, <1>6 DEF DeskInv, ConversionIsWhole
<1>8. LeadRead(job'[w], status', agency', draft')
  BY <1>2, <1>3, <1>4, <1>5 DEF DeskInv, LeadRead, Converting
<1>9. OnDuty(w, job'[w])
  BY <1>2, <1>3 DEF DeskInv, OnDuty, DeskSteps
<1>10. QED
  BY <1>2, <1>3, <1>4, <1>7, <1>8, <1>9, LeadStepKeeps DEF LeadSteps, DeskSteps, LeadMove, Settled

LEMMA ConvertReads ==
  ASSUME TwoDesks, IInv, DeskInv, NEW w \in Workers, Convert(w)
  PROVE  DeskInv' /\ LeadMove /\ Settled
<1> DEFINE i == job[w].intake
           d == job[w].draft
<1>1. /\ job[w].at = "converted" /\ i \in Intakes /\ d \in Drafts
  BY CarriesIntake DEF Convert, IInv, InOrder
<1>2. /\ status[i] = "accepted" /\ agency[i] = job[w].agency
      /\ draft[d] = [intake |-> i, agency |-> job[w].agency]
  BY <1>1 DEF DeskInv, LeadRead, Converting
<1>3. job'[w] = Idle /\ \A v \in Workers \ {w} : job'[v] = job[v]
  BY Returned DEF Convert
<1>4. job'[w].at \notin LeadSteps
  BY <1>3 DEF Idle, LeadSteps, DeskSteps
<1>5. /\ status' = [status EXCEPT ![i] = "converted"]
      /\ listing' = [listing EXCEPT ![i] = d] /\ UNCHANGED <<agency, draft, ties>>
  BY DEF Convert
<1> HIDE DEF i, d
<1>6. <<OwnerOf[i], agency[i]>> \in ties
  <2>1. draft[d] # NoDraft
    BY <1>1, <1>2, IntakesAssumption DEF NoDraft
  <2>2. QED BY <1>1, <1>2, <2>1 DEF IInv, Tied
<1>7. /\ status'[i] = "converted" /\ listing'[i] = d /\ d # Null
      /\ \A k \in Intakes \ {i} : status'[k] = status[k] /\ listing'[k] = listing[k]
  BY <1>1, <1>5, IntakesAssumption DEF IInv, TypeOK
<1>8. ConversionIsWhole'
  BY <1>1, <1>2, <1>5, <1>6, <1>7 DEF DeskInv, ConversionIsWhole
<1>9. DeskInv'
  BY <1>1, <1>3, <1>4, <1>5, <1>7, <1>8, LeadStepKeeps, NothingRead DEF LeadSteps, DeskSteps, i
<1>10. LeadMove
  BY <1>1, <1>2, <1>7 DEF LeadMove, IntakeTransitions
<1>11. Settled
  BY <1>1, <1>2, <1>5, <1>7 DEF Settled
<1>12. QED BY <1>9, <1>10, <1>11

(* The other steps: a new lead, a notice, the next lead of the batch.      *)
LEMMA OtherReads ==
  ASSUME TwoDesks, IInv, DeskInv, NEW w \in Workers,
         Insert(w) \/ Announce(w) \/ Prompt(w) \/ Crash(w)
  PROVE  DeskInv' /\ LeadMove /\ Settled
<1>1. CASE Insert(w)
  <2>1. PICK i \in Intakes :
           /\ status[i] = "none" /\ status' = [status EXCEPT ![i] = "submitted"]
           /\ agency' = [agency EXCEPT ![i] = job[w].agency]
           /\ job' = [job EXCEPT ![w].at = "announce", ![w].intake = i]
    BY <1>1 DEF Insert
  <2>2. UNCHANGED <<listing, draft, ties>> /\ job[w] \in JobRows
    BY <1>1, CarriesIntake DEF Insert
  <2>3. job'[w].at = "announce" /\ \A v \in Workers \ {w} : job'[v] = job[v]
    BY <2>1, <2>2 DEF IInv, TypeOK, JobRows
  <2>4. \A k \in Intakes : \/ status[k] = "none"
                           \/ status'[k] = status[k] /\ agency'[k] = agency[k]
    BY <2>1 DEF IInv, TypeOK
  <2>5. ConversionIsWhole'
    BY <2>1, <2>2, OtherMoveIsWhole
  <2>6. \A v \in Workers : LeadRead(job'[v], status', agency', draft') /\ OnDuty(v, job'[v])
    <3>1. LeadRead(job'[w], status', agency', draft') /\ OnDuty(w, job'[w])
      BY <2>3, NothingRead DEF LeadSteps, DeskSteps
    <3>2. ASSUME NEW v \in Workers \ {w}
          PROVE  LeadRead(job'[v], status', agency', draft') /\ OnDuty(v, job'[v])
      BY <2>2, <2>3, <2>4, NewLeadsKeepRead DEF DeskInv
    <3>3. QED BY <3>1, <3>2
  <2>7. LeadMove
    BY <2>1 DEF LeadMove, IntakeTransitions, IInv, TypeOK
  <2>8. QED BY <2>1, <2>2, <2>4, <2>5, <2>6, <2>7, MoveSettles DEF DeskInv
<1>2. CASE Announce(w) \/ Crash(w)
  <2>1. job'[w] = Idle /\ \A v \in Workers \ {w} : job'[v] = job[v]
    BY <1>2, Returned DEF Announce, Crash
  <2>2. UNCHANGED rows
    BY <1>2 DEF Announce, Crash
  <2>3. job'[w].at \notin LeadSteps
    BY <2>1 DEF Idle, LeadSteps, DeskSteps
  <2>4. \A v \in Workers : LeadRead(job'[v], status', agency', draft') /\ OnDuty(v, job'[v])
    BY <2>1, <2>2, <2>3, NothingRead DEF DeskInv, rows
  <2>5. QED BY <2>2, <2>4 DEF DeskInv, ConversionIsWhole, LeadMove, Settled, rows
<1>3. CASE Prompt(w)
  <2>1. PICK j \in Visits(job[w].rest) : job' = [job EXCEPT ![w] = j]
    BY <1>3 DEF Prompt
  <2>2. job'[w] = j /\ (\A v \in Workers \ {w} : job'[v] = job[v]) /\ UNCHANGED rows
    BY <1>3, <2>1 DEF IInv, TypeOK, Prompt
  <2>3. \A r \in job[w].rest : status[r] = "submitted"
    BY <1>3 DEF Prompt, DeskInv, LeadRead
  <2>4. LeadRead(j, status, agency, draft)
    <3>1. CASE j = Idle
      BY <3>1, NothingRead DEF Idle, LeadSteps, DeskSteps
    <3>2. CASE j # Idle
      <4>1. PICK r \in job[w].rest : j = Row(r, Null, "expired", "none", job[w].rest \ {r})
        BY <2>1, <3>2 DEF Visits
      <4>2. QED BY <2>3, <4>1 DEF LeadRead, Row, Converting
    <3>3. QED BY <3>1, <3>2
  <2>5. OnDuty(w, j)
    <3>1. j.at # "resend"
      BY <2>1 DEF Visits, Row, Idle
    <3>2. Duties[w] \cap DeskCalls # {}
      BY <1>3 DEF Prompt, DeskInv, OnDuty, DeskSteps
    <3>3. QED BY <3>1, <3>2 DEF OnDuty
  <2>6. \A v \in Workers : LeadRead(job'[v], status', agency', draft') /\ OnDuty(v, job'[v])
    BY <2>2, <2>4, <2>5 DEF DeskInv, rows
  <2>7. QED BY <2>2, <2>6 DEF DeskInv, ConversionIsWhole, LeadMove, Settled, rows
<1>4. QED BY <1>1, <1>2, <1>3

LEMMA NextDesk ==
  ASSUME TwoDesks, IInv, DeskInv, [Next]_vars
  PROVE  DeskInv' /\ LeadMove /\ Settled
<1>1. ASSUME NEW w \in Workers, BeginCall(w) PROVE DeskInv' /\ LeadMove /\ Settled
  <2>1. /\ LeadRead(job'[w], status, agency, draft) /\ OnDuty(w, job'[w])
        /\ \A v \in Workers \ {w} : job'[v] = job[v]
        /\ UNCHANGED rows
    BY <1>1, BeginReads
  <2>2. \A v \in Workers : LeadRead(job'[v], status', agency', draft') /\ OnDuty(v, job'[v])
    BY <2>1 DEF DeskInv, rows
  <2>3. QED BY <2>1, <2>2 DEF DeskInv, ConversionIsWhole, LeadMove, Settled, rows
<1>2. ASSUME NEW w \in Workers, Step(w) \/ Crash(w) PROVE DeskInv' /\ LeadMove /\ Settled
  BY <1>2, ResendReads, DecideReads, ExpireReads, TieReads, CreateDraftReads, ConvertReads,
     OtherReads DEF Step
<1>3. ASSUME UNCHANGED <<rows, job>> PROVE DeskInv' /\ LeadMove /\ Settled
  BY <1>3 DEF DeskInv, ConversionIsWhole, LeadMove, Settled, rows
<1>4. ASSUME \/ \E d \in Drafts : Publish(d)
             \/ \E a \in Agencies : SetActive(a)
             \/ \E i \in Intakes : FiveDaysPass(i)
             \/ UNCHANGED vars
      PROVE  UNCHANGED <<rows, job>>
  BY <1>4 DEF Publish, SetActive, FiveDaysPass, vars
<1>5. QED BY <1>1, <1>2, <1>3, <1>4 DEF Next

LEMMA InitDeskInv == Init => DeskInv
<1> SUFFICES ASSUME Init PROVE DeskInv
  OBVIOUS
<1>1. ConversionIsWhole
  BY DEF Init, ConversionIsWhole
<1>2. ASSUME NEW w \in Workers PROVE job[w].at \notin LeadSteps
  BY DEF Init, Idle, LeadSteps, DeskSteps
<1>3. ASSUME NEW w \in Workers
      PROVE  LeadRead(job[w], status, agency, draft) /\ OnDuty(w, job[w])
  <2> SUFFICES ASSUME NEW j, j = job[w]
               PROVE  LeadRead(j, status, agency, draft) /\ OnDuty(w, j)
    OBVIOUS
  <2>1. j.at \notin LeadSteps
    BY <1>2
  <2>2. QED BY <2>1, NothingRead
<1>4. QED BY <1>1, <1>3 DEF DeskInv

(* Nobody answers a lead that is not in hand, and a lead changes hands     *)
(* only where the owner's call may, or when it is new.                     *)
InHand ==
  /\ \A w \in Workers : Answers(w) /\ rows' # rows => agency[job[w].intake] = job[w].agency
  /\ \A i \in Intakes : agency'[i] # agency[i] => status[i] \in {"none", "declined", "expired"}

LEMMA NextInHand == ASSUME IInv, DeskInv, [Next]_vars PROVE InHand
<1>1. ASSUME NEW w \in Workers, Answers(w) PROVE agency[job[w].intake] = job[w].agency
  BY <1>1 DEF Answers, DeskInv, LeadRead, Converting
<1>2. ASSUME NEW i \in Intakes, NEW w \in Workers, Insert(w), agency'[i] # agency[i]
      PROVE  status[i] = "none"
  BY <1>2 DEF Insert, IInv, TypeOK
<1>3. ASSUME NEW i \in Intakes, NEW w \in Workers, Resend(w), agency'[i] # agency[i]
      PROVE  status[i] \in {"declined", "expired"}
  <2>1. i = job[w].intake /\ job[w].at = "resend"
    BY <1>3 DEF Resend, IInv, TypeOK
  <2>2. QED BY <2>1 DEF DeskInv, LeadRead
<1>4. ASSUME NEW w \in Workers, BeginCall(w) \/ Step(w) \/ Crash(w), ~Insert(w), ~Resend(w)
      PROVE  agency' = agency
  BY <1>4, BeginReads
     DEF Step, Announce, Decide, Tie, CreateDraft, Convert, Expire, Prompt, Crash, rows
<1>5. ASSUME \/ \E d \in Drafts : Publish(d)
             \/ \E a \in Agencies : SetActive(a)
             \/ \E i \in Intakes : FiveDaysPass(i)
             \/ UNCHANGED vars
      PROVE  agency' = agency
  BY <1>5 DEF Publish, SetActive, FiveDaysPass, vars, rows
<1>6. QED BY <1>1, <1>2, <1>3, <1>4, <1>5 DEF Next, InHand

(* Where the agencies and the timer have one worker and owners another, an *)
(* agency's call, which writes by id what it decided on an earlier read,   *)
(* writes to a lead that agency still has, and no lead is handed on while  *)
(* an agency has it in work: the owner's reassign() comes at any moment    *)
(* between its steps, and calls are cut short.                             *)
THEOREM AnswersStayInHand == ASSUME TwoDesks PROVE Spec => AnswersInHand
<1>1. IInv /\ DeskInv /\ [Next]_vars => DeskInv' /\ [InHand]_vars
  BY NextDesk, NextInHand
<1>2. [InHand]_vars =>
        [/\ \A w \in Workers : Answers(w) /\ rows' # rows => agency[job[w].intake] = job[w].agency
         /\ \A i \in Intakes : agency'[i] # agency[i] => status[i] \in {"none", "declined", "expired"}]_vars
  BY DEF InHand
<1>3. QED BY <1>1, <1>2, InitIInv, NextIInv, InitDeskInv, PTL DEF Spec, AnswersInHand

(* Then a lead moves as the table says only, and a converted one never     *)
(* again (intakes.service.ts:197), though calls are cut short and          *)
(* submissions, publications and suspensions come in between.              *)
THEOREM ConvertedStaysConverted ==
  ASSUME TwoDesks PROVE Spec => ConvertedIsFinal /\ [][LeadMove]_vars
<1>1. IInv /\ DeskInv /\ [Next]_vars => DeskInv' /\ [LeadMove]_vars /\ [Settled]_vars
  BY NextDesk
<1>2. [Settled]_vars =>
        [\A i \in Intakes : status[i] = "converted"
            => status'[i] = "converted" /\ agency'[i] = agency[i] /\ listing'[i] = listing[i]]_vars
  BY DEF Settled
<1>3. QED BY <1>1, <1>2, InitIInv, NextIInv, InitDeskInv, PTL DEF Spec, ConvertedIsFinal

(* Then the three writes of a conversion agree whenever one looks.         *)
THEOREM ConversionsAreWhole == ASSUME TwoDesks PROVE Spec => []ConversionIsWhole
<1>1. IInv /\ DeskInv /\ [Next]_vars => DeskInv'
  BY NextDesk
<1>2. DeskInv => ConversionIsWhole
  BY DEF DeskInv
<1>3. QED BY <1>1, <1>2, InitIInv, NextIInv, InitDeskInv, PTL DEF Spec

(* A draft, once made, is of the agency that has its lead, which is        *)
(* converted or about to be, and of no lead that another is made from.     *)
Bound(i, s, j) ==
  s[i] = "converted" \/ \E w \in Workers : j[w].at = "converted" /\ j[w].intake = i

MadeInv ==
  /\ \A d \in published : draft[d] # NoDraft
  /\ \A d \in Drafts : draft[d] # NoDraft =>
        /\ draft[d].intake \in Intakes /\ Bound(draft[d].intake, status, job)
        /\ agency[draft[d].intake] = draft[d].agency
  /\ \A d, e \in Drafts : draft[d] # NoDraft /\ draft[e].intake = draft[d].intake => e = d

(* A step that makes no draft and leaves the bound leads bound.            *)
LEMMA BoundStays ==
  ASSUME MadeInv, draft' = draft, \A d \in published' : draft[d] # NoDraft,
         \A i \in Intakes :
            Bound(i, status, job) => Bound(i, status', job') /\ agency'[i] = agency[i]
  PROVE  MadeInv'
BY DEF MadeInv

(* A bound lead that is not converted is in the hands of that worker.      *)
LEMMA BoundElsewhere ==
  ASSUME TwoDesks, DeskInv, NEW w \in Workers, job[w].at \in DeskSteps,
         NEW i \in Intakes, Bound(i, status, job)
  PROVE  status[i] = "converted" \/ (job[w].at = "converted" /\ job[w].intake = i)
BY OneEach DEF Bound, LeadSteps, DeskSteps

(* The steps of the desk but the draft's.                                  *)
LEMMA DeskStepBinds ==
  ASSUME TwoDesks, IInv, DeskInv, MadeInv, NEW w \in Workers,
         Decide(w) \/ Tie(w) \/ Convert(w) \/ Expire(w)
  PROVE  MadeInv'
<1> DEFINE i == job[w].intake
<1>1. i \in Intakes /\ job[w].at \in DeskSteps
  BY CarriesIntake DEF Decide, Tie, Convert, Expire, DeskSteps
<1>2. status[i] # "converted"
  BY DEF DeskInv, LeadRead, Decisions, Converting, Decide, Tie, Convert, Expire
<1>3. /\ draft' = draft /\ published' = published
      /\ \A k \in Intakes \ {i} : status'[k] = status[k] /\ agency'[k] = agency[k]
      /\ Convert(w) => status'[i] = "converted" /\ agency'[i] = agency[i]
      /\ job[w].at = "converted" => Convert(w)
  BY <1>1 DEF Decide, Tie, Convert, Expire, IInv, TypeOK
<1> HIDE DEF i
<1>4. ASSUME NEW k \in Intakes, Bound(k, status, job)
      PROVE  Bound(k, status', job') /\ agency'[k] = agency[k]
  <2>1. status[k] = "converted" \/ (job[w].at = "converted" /\ k = i)
    BY <1>1, <1>4, BoundElsewhere DEF i
  <2>2. status'[k] = "converted" /\ agency'[k] = agency[k]
    BY <1>2, <1>3, <2>1
  <2>3. QED BY <2>2 DEF Bound
<1>5. QED BY <1>3, <1>4, BoundStays DEF MadeInv

(* The owner's call writes to a lead that is not bound.                    *)
LEMMA ResendBinds ==
  ASSUME IInv, DeskInv, MadeInv, NEW w \in Workers, Resend(w)
  PROVE  MadeInv'
<1> DEFINE i == job[w].intake
<1>1. i \in Intakes /\ job[w].at = "resend" /\ status[i] \in {"declined", "expired"}
  BY CarriesIntake DEF Resend, DeskInv, LeadRead
<1>2. \A v \in Workers \ {w} : job'[v] = job[v]
  BY MovedOn DEF Resend, Steps
<1>3. /\ draft' = draft /\ published' = published
      /\ \A k \in Intakes \ {i} : status'[k] = status[k] /\ agency'[k] = agency[k]
  BY <1>1 DEF Resend, IInv, TypeOK
<1>4. ASSUME NEW k \in Intakes, Bound(k, status, job)
      PROVE  Bound(k, status', job') /\ agency'[k] = agency[k]
  <2>1. CASE status[k] = "converted"
    BY <1>1, <1>3, <2>1 DEF Bound
  <2>2. ASSUME NEW v \in Workers, job[v].at = "converted", job[v].intake = k
        PROVE  Bound(k, status', job') /\ agency'[k] = agency[k]
    <3>1. status[k] = "accepted" /\ v # w
      BY <1>1, <2>2 DEF DeskInv, LeadRead, Converting
    <3>2. QED BY <1>1, <1>2, <1>3, <2>2, <3>1 DEF Bound
  <2>3. QED BY <1>4, <2>1, <2>2 DEF Bound
<1>5. QED BY <1>3, <1>4, BoundStays DEF MadeInv

(* The draft is the first of its lead, and binds it.                       *)
LEMMA CreateDraftBinds ==
  ASSUME TwoDesks, IInv, DeskInv, MadeInv, NEW w \in Workers, CreateDraft(w)
  PROVE  MadeInv'
<1> DEFINE i == job[w].intake
           new == [intake |-> i, agency |-> job[w].agency]
<1>1. PICK d \in Drafts :
         /\ draft[d] = NoDraft /\ draft' = [draft EXCEPT ![d] = new]
         /\ job' = [job EXCEPT ![w].at = "converted", ![w].draft = d]
  BY DEF CreateDraft
<1>2. /\ job[w].at = "draft" /\ job[w] \in JobRows /\ i \in Intakes
      /\ status[i] = "accepted" /\ agency[i] = job[w].agency
  BY CarriesIntake DEF CreateDraft, DeskInv, LeadRead, Converting
<1>3. job'[w].at = "converted" /\ job'[w].intake = i
  BY <1>1, <1>2 DEF JobRows, IInv, TypeOK
<1>4. UNCHANGED <<status, agency, published>>
  BY DEF CreateDraft
<1>5. draft'[d] = new /\ \A e \in Drafts \ {d} : draft'[e] = draft[e]
  BY <1>1 DEF IInv, TypeOK
<1>6. ASSUME NEW e \in Drafts \ {d}, draft[e] # NoDraft
      PROVE  /\ draft[e].intake \in Intakes /\ draft[e].intake # i
             /\ status[draft[e].intake] = "converted"
  BY <1>2, <1>6, BoundElsewhere DEF MadeInv, LeadSteps, DeskSteps
<1>7. new # NoDraft /\ new.intake = i /\ new.agency = job[w].agency
  BY <1>2, IntakesAssumption DEF NoDraft
<1>8. ASSUME NEW e \in Drafts PROVE e = d \/ draft[e].intake # i
  <2>1. CASE draft[e] = NoDraft
    BY <1>2, <2>1, IntakesAssumption DEF NoDraft
  <2>2. CASE e # d /\ draft[e] # NoDraft
    BY <1>6, <2>2
  <2>3. QED BY <1>1, <2>1, <2>2
<1> HIDE DEF i, new
<1>9. \A e \in published' : draft'[e] # NoDraft
  BY <1>1, <1>4, <1>5, <1>7 DEF MadeInv, IInv, TypeOK
<1>10. ASSUME NEW e \in Drafts, draft'[e] # NoDraft
       PROVE  /\ draft'[e].intake \in Intakes /\ Bound(draft'[e].intake, status', job')
              /\ agency'[draft'[e].intake] = draft'[e].agency
  <2>1. CASE e = d
    <3>1. draft'[e].intake = i /\ draft'[e].agency = job[w].agency
      BY <1>5, <1>7, <2>1
    <3>2. Bound(i, status', job')
      BY <1>3 DEF Bound
    <3>3. QED BY <1>2, <1>4, <3>1, <3>2
  <2>2. CASE e # d
    <3>1. draft'[e] = draft[e] /\ draft[e] # NoDraft
      BY <1>5, <1>10, <2>2
    <3>2. status'[draft'[e].intake] = "converted" /\ draft'[e].intake \in Intakes
      BY <1>4, <1>6, <2>2, <3>1
    <3>3. QED BY <1>4, <3>1, <3>2 DEF MadeInv, Bound
  <2>3. QED BY <2>1, <2>2
<1>11. ASSUME NEW e \in Drafts, NEW f \in Drafts, draft'[e] # NoDraft,
              draft'[f].intake = draft'[e].intake
       PROVE  f = e
  BY <1>1, <1>5, <1>6, <1>7, <1>8, <1>11 DEF MadeInv
<1>12. QED BY <1>9, <1>10, <1>11 DEF MadeInv

(* The steps outside it: one that is not cut short keeps its lead bound.   *)
LEMMA OtherBinds ==
  ASSUME ~MayCrash, IInv, DeskInv, MadeInv, NEW w \in Workers,
         BeginCall(w) \/ Insert(w) \/ Announce(w) \/ Prompt(w) \/ Crash(w)
  PROVE  MadeInv'
<1>1. job[w].at # "converted" /\ draft' = draft /\ published' = published
  BY BeginReads DEF Insert, Announce, Prompt, Crash, rows
<1>2. \A v \in Workers \ {w} : job'[v] = job[v]
  BY BeginReads DEF Insert, Announce, Prompt, Crash, Return, IInv, TypeOK
<1>3. \A k \in Intakes : \/ status[k] = "none"
                         \/ status'[k] = status[k] /\ agency'[k] = agency[k]
  BY BeginReads DEF Insert, Announce, Prompt, Crash, rows, IInv, TypeOK
<1>4. ASSUME NEW k \in Intakes, Bound(k, status, job)
      PROVE  Bound(k, status', job') /\ agency'[k] = agency[k]
  <2>1. CASE status[k] = "converted"
    BY <1>3, <2>1 DEF Bound
  <2>2. ASSUME NEW v \in Workers, job[v].at = "converted", job[v].intake = k
        PROVE  Bound(k, status', job') /\ agency'[k] = agency[k]
    <3>1. status[k] = "accepted"
      BY <2>2 DEF DeskInv, LeadRead, Converting
    <3>2. QED BY <1>1, <1>2, <1>3, <2>2, <3>1 DEF Bound
  <2>3. QED BY <1>4, <2>1, <2>2 DEF Bound
<1>5. QED BY <1>1, <1>4, BoundStays DEF MadeInv

LEMMA NextMade ==
  ASSUME TwoDesks, ~MayCrash, IInv, DeskInv, MadeInv, [Next]_vars
  PROVE  MadeInv'
<1>1. ASSUME NEW w \in Workers, BeginCall(w) \/ Step(w) \/ Crash(w) PROVE MadeInv'
  BY <1>1, ResendBinds, DeskStepBinds, CreateDraftBinds, OtherBinds DEF Step
<1>2. ASSUME \/ \E d \in Drafts : Publish(d)
             \/ \E a \in Agencies : SetActive(a)
             \/ \E i \in Intakes : FiveDaysPass(i)
             \/ UNCHANGED vars
      PROVE  MadeInv'
  <2>1. UNCHANGED <<rows, job>>
    BY <1>2 DEF Publish, SetActive, FiveDaysPass, vars
  <2>2. \A d \in published' : draft[d] # NoDraft
    BY <1>2 DEF Publish, SetActive, FiveDaysPass, vars, MadeInv
  <2>3. QED BY <2>1, <2>2, BoundStays DEF rows, Bound
<1>3. QED BY <1>1, <1>2 DEF Next

LEMMA InitMade == Init => MadeInv
BY DEF Init, MadeInv

(* The same two desks, and no call cut short: a house is published from    *)
(* one draft, by the agency that has its lead, whenever agencies publish   *)
(* and are suspended.                                                      *)
THEOREM HousesArePublishedOnce ==
  ASSUME TwoDesks, ~MayCrash PROVE Spec => []PublishedOnce
<1>1. IInv /\ DeskInv /\ MadeInv /\ [Next]_vars => IInv' /\ DeskInv' /\ MadeInv'
  BY NextIInv, NextDesk, NextMade
<1>2. Init => IInv /\ DeskInv /\ MadeInv
  BY InitIInv, InitDeskInv, InitMade
<1>3. IInv /\ MadeInv => PublishedOnce
  BY DEF IInv, TypeOK, MadeInv, PublishedOnce
<1>4. QED BY <1>1, <1>2, <1>3, PTL DEF Spec
================================================================================
