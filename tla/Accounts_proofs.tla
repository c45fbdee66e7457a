----------------------------- MODULE Accounts_proofs -----------------------------
(***************************************************************************)
(* People and their rows: types whatever overlaps; one account per person  *)
(* and final links if sign-ins and webhooks come one at a time; nobody     *)
(* leaves with ties if nobody signs anything for the leaver meanwhile.     *)
(* Agencies' invites overlap everything in all three.  Last, what keeps    *)
(* the invites themselves in step: that they take turns with sign-ins.     *)
(***************************************************************************)
EXTENDS Accounts, TLAPS

DoorCalls == {"request", "leave", "webhook"}
DoorSteps == {"find", "find_email", "link", "claim", "create", "revive", "refresh"}
LeaveSteps == {"count", "list", "withdraw"}

(* What a call has in hand at each of its steps.                           *)
JobFacts(w, j, known) ==
  /\ j.at = "idle" \/ j.call \in Duties[w]
  /\ j.at \in DoorSteps =>
       /\ j.call \in DoorCalls /\ j.account \in Accounts
       /\ j.call = "webhook" => j.email \in Emails
  /\ j.at \in {"find_email", "link"} => j.email \in Emails
  /\ j.at \in {"link", "claim", "revive", "refresh", "switch_off"} \cup LeaveSteps =>
       j.row \in known
  /\ j.at = "refresh" => j.call = "webhook"
  /\ j.at = "revive" => j.call # "webhook"
  /\ j.at \in LeaveSteps => j.call = "leave"
  /\ j.at = "switch_off" => j.call \in {"leave", "activate"}
  /\ j.at = "make_owner" =>
       /\ j.call = "invite" /\ j.agency \in Agencies
       /\ j.row \in known \cup {Null}

(* TypeOK without the calls in flight.                                     *)
Tables ==
  /\ clerk \in [Accounts -> {"none", "open", "deleted"}]
  /\ address \in [Accounts -> Emails \cup {Null}]
  /\ events \in [Accounts -> SUBSET Events]
  /\ user \in [Rows -> Users \cup {Null}]
  /\ owner \in [Rows -> [Agencies -> {"none", "invited", "claimed"}]]
  /\ ties \in [Rows -> SUBSET Ties]
  /\ \A c \in Accounts : clerk[c] = "open" => address[c] \in Emails
  /\ \A r \in Rows : user[r] = Null =>
       ties[r] = {} /\ \A a \in Agencies : owner[r][a] = "none"

IInv == Tables /\ job \in [Workers -> Jobs] /\ \A w \in Workers : JobFacts(w, job[w], Known)

LEMMA NullIsNobody ==
  /\ Null \notin Users /\ Null \notin Rows /\ Null \notin Emails
  /\ Null \notin Accounts /\ Null \notin Agencies
BY AccountsAssumption

LEMMA IdleFacts ==
  Idle \in Jobs /\ Idle.at = "idle" /\ \A w, known : JobFacts(w, Idle, known)
<1>1. Idle \in Jobs /\ Idle.at = "idle" BY DEF Idle, Jobs
<1> QED BY <1>1 DEF JobFacts, DoorSteps, LeaveSteps, Idle

LEMMA JobTyped ==
  ASSUME IInv, NEW w \in Workers
  PROVE  job[w] \in Jobs /\ JobFacts(w, job[w], Known)
BY DEF IInv

(* A step moves the call of one worker on; rows are never deleted, so what *)
(* the others have in hand stays good.                                     *)
LEMMA StepKeeps ==
  ASSUME IInv, NEW w \in Workers, NEW j \in Jobs, job' = [job EXCEPT ![w] = j],
         Tables', Known \subseteq Known', JobFacts(w, j, Known')
  PROVE  IInv'
<1>1. job' \in [Workers -> Jobs] BY DEF IInv
<1>2. ASSUME NEW v \in Workers PROVE JobFacts(v, job'[v], Known')
  <2>1. CASE v = w BY <2>1 DEF IInv
  <2>2. CASE v # w
    <3>1. job'[v] = job[v] /\ JobFacts(v, job[v], Known) BY <2>2 DEF IInv
    <3> QED BY <3>1 DEF JobFacts
  <2> QED BY <2>1, <2>2
<1> QED BY <1>1, <1>2 DEF IInv

LEMMA OthersKeep ==
  ASSUME IInv, UNCHANGED job, Tables', Known \subseteq Known'
  PROVE  IInv'
<1>1. ASSUME NEW v \in Workers PROVE JobFacts(v, job'[v], Known')
  <2>1. job'[v] = job[v] /\ JobFacts(v, job[v], Known) BY DEF IInv
  <2> QED BY <2>1 DEF JobFacts
<1> QED BY <1>1 DEF IInv

LEMMA SameTables ==
  ASSUME Tables, UNCHANGED <<db, outside>> PROVE Tables' /\ Known' = Known
BY DEF Tables, db, outside, Known

(* A row is written, or inserted.                                          *)
LEMMA UserWritten ==
  ASSUME Tables, NEW r \in Rows, NEW u \in Users, user' = [user EXCEPT ![r] = u],
         UNCHANGED <<clerk, address, owner, ties>>, events' \in [Accounts -> SUBSET Events]
  PROVE  Tables' /\ Known' = Known \cup {r}
<1>1. user' \in [Rows -> Users \cup {Null}] BY DEF Tables
<1>2. \A s \in Rows : user'[s] = Null <=> user[s] = Null /\ s # r
  BY NullIsNobody DEF Tables
<1> QED BY <1>1, <1>2 DEF Tables, Known

LEMMA KnownRow ==
  ASSUME Tables, NEW r \in Known PROVE r \in Rows /\ user[r] \in Users
BY DEF Tables, Known

LEMMA ClerkKeeps ==
  ASSUME IInv, NEW c \in Accounts,
         DeleteAccount(c) \/ \E e \in Emails : SignUp(c, e) \/ UpdateProfile(c, e)
  PROVE  IInv'
<1>1. UNCHANGED <<user, owner, ties, job>>
  BY DEF SignUp, UpdateProfile, DeleteAccount, db
<1>2. /\ clerk' \in [Accounts -> {"none", "open", "deleted"}]
      /\ address' \in [Accounts -> Emails \cup {Null}]
      /\ events' \in [Accounts -> SUBSET Events]
      /\ \A d \in Accounts : clerk'[d] = "open" => address'[d] \in Emails
  BY DEF SignUp, UpdateProfile, DeleteAccount, IInv, Tables, Events
<1>3. Tables' /\ Known' = Known BY <1>1, <1>2 DEF IInv, Tables, Known
<1> QED BY <1>1, <1>3, OthersKeep

LEMMA DeliverKeeps ==
  ASSUME IInv, NEW w \in Workers, NEW c \in Accounts, NEW event \in Events,
         Deliver(w, c, event)
  PROVE  IInv'
<1>1. CASE event = "deleted"
  <2>1. /\ user' = [r \in Rows |-> IF r \in Of(c) THEN [user[r] EXCEPT !.active = FALSE]
                                   ELSE user[r]]
        /\ events' \in [Accounts -> SUBSET Events]
        /\ UNCHANGED <<clerk, address, owner, ties, job>>
    BY <1>1 DEF Deliver, Answer, IInv, Tables
  <2>2. ASSUME NEW r \in Rows
        PROVE  /\ user'[r] \in Users \cup {Null}
               /\ user'[r] = Null <=> user[r] = Null
    <3>1. CASE r \in Of(c)
      <4>1. user[r] \in Users BY <3>1, KnownRow DEF Of, IInv
      <4>2. user'[r] \in Users BY <2>1, <3>1, <4>1 DEF Users
      <4> QED BY <4>1, <4>2, NullIsNobody
    <3>2. CASE r \notin Of(c) BY <2>1, <3>2 DEF IInv, Tables
    <3> QED BY <3>1, <3>2
  <2>3. user' \in [Rows -> Users \cup {Null}] BY <2>1, <2>2
  <2>4. Tables' /\ Known' = Known BY <2>1, <2>2, <2>3 DEF IInv, Tables, Known
  <2> QED BY <2>1, <2>4, OthersKeep
<1>2. CASE event # "deleted"
  <2> DEFINE j == [Idle EXCEPT !.at = "find", !.call = "webhook", !.account = c,
                               !.email = event]
  <2>1. job' = [job EXCEPT ![w] = j] /\ "webhook" \in Duties[w] /\ UNCHANGED <<db, outside>>
    BY <1>2 DEF Deliver, Free, db, outside
  <2>2. event \in Emails BY <1>2 DEF Events
  <2>3. /\ j \in Jobs
        /\ j.at = "find" /\ j.call = "webhook" /\ j.account = c /\ j.email = event
    BY <2>2, IdleFacts DEF Jobs, Steps, Calls, Idle
  <2> HIDE DEF j
  <2>4. JobFacts(w, j, Known') BY <2>1, <2>2, <2>3 DEF JobFacts, DoorCalls, DoorSteps, LeaveSteps
  <2> QED BY <2>1, <2>3, <2>4, StepKeeps, SameTables DEF IInv
<1> QED BY <1>1, <1>2

LEMMA RequestKeeps ==
  ASSUME IInv, NEW w \in Workers, NEW c \in Accounts, NEW call, NEW email,
         Request(w, c, call, email)
  PROVE  IInv'
<1> DEFINE j == [Idle EXCEPT !.at = "find", !.call = call, !.account = c, !.email = email]
<1>1. /\ job' = [job EXCEPT ![w] = j] /\ call \in Duties[w] /\ call \in {"request", "leave"}
      /\ email \in {address[c], Null} /\ UNCHANGED <<db, outside>>
  BY DEF Request, Free
<1>2. address[c] \in Emails BY DEF Request, IInv, Tables
<1>3. j \in Jobs /\ j.at = "find" /\ j.call = call /\ j.account = c
  BY <1>1, <1>2, IdleFacts DEF Jobs, Steps, Calls, Idle
<1> HIDE DEF j
<1>4. JobFacts(w, j, Known') BY <1>1, <1>3 DEF JobFacts, DoorCalls, DoorSteps, LeaveSteps
<1> QED BY <1>1, <1>3, <1>4, StepKeeps, SameTables DEF IInv

(* A step that only looks.                                                 *)
LEMMA LookKeeps ==
  ASSUME IInv, NEW w \in Workers, NEW j \in Jobs, job' = [job EXCEPT ![w] = j],
         JobFacts(w, j, Known), UNCHANGED <<db, outside>>
  PROVE  IInv'
<1>1. Tables' /\ Known' = Known BY SameTables DEF IInv
<1> QED BY <1>1, StepKeeps

LEMMA GotoRow ==
  ASSUME IInv, NEW w \in Workers, NEW step \in Steps, Goto(w, step)
  PROVE  \E j \in Jobs : j = [job[w] EXCEPT !.at = step] /\ job' = [job EXCEPT ![w] = j]
<1>1. job[w] \in Jobs BY DEF IInv
<1>2. [job[w] EXCEPT !.at = step] \in Jobs BY <1>1 DEF Jobs
<1>3. job' = [job EXCEPT ![w] = [job[w] EXCEPT !.at = step]]
  BY <1>1 DEF Goto, IInv
<1> QED BY <1>2, <1>3

LEMMA FindKeeps == ASSUME IInv, NEW w \in Workers, Find(w) PROVE IInv'
<1> DEFINE k == job[w]
<1>1. k \in Jobs /\ k.at = "find" /\ JobFacts(w, k, Known) BY JobTyped DEF Find
<1>2. k.call \in Duties[w] /\ k.call \in DoorCalls /\ k.account \in Accounts
      /\ (k.call = "webhook" => k.email \in Emails)
  BY <1>1 DEF JobFacts, DoorSteps
<1>3. UNCHANGED <<db, outside>> BY DEF Find
<1>4. CASE Of(k.account) = {}
  <2> DEFINE j == [k EXCEPT !.at = IF k.email = Null THEN "create" ELSE "find_email"]
  <2>1. job' = [job EXCEPT ![w] = j] BY <1>4 DEF Find
  <2>2. /\ j \in Jobs /\ j.at = (IF k.email = Null THEN "create" ELSE "find_email")
        /\ j.call = k.call /\ j.account = k.account /\ j.email = k.email
    BY <1>1 DEF Jobs, Steps
  <2>3. k.email \in Emails \cup {Null} BY <1>1 DEF Jobs
  <2> HIDE DEF j
  <2>4. JobFacts(w, j, Known)
    BY <1>2, <2>2, <2>3 DEF JobFacts, DoorSteps, LeaveSteps
  <2> QED BY <1>3, <2>1, <2>2, <2>4, LookKeeps
<1>5. CASE Of(k.account) # {}
  <2> DEFINE r == CHOOSE r \in Of(k.account) : TRUE
  <2>1. r \in Of(k.account) BY <1>5
  <2>2. r \in Known BY <2>1 DEF Of
  <2> HIDE DEF r
  <2>3. r \in Rows /\ user[r].active \in BOOLEAN BY <2>2, KnownRow DEF IInv, Users
  <2>4. job' = [job EXCEPT ![w] =
            CASE k.call = "webhook" -> [k EXCEPT !.row = r, !.at = "refresh"]
              [] k.call # "webhook" /\ ~user[r].active -> [k EXCEPT !.row = r, !.at = "revive"]
              [] k.call = "leave" /\ user[r].active -> [k EXCEPT !.row = r, !.at = "count"]
              [] k.call = "request" /\ user[r].active -> Idle]
    BY <1>5 DEF Find, r
  <2>5. PICK step \in {"refresh", "revive", "count", "idle"} :
          /\ job' = [job EXCEPT ![w] = IF step = "idle" THEN Idle
                                       ELSE [k EXCEPT !.row = r, !.at = step]]
          /\ step = "refresh" => k.call = "webhook"
          /\ step = "revive" => k.call # "webhook"
          /\ step = "count" => k.call = "leave"
    <3>1. CASE k.call = "webhook" BY <2>4, <3>1
    <3>2. CASE k.call # "webhook" /\ ~user[r].active BY <2>4, <3>2
    <3>3. CASE k.call = "leave" /\ user[r].active BY <2>4, <3>3
    <3>4. CASE k.call = "request" /\ user[r].active BY <2>4, <3>4
    <3> QED BY <1>2, <2>3, <3>1, <3>2, <3>3, <3>4 DEF DoorCalls
  <2> DEFINE j == IF step = "idle" THEN Idle ELSE [k EXCEPT !.row = r, !.at = step]
  <2>6. /\ j \in Jobs
        /\ step # "idle" => /\ j.at = step /\ j.row = r /\ j.call = k.call
                            /\ j.account = k.account /\ j.email = k.email
    <3>1. CASE step = "idle" BY <3>1, IdleFacts
    <3>2. CASE step # "idle"
      <4>1. j = [k EXCEPT !.row = r, !.at = step] /\ step \in Steps BY <3>2 DEF Steps
      <4> HIDE DEF j
      <4> QED BY <1>1, <2>3, <4>1 DEF Jobs
    <3> QED BY <3>1, <3>2
  <2>7. step = "idle" => j = Idle OBVIOUS
  <2> HIDE DEF j
  <2>8. JobFacts(w, j, Known)
    <3>1. CASE step = "idle" BY <2>7, <3>1, IdleFacts
    <3>2. CASE step # "idle"
      BY <1>2, <2>2, <2>5, <2>6, <3>2 DEF JobFacts, DoorSteps, LeaveSteps
    <3> QED BY <3>1, <3>2
  <2>9. job' = [job EXCEPT ![w] = j] BY <2>5 DEF j
  <2> QED BY <1>3, <2>6, <2>8, <2>9, LookKeeps
<1> QED BY <1>4, <1>5

LEMMA FindEmailKeeps == ASSUME IInv, NEW w \in Workers, FindEmail(w) PROVE IInv'
<1> DEFINE k == job[w]
<1>1. k \in Jobs /\ k.at = "find_email" /\ JobFacts(w, k, Known) BY JobTyped DEF FindEmail
<1>2. UNCHANGED <<db, outside>> BY DEF FindEmail
<1>3. PICK row \in Known \cup {k.row}, step \in {"link", "create"} :
        /\ job' = [job EXCEPT ![w] = [k EXCEPT !.row = row, !.at = step]]
        /\ step = "link" => row \in Known
  <2>1. CASE WithEmail(k.email) = {}
    <3>1. job' = [job EXCEPT ![w] = [k EXCEPT !.at = "create"]]
      BY <1>1, <2>1 DEF FindEmail, Goto, IInv
    <3>2. [k EXCEPT !.at = "create"] = [k EXCEPT !.row = k.row, !.at = "create"]
      BY <1>1 DEF Jobs
    <3> QED BY <3>1, <3>2
  <2>2. CASE WithEmail(k.email) # {}
    <3>1. PICK r \in WithEmail(k.email) :
            job' = [job EXCEPT ![w].row = r,
                       ![w].at = IF user[r].clerk = Null THEN "link" ELSE "create"]
      BY <2>2 DEF FindEmail
    <3>2. job' = [job EXCEPT ![w] = [k EXCEPT !.row = r,
                       !.at = IF user[r].clerk = Null THEN "link" ELSE "create"]]
      BY <3>1 DEF IInv
    <3>3. r \in Known BY DEF WithEmail
    <3> QED BY <3>2, <3>3
  <2> QED BY <2>1, <2>2
<1> DEFINE j == [k EXCEPT !.row = row, !.at = step]
<1>4. row \in Rows \cup {Null} BY <1>1 DEF Known, Jobs
<1>5. /\ j \in Jobs /\ j.at = step /\ j.row = row /\ j.call = k.call
      /\ j.account = k.account /\ j.email = k.email
  BY <1>1, <1>4 DEF Jobs, Steps
<1> HIDE DEF j
<1>6. JobFacts(w, j, Known)
  BY <1>1, <1>3, <1>5 DEF JobFacts, DoorSteps, LeaveSteps
<1>7. job' = [job EXCEPT ![w] = j] BY <1>3 DEF j
<1> QED BY <1>2, <1>5, <1>6, <1>7, LookKeeps

(* How a call ends that was asked for at the door.                         *)
LEMMA FinishJob ==
  ASSUME IInv, NEW w \in Workers, job[w].at \in {"claim", "revive", "refresh"}, Finish(w)
  PROVE  /\ events' \in [Accounts -> SUBSET Events]
         /\ \E j \in Jobs : /\ job' = [job EXCEPT ![w] = j]
                           /\ j.at \in {"idle", "count"}
                           /\ \A known : job[w].row \in known => JobFacts(w, j, known)
<1> DEFINE k == job[w]
<1>1. k \in Jobs /\ JobFacts(w, k, Known) BY JobTyped
<1>2. k.call \in DoorCalls /\ k.account \in Accounts /\ k.row \in Rows
      /\ k.call \in Duties[w]
  BY <1>1 DEF JobFacts, DoorSteps, Known
<1>3. events' \in [Accounts -> SUBSET Events]
  BY <1>2 DEF Finish, Answer, Return, Goto, IInv, Tables
<1>4. CASE job' = [job EXCEPT ![w] = Idle] BY <1>3, <1>4, IdleFacts
<1>5. CASE k.call = "leave" /\ Goto(w, "count")
  <2>1. PICK j \in Jobs : j = [k EXCEPT !.at = "count"] /\ job' = [job EXCEPT ![w] = j]
    BY <1>5, GotoRow DEF Steps
  <2>2. j.at = "count" /\ j.row = k.row /\ j.call = "leave" BY <1>1, <1>5, <2>1 DEF Jobs
  <2>3. \A known : k.row \in known => JobFacts(w, j, known)
    BY <1>2, <1>5, <2>2 DEF JobFacts, DoorSteps, LeaveSteps
  <2> QED BY <1>3, <2>1, <2>2, <2>3
<1> QED BY <1>4, <1>5 DEF Finish, Return

LEMMA FailKeeps == ASSUME IInv, NEW w \in Workers, Fail(w) PROVE IInv'
BY LookKeeps, IdleFacts DEF Fail, Return, db, outside

LEMMA LinkKeeps == ASSUME IInv, NEW w \in Workers, Link(w) PROVE IInv'
<1> DEFINE k == job[w]  r == k.row
           u == [user[r] EXCEPT !.clerk = k.account, !.active = (@ \/ k.call = "webhook")]
           j == [k EXCEPT !.at = "claim", !.flag = user[r].active]
<1>1. k \in Jobs /\ k.at = "link" /\ JobFacts(w, k, Known) BY JobTyped DEF Link
<1>2. /\ r \in Known /\ k.account \in Accounts /\ k.call \in DoorCalls
      /\ k.call \in Duties[w] /\ (k.call = "webhook" => k.email \in Emails)
  BY <1>1 DEF JobFacts, DoorSteps
<1>3. r \in Rows /\ user[r] \in Users BY <1>2, KnownRow DEF IInv
<1> SUFFICES ASSUME Of(k.account) \ {r} = {} PROVE IInv' BY FailKeeps DEF Link
<1>4. /\ user' = [user EXCEPT ![r] = u] /\ job' = [job EXCEPT ![w] = j]
      /\ UNCHANGED <<clerk, address, events, owner, ties>>
  <2>1. /\ user' = [user EXCEPT ![r].clerk = k.account,
                                ![r].active = (@ \/ k.call = "webhook")]
        /\ job' = [job EXCEPT ![w].at = "claim", ![w].flag = user[r].active]
        /\ UNCHANGED <<clerk, address, events, owner, ties>>
    BY DEF Link, outside
  <2> HIDE DEF k, r
  <2>2. user' = [user EXCEPT ![r] = u] BY <1>3, <2>1, Zenon DEF IInv, Tables
  <2>3. job' = [job EXCEPT ![w] = j] BY <2>1 DEF IInv, k
  <2> QED BY <2>1, <2>2, <2>3
<1>5. u \in Users BY <1>2, <1>3 DEF Users
<1>6. /\ j \in Jobs /\ j.at = "claim" /\ j.call = k.call /\ j.account = k.account
      /\ j.email = k.email /\ j.row = r
  BY <1>1, <1>3 DEF Jobs, Users, Steps
<1> HIDE DEF u, j
<1>7. Tables' /\ Known' = Known
  <2>1. Tables /\ events' \in [Accounts -> SUBSET Events] BY <1>4 DEF IInv, Tables
  <2> HIDE DEF r
  <2>2. Tables' /\ Known' = Known \cup {r} BY <1>3, <1>4, <1>5, <2>1, UserWritten
  <2> QED BY <1>2, <2>2
<1>8. JobFacts(w, j, Known')
  BY <1>2, <1>6, <1>7 DEF JobFacts, DoorSteps, LeaveSteps
<1> QED BY <1>4, <1>6, <1>7, <1>8, StepKeeps

LEMMA ClaimKeeps == ASSUME IInv, NEW w \in Workers, Claim(w) PROVE IInv'
<1> DEFINE k == job[w]  r == k.row
<1>1. k \in Jobs /\ k.at = "claim" /\ JobFacts(w, k, Known) BY JobTyped DEF Claim
<1>2. /\ r \in Known /\ k.account \in Accounts /\ k.call \in DoorCalls /\ k.call \in Duties[w]
      /\ (k.call = "webhook" => k.email \in Emails)
  BY <1>1 DEF JobFacts, DoorSteps
<1>3. r \in Rows /\ user[r] \in Users BY <1>2, KnownRow DEF IInv
<1>4. /\ owner' = [owner EXCEPT ![r] = [a \in Agencies |->
                     IF owner[r][a] = "invited" THEN "claimed" ELSE owner[r][a]]]
      /\ UNCHANGED <<clerk, address, user, ties>>
  BY DEF Claim
<1>5. owner' \in [Rows -> [Agencies -> {"none", "invited", "claimed"}]]
  BY <1>3, <1>4 DEF IInv, Tables
<1>6. Known' = Known BY <1>4 DEF Known
<1>7. ASSUME events' \in [Accounts -> SUBSET Events] PROVE Tables'
  <2>1. user[r] # Null BY <1>3, NullIsNobody
  <2> QED BY <1>3, <1>4, <1>5, <1>7, <2>1 DEF IInv, Tables
<1>8. CASE Finish(w)
  BY <1>1, <1>2, <1>6, <1>7, <1>8, FinishJob, StepKeeps
<1>9. CASE k.call # "webhook" /\ Goto(w, "revive") /\ UNCHANGED events
  <2>1. PICK j \in Jobs : j = [k EXCEPT !.at = "revive"] /\ job' = [job EXCEPT ![w] = j]
    BY <1>9, GotoRow DEF Steps
  <2>2. j.at = "revive" /\ j.row = r /\ j.call = k.call /\ j.account = k.account
    BY <1>1, <2>1 DEF Jobs
  <2>3. JobFacts(w, j, Known')
    BY <1>2, <1>6, <1>9, <2>2 DEF JobFacts, DoorSteps, LeaveSteps
  <2> QED BY <1>6, <1>7, <1>9, <2>1, <2>3, StepKeeps DEF IInv, Tables
<1> QED BY <1>8, <1>9 DEF Claim

LEMMA NewUserTyped ==
  ASSUME NEW c \in Accounts \cup {Null}, NEW e \in Emails \cup {Null}
  PROVE  NewUser(c, e) \in Users /\ NewUser(c, e).clerk = c /\ NewUser(c, e).email = e
BY DEF NewUser, Users

LEMMA CreateKeeps == ASSUME IInv, NEW w \in Workers, Create(w) PROVE IInv'
<1> DEFINE k == job[w]  e == NewEmail(w)
<1>1. k \in Jobs /\ k.at = "create" /\ JobFacts(w, k, Known) BY JobTyped DEF Create
<1>2. /\ k.account \in Accounts /\ k.call \in DoorCalls /\ k.call \in Duties[w]
      /\ (k.call = "webhook" => k.email \in Emails)
  BY <1>1 DEF JobFacts, DoorSteps
<1>3. e \in Emails \cup {Null} BY <1>1 DEF NewEmail, Jobs
<1> HIDE DEF e
<1>4. CASE Fail(w) BY <1>4, FailKeeps
<1>5. CASE \E r \in Rows \ Known :
             /\ user' = [user EXCEPT ![r] = NewUser(k.account, e)]
             /\ IF k.call = "webhook"
                THEN Answer(k.account, k.email) /\ Return(w)
                ELSE /\ job' = [job EXCEPT ![w] = IF k.call = "leave"
                                 THEN [@ EXCEPT !.row = r, !.at = "count"] ELSE Idle]
                     /\ UNCHANGED events
             /\ UNCHANGED <<clerk, address, owner, ties>>
  <2>1. PICK r \in Rows \ Known :
             /\ user' = [user EXCEPT ![r] = NewUser(k.account, e)]
             /\ IF k.call = "webhook"
                THEN Answer(k.account, k.email) /\ Return(w)
                ELSE /\ job' = [job EXCEPT ![w] = IF k.call = "leave"
                                 THEN [@ EXCEPT !.row = r, !.at = "count"] ELSE Idle]
                     /\ UNCHANGED events
             /\ UNCHANGED <<clerk, address, owner, ties>>
    BY <1>5
  <2>2. events' \in [Accounts -> SUBSET Events] BY <1>2, <2>1 DEF Answer, IInv, Tables
  <2>3. NewUser(k.account, e) \in Users BY <1>2, <1>3, NewUserTyped
  <2>4. Tables' /\ Known' = Known \cup {r} BY <2>1, <2>2, <2>3, UserWritten DEF IInv
  <2>5. CASE k.call = "leave"
    <3> DEFINE j == [k EXCEPT !.row = r, !.at = "count"]
    <3>1. job' = [job EXCEPT ![w] = j] BY <2>1, <2>5 DEF IInv
    <3>2. j \in Jobs /\ j.at = "count" /\ j.row = r /\ j.call = "leave"
      BY <1>1, <2>5 DEF Jobs, Steps
    <3> HIDE DEF j
    <3>3. JobFacts(w, j, Known')
      BY <1>2, <2>4, <2>5, <3>2 DEF JobFacts, DoorSteps, LeaveSteps
    <3> QED BY <2>4, <3>1, <3>2, <3>3, StepKeeps
  <2>6. CASE k.call # "leave"
    <3>1. job' = [job EXCEPT ![w] = Idle] BY <2>1, <2>6 DEF Return
    <3> QED BY <2>4, <3>1, IdleFacts, StepKeeps
  <2> QED BY <2>5, <2>6
<1> QED BY <1>4, <1>5 DEF Create, e

LEMMA SwitchedTyped ==
  ASSUME NEW u \in Users, NEW a \in BOOLEAN, NEW b \in BOOLEAN, NEW e \in Emails \cup {Null}
  PROVE  /\ [u EXCEPT !.active = a, !.left = b] \in Users
         /\ [u EXCEPT !.active = a, !.email = e] \in Users
BY DEF Users

LEMMA ReviveKeeps == ASSUME IInv, NEW w \in Workers, Revive(w) PROVE IInv'
<1> DEFINE k == job[w]  r == k.row  u == [user[r] EXCEPT !.active = TRUE, !.left = FALSE]
<1>1. k.at = "revive" /\ r \in Known BY JobTyped DEF Revive, JobFacts
<1>2. r \in Rows /\ user[r] \in Users BY <1>1, KnownRow DEF IInv
<1>3. u \in Users BY <1>2, SwitchedTyped
<1>4. user' = [user EXCEPT ![r] = u] /\ UNCHANGED <<clerk, address, owner, ties>> /\ Finish(w)
  BY <1>2 DEF Revive, IInv, Tables
<1>5. events' \in [Accounts -> SUBSET Events] BY <1>1, <1>4, FinishJob
<1> HIDE DEF u, r
<1>6. Tables' /\ Known' = Known \cup {r} BY <1>2, <1>3, <1>4, <1>5, UserWritten DEF IInv
<1>7. PICK j \in Jobs : /\ job' = [job EXCEPT ![w] = j]
                        /\ \A known : k.row \in known => JobFacts(w, j, known)
  BY <1>1, <1>4, FinishJob
<1>8. JobFacts(w, j, Known') BY <1>6, <1>7 DEF r
<1> QED BY <1>6, <1>7, <1>8, StepKeeps

LEMMA RefreshWrites ==
  ASSUME IInv, NEW w \in Workers, Refresh(w), job[w].row \in Known
  PROVE  \/ user' = user
         \/ user' = [user EXCEPT ![job[w].row] =
                       [user[job[w].row] EXCEPT !.active = TRUE, !.email = job[w].email]]
<1>1. job[w].row \in Rows /\ user[job[w].row] \in Users
  BY KnownRow DEF IInv
<1>2. \/ user' = user
      \/ user' = [user EXCEPT ![job[w].row].active = TRUE, ![job[w].row].email = job[w].email]
  BY DEF Refresh
<1>3. user \in [Rows -> Users \cup {Null}]
  BY DEF IInv, Tables
<1>4. QED BY <1>1, <1>2, <1>3

LEMMA RefreshKeeps == ASSUME IInv, NEW w \in Workers, Refresh(w) PROVE IInv'
<1> DEFINE k == job[w]  r == k.row  u == [user[r] EXCEPT !.active = TRUE, !.email = k.email]
<1>1. k \in Jobs /\ k.at = "refresh" /\ r \in Known BY JobTyped DEF Refresh, JobFacts
<1>2. r \in Rows /\ user[r] \in Users /\ k.email \in Emails \cup {Null}
  BY <1>1, KnownRow DEF IInv, Jobs
<1>3. u \in Users BY <1>2, SwitchedTyped
<1>4. /\ user' = user \/ user' = [user EXCEPT ![r] = u]
      /\ UNCHANGED <<clerk, address, owner, ties>> /\ Finish(w)
  BY <1>1, RefreshWrites DEF Refresh
<1>5. events' \in [Accounts -> SUBSET Events] BY <1>1, <1>4, FinishJob
<1> HIDE DEF u, r
<1>6. Tables' /\ Known' = Known \cup {r}
  <2>1. CASE user' = user BY <1>1, <1>4, <1>5, <2>1 DEF IInv, Tables, Known
  <2>2. CASE user' = [user EXCEPT ![r] = u]
    BY <1>2, <1>3, <1>4, <1>5, <2>2, UserWritten DEF IInv
  <2> QED BY <1>4, <2>1, <2>2
<1>7. PICK j \in Jobs : /\ job' = [job EXCEPT ![w] = j]
                        /\ \A known : k.row \in known => JobFacts(w, j, known)
  BY <1>1, <1>4, FinishJob
<1>8. JobFacts(w, j, Known') BY <1>6, <1>7 DEF r
<1> QED BY <1>6, <1>7, <1>8, StepKeeps

LEMMA BeginInviteKeeps ==
  ASSUME IInv, NEW w \in Workers, NEW a \in Agencies, NEW e \in Emails \cup {Null},
         BeginInvite(w, a, e)
  PROVE  IInv'
<1>1. PICK r \in Known \cup {Null} :
        job' = [job EXCEPT ![w] = [Idle EXCEPT !.at = "make_owner", !.call = "invite",
                 !.email = e, !.agency = a, !.row = r,
                 !.flag = IF r = Null THEN FALSE ELSE user[r].clerk # Null]]
  BY DEF BeginInvite, WithEmail
<1> DEFINE f == IF r = Null THEN FALSE ELSE user[r].clerk # Null
           j == [Idle EXCEPT !.at = "make_owner", !.call = "invite",
                 !.email = e, !.agency = a, !.row = r, !.flag = f]
<1>2. f \in BOOLEAN /\ r \in Rows \cup {Null} BY DEF Known
<1>3. job' = [job EXCEPT ![w] = j] BY <1>1
<1> HIDE DEF f
<1>4. /\ j \in Jobs /\ j.at = "make_owner" /\ j.call = "invite" /\ j.email = e
      /\ j.agency = a /\ j.row = r
  BY <1>2, IdleFacts DEF Jobs, Steps, Calls, Idle
<1> HIDE DEF j
<1>5. "invite" \in Duties[w] /\ UNCHANGED <<db, outside>> BY DEF BeginInvite, Free
<1>6. JobFacts(w, j, Known) BY <1>4, <1>5 DEF JobFacts, DoorSteps, LeaveSteps
<1> QED BY <1>3, <1>4, <1>5, <1>6, LookKeeps

LEMMA MakeOwnerKeeps == ASSUME IInv, NEW w \in Workers, MakeOwner(w) PROVE IInv'
<1> DEFINE k == job[w]
<1>1. /\ k \in Jobs /\ k.at = "make_owner" /\ k.email \in Emails \cup {Null} /\ k.agency \in Agencies
      /\ k.row \in Known \cup {Null}
  BY JobTyped DEF MakeOwner, JobFacts, Jobs
<1>2. CASE Fail(w) BY <1>2, FailKeeps
<1>3. CASE \E r \in IF k.row = Null THEN Rows \ Known ELSE {k.row} :
            /\ user' = IF k.row = Null THEN [user EXCEPT ![r] = NewUser(Null, k.email)]
                       ELSE user
            /\ owner' = [owner EXCEPT ![r][k.agency] = IF k.flag THEN "claimed" ELSE "invited"]
            /\ Return(w)
            /\ UNCHANGED <<ties, outside>>
  <2>1. PICK r \in Rows :
            /\ k.row = Null \/ r \in Known
            /\ user' = IF k.row = Null THEN [user EXCEPT ![r] = NewUser(Null, k.email)]
                       ELSE user
            /\ owner' = [owner EXCEPT ![r][k.agency] = IF k.flag THEN "claimed" ELSE "invited"]
            /\ Return(w)
            /\ UNCHANGED <<ties, outside>>
    BY <1>1, <1>3 DEF Known
  <2>2. owner' \in [Rows -> [Agencies -> {"none", "invited", "claimed"}]]
        /\ \A s \in Rows : s # r => owner'[s] = owner[s]
    BY <1>1, <2>1 DEF IInv, Tables
  <2>3. /\ user' \in [Rows -> Users \cup {Null}] /\ user'[r] # Null
        /\ \A s \in Rows : s # r => user'[s] = user[s]
    <3>1. NewUser(Null, k.email) \in Users BY <1>1, NewUserTyped
    <3>2. CASE k.row = Null BY <2>1, <3>1, <3>2, NullIsNobody DEF IInv, Tables
    <3>3. CASE k.row # Null BY <2>1, <3>3 DEF IInv, Tables, Known
    <3> QED BY <3>2, <3>3
  <2>4. Tables' /\ Known \subseteq Known' BY <2>1, <2>2, <2>3 DEF IInv, Tables, Known, outside
  <2> QED BY <2>1, <2>4, IdleFacts, StepKeeps DEF Return
<1> QED BY <1>2, <1>3 DEF MakeOwner

LEMMA ActivateKeeps ==
  ASSUME IInv, NEW w \in Workers, NEW a, NEW r \in Rows, Activate(w, a, r) PROVE IInv'
<1> DEFINE u == [user[r] EXCEPT !.active = TRUE, !.left = FALSE]
<1>1. r \in Known /\ user[r] \in Users BY KnownRow DEF Activate, IInv
<1>2. u \in Users BY <1>1, SwitchedTyped
<1>3. user' = [user EXCEPT ![r] = u] /\ UNCHANGED <<owner, ties, job, clerk, address, events>>
  BY <1>1 DEF Activate, IInv, Tables, outside
<1> HIDE DEF u
<1>4. Tables' /\ Known' = Known \cup {r} BY <1>2, <1>3, UserWritten DEF IInv, Tables
<1> QED BY <1>3, <1>4, OthersKeep

LEMMA BeginDeactivateKeeps ==
  ASSUME IInv, NEW w \in Workers, NEW a, NEW r \in Rows, BeginDeactivate(w, a, r)
  PROVE  IInv'
<1> DEFINE j == [Idle EXCEPT !.at = "switch_off", !.call = "activate", !.row = r]
<1>1. /\ job' = [job EXCEPT ![w] = j] /\ UNCHANGED <<db, outside>>
      /\ r \in Known /\ "activate" \in Duties[w]
  BY DEF BeginDeactivate, Free
<1>2. j \in Jobs /\ j.at = "switch_off" /\ j.call = "activate" /\ j.row = r
  BY IdleFacts DEF Jobs, Steps, Calls, Idle
<1> HIDE DEF j
<1>3. JobFacts(w, j, Known) BY <1>1, <1>2 DEF JobFacts, DoorSteps, LeaveSteps
<1> QED BY <1>1, <1>2, <1>3, LookKeeps

(* Counting, listing and withdrawing hand the row on.                      *)
LEMMA LeaveMoves ==
  ASSUME IInv, NEW w \in Workers, job[w].at \in LeaveSteps,
         NEW step \in {"list", "withdraw", "switch_off"}, Goto(w, step),
         Tables', Known' = Known
  PROVE  IInv'
<1> DEFINE k == job[w]
<1>1. k \in Jobs /\ k.row \in Known /\ k.call = "leave" /\ "leave" \in Duties[w]
  BY JobTyped DEF JobFacts, LeaveSteps
<1>2. PICK j \in Jobs : j = [k EXCEPT !.at = step] /\ job' = [job EXCEPT ![w] = j]
  BY GotoRow DEF Steps
<1>3. j.at = step /\ j.row = k.row /\ j.call = "leave" BY <1>1, <1>2 DEF Jobs
<1>4. JobFacts(w, j, Known') BY <1>1, <1>3 DEF JobFacts, DoorSteps, LeaveSteps
<1> QED BY <1>2, <1>4, StepKeeps

LEMMA ReturnKeeps ==
  ASSUME IInv, NEW w \in Workers, Return(w), Tables', Known' = Known PROVE IInv'
BY IdleFacts, StepKeeps DEF Return

LEMMA LeaveKeeps ==
  ASSUME IInv, NEW w \in Workers, Count(w) \/ ListOpen(w) \/ Withdraw(w) \/ SwitchOff(w)
  PROVE  IInv'
<1>1. CASE Count(w)
  <2>1. Tables' /\ Known' = Known BY <1>1, SameTables DEF Count, IInv
  <2> QED BY <1>1, <2>1, LeaveMoves, ReturnKeeps DEF Count, LeaveSteps
<1>2. CASE ListOpen(w)
  <2>1. Tables' /\ Known' = Known BY <1>2, SameTables DEF ListOpen, IInv
  <2> QED BY <1>2, <2>1, LeaveMoves DEF ListOpen, LeaveSteps
<1>3. CASE Withdraw(w)
  <2>1. /\ ties' = ties \/ ties' = [ties EXCEPT ![job[w].row] = @ \ {"deal"}]
        /\ UNCHANGED <<user, owner, clerk, address, events>>
    BY <1>3 DEF Withdraw, outside
  <2>2. /\ ties' \in [Rows -> SUBSET Ties]
        /\ \A s \in Rows : ties'[s] = ties[s] \/ ties'[s] = ties[s] \ {"deal"}
    BY <2>1 DEF IInv, Tables
  <2>3. user' = user /\ Known' = Known BY <2>1 DEF Known
  <2>4. Tables' BY <2>1, <2>2, <2>3 DEF IInv, Tables
  <2> QED BY <1>3, <2>3, <2>4, LeaveMoves, ReturnKeeps DEF Withdraw, LeaveSteps
<1>4. CASE SwitchOff(w)
  <2> DEFINE r == job[w].row  u == [user[r] EXCEPT !.active = FALSE, !.left = TRUE]
  <2>1. r \in Known BY <1>4, JobTyped DEF SwitchOff, JobFacts
  <2>2. r \in Rows /\ user[r] \in Users BY <2>1, KnownRow DEF IInv
  <2>3. u \in Users BY <2>2, SwitchedTyped
  <2>4. user' = [user EXCEPT ![r] = u] /\ Return(w) /\ UNCHANGED <<owner, ties, clerk, address, events>>
    BY <1>4, <2>2 DEF SwitchOff, IInv, Tables, outside
  <2> HIDE DEF u, r
  <2>5. Tables' /\ Known' = Known \cup {r}
    BY <2>2, <2>3, <2>4, UserWritten DEF IInv, Tables
  <2>6. Known' = Known BY <2>1, <2>5
  <2> QED BY <2>4, <2>5, <2>6, ReturnKeeps
<1> QED BY <1>1, <1>2, <1>3, <1>4

LEMMA TieKeeps ==
  ASSUME IInv, NEW w \in Workers, NEW r \in Rows, NEW tie \in Ties,
         Tie(w, r, tie) \/ Untie(w, r, tie)
  PROVE  IInv'
<1>1. /\ ties' \in [Rows -> SUBSET Ties] /\ \A s \in Rows : s # r => ties'[s] = ties[s]
      /\ r \in Known \/ ties'[r] \subseteq ties[r]
  BY DEF Tie, Untie, IInv, Tables, Ties
<1>2. UNCHANGED <<user, owner, job, clerk, address, events>> BY DEF Tie, Untie, outside
<1>3. Tables' /\ Known' = Known BY <1>1, <1>2 DEF IInv, Tables, Known
<1> QED BY <1>2, <1>3, OthersKeep

LEMMA InitIInv == Init => IInv
<1> SUFFICES ASSUME Init PROVE IInv OBVIOUS
<1>1. Tables BY DEF Init, Tables
<1>2. job \in [Workers -> Jobs] /\ \A w \in Workers : job[w] = Idle BY IdleFacts DEF Init
<1> QED BY <1>1, <1>2, IdleFacts DEF IInv

LEMMA NextIInv == IInv /\ [Next]_vars => IInv'
<1> SUFFICES ASSUME IInv, [Next]_vars PROVE IInv' OBVIOUS
<1>1. ASSUME NEW w \in Workers, Step(w) PROVE IInv'
  BY <1>1, FindKeeps, FindEmailKeeps, LinkKeeps, ClaimKeeps, CreateKeeps, ReviveKeeps,
     RefreshKeeps, MakeOwnerKeeps, LeaveKeeps
  DEF Step
<1>2. ASSUME NEW w \in Workers, Crash(w) PROVE IInv'
  BY <1>2, LookKeeps, IdleFacts DEF Crash, Return
<1>3. CASE UNCHANGED vars
  <2>1. UNCHANGED job /\ UNCHANGED <<db, outside>> BY <1>3 DEF vars, db, outside
  <2> QED BY <2>1, SameTables, OthersKeep DEF IInv
<1> QED
  BY <1>1, <1>2, <1>3, ClerkKeeps, DeliverKeeps, RequestKeeps, BeginInviteKeeps, ActivateKeeps,
     BeginDeactivateKeeps, TieKeeps
  DEF Next

LEMMA Invariance == Spec => []IInv
BY InitIInv, NextIInv, PTL DEF Spec

(* Every variable keeps its type, for any accounts, rows, agencies and     *)
(* workers, whatever overlaps and is cut short: no foreign key of owners   *)
(* or deals points at a row that is not there.                             *)
THEOREM TypeCorrect == Spec => []TypeOK
<1>1. IInv => TypeOK BY DEF IInv, Tables, TypeOK
<1> QED BY <1>1, Invariance, PTL

--------------------------------------------------------------------------------
(* Requests and webhook deliveries are handled one at a time; README.md    *)
(* tells what two at once do to a person's rows.  Invites are made by      *)
(* anyone at any time, and a person's email may change at any time.        *)
OneDoor ==
  \A v, w \in Workers : Duties[v] \cap DoorCalls # {} /\ Duties[w] \cap DoorCalls # {} => v = w

(* The unique constraint on users.email.                                   *)
EmailsDiffer ==
  \A r, s \in Known : user[r].email # Null /\ user[r].email = user[s].email => r = s

(* Steps between the look-up of a person and the write it decides.         *)
LookedUp == {"find", "find_email", "link", "create"}

(* What the look-ups found still stands when the call writes.              *)
AtTheDoor(j, table) ==
  /\ j.at \in {"find", "find_email"} => j.row = Null
  /\ j.at = "link" => table[j.row].clerk = Null /\ table[j.row].email = j.email
  /\ j.at = "create" /\ j.row # Null =>
       table[j.row] # Null /\ table[j.row].clerk # Null /\ table[j.row].email = j.email

Door == EmailsDiffer /\ \A w \in Workers : AtTheDoor(job[w], user)

LinkKept == \A r \in Known : user[r].clerk # Null => user'[r].clerk = user[r].clerk

(* Rows stay and keep their persons and emails.                            *)
Kept ==
  /\ Known \subseteq Known'
  /\ \A r \in Known : user'[r].clerk = user[r].clerk /\ user'[r].email = user[r].email

(* The email of the call is in a linked row afterwards.                    *)
Taken(w) ==
  job[w].email # Null =>
    \E r \in Known' : user'[r].clerk # Null /\ user'[r].email = job[w].email

LEMMA IdleDoor == \A table : AtTheDoor(Idle, table)
BY IdleFacts DEF AtTheDoor, LookedUp

LEMMA KeptLink == Kept => LinkKept
BY DEF Kept, LinkKept

LEMMA KeptTables ==
  ASSUME Kept, Known' = Known, EmailsDiffer PROVE EmailsDiffer'
BY DEF Kept, EmailsDiffer

LEMMA KeptAtDoor ==
  ASSUME IInv, Kept, NEW w \in Workers, AtTheDoor(job[w], user)
  PROVE  AtTheDoor(job[w], user')
<1> DEFINE j == job[w]
<1>1. j \in Jobs /\ JobFacts(w, j, Known) BY JobTyped
<1>2. j.at = "link" => j.row \in Known BY <1>1 DEF JobFacts
<1>3. j.at = "create" /\ j.row # Null => j.row \in Known
  BY <1>1 DEF AtTheDoor, Jobs, Known
<1>4. \A r \in Known : user'[r] # Null /\ user'[r].clerk = user[r].clerk
                       /\ user'[r].email = user[r].email
  BY DEF Kept, Known
<1> HIDE DEF j
<1>5. AtTheDoor(j, user) BY DEF j
<1>6. AtTheDoor(j, user') BY <1>2, <1>3, <1>4, <1>5 DEF AtTheDoor
<1> QED BY <1>6 DEF j

(* One worker's call moves on; either no known row changes hands or the    *)
(* worker is the one at the door.                                          *)
LEMMA DoorStep ==
  ASSUME OneDoor, IInv, Door, NEW w \in Workers, NEW j, job' = [job EXCEPT ![w] = j],
         EmailsDiffer', AtTheDoor(j, user'), Kept \/ job[w].at \in DoorSteps
  PROVE  Door'
<1>1. ASSUME NEW v \in Workers PROVE AtTheDoor(job'[v], user')
  <2>1. CASE v = w BY <2>1 DEF IInv
  <2>2. CASE v # w /\ Kept
    <3>1. job'[v] = job[v] BY <2>2 DEF IInv
    <3> QED BY <2>2, <3>1, KeptAtDoor DEF Door
  <2>3. CASE v # w /\ job[w].at \in DoorSteps
    <3>1. job'[v] = job[v] BY <2>3 DEF IInv
    <3>2. job[w].call \in DoorCalls /\ job[w].call \in Duties[w]
      BY <2>3, JobTyped DEF JobFacts, DoorSteps
    <3>3. job[v].at \notin DoorSteps
      <4>1. SUFFICES ASSUME job[v].at \in DoorSteps PROVE FALSE OBVIOUS
      <4>2. job[v].call \in DoorCalls /\ job[v].call \in Duties[v]
        BY <4>1, JobTyped DEF JobFacts, DoorSteps
      <4> QED BY <2>3, <3>2, <4>2 DEF OneDoor
    <3> QED BY <3>1, <3>3 DEF AtTheDoor, DoorSteps, LookedUp
  <2> QED BY <2>1, <2>2, <2>3
<1> QED BY <1>1 DEF Door

LEMMA DoorStays ==
  ASSUME IInv, Door, Kept, EmailsDiffer', UNCHANGED job PROVE Door'
<1>1. ASSUME NEW v \in Workers PROVE AtTheDoor(job'[v], user') BY KeptAtDoor DEF Door
<1> QED BY <1>1 DEF Door

LEMMA SameKept == ASSUME UNCHANGED user PROVE Kept /\ Known' = Known
BY DEF Kept, Known

LEMMA RowKept ==
  ASSUME IInv, NEW r \in Known, NEW u \in Users, user' = [user EXCEPT ![r] = u],
         u.clerk = user[r].clerk, u.email = user[r].email
  PROVE  Kept /\ Known' = Known
<1>1. r \in Rows /\ user \in [Rows -> Users \cup {Null}] BY KnownRow DEF IInv, Tables
<1>2. Known' = Known BY <1>1, NullIsNobody DEF Known
<1> QED BY <1>1, <1>2 DEF Kept, Known

LEMMA RowSwitched ==
  ASSUME IInv, NEW r \in Known, NEW a \in BOOLEAN, NEW b \in BOOLEAN,
         user' = [user EXCEPT ![r].active = a, ![r].left = b]
  PROVE  Kept /\ Known' = Known
<1> DEFINE u == [user[r] EXCEPT !.active = a, !.left = b]
<1>1. r \in Rows /\ user[r] \in Users /\ user \in [Rows -> Users \cup {Null}]
  BY KnownRow DEF IInv, Tables
<1>2. u \in Users BY <1>1, SwitchedTyped
<1>3. u.clerk = user[r].clerk /\ u.email = user[r].email BY <1>1 DEF Users
<1>4. user' = [user EXCEPT ![r] = u] BY <1>1
<1> HIDE DEF u
<1> QED BY <1>2, <1>3, <1>4, RowKept

(* The call that looks, ends or goes on to a step where nothing was looked *)
(* up at the door, and leaves every row with its person.                   *)
LEMMA PlainStep ==
  ASSUME OneDoor, IInv, Door, NEW w \in Workers, NEW j, job' = [job EXCEPT ![w] = j],
         j.at \notin LookedUp, Kept, Known' = Known
  PROVE  Door' /\ LinkKept
<1>1. EmailsDiffer' BY KeptTables DEF Door
<1>2. AtTheDoor(j, user') BY DEF AtTheDoor, LookedUp
<1> QED BY <1>1, <1>2, DoorStep, KeptLink

LEMMA GotoPlain ==
  ASSUME OneDoor, IInv, Door, NEW w \in Workers,
         NEW step \in Steps \ LookedUp, Goto(w, step), Kept, Known' = Known
  PROVE  Door' /\ LinkKept
<1>1. PICK j \in Jobs : j = [job[w] EXCEPT !.at = step] /\ job' = [job EXCEPT ![w] = j]
  BY GotoRow
<1>2. j.at = step BY <1>1 DEF IInv, Jobs
<1> QED BY <1>1, <1>2, PlainStep

LEMMA ReturnPlain ==
  ASSUME OneDoor, IInv, Door, NEW w \in Workers, Return(w), Kept, Known' = Known
  PROVE  Door' /\ LinkKept
<1>1. job' = [job EXCEPT ![w] = Idle] /\ Idle.at \notin LookedUp
  BY IdleFacts DEF Return, LookedUp
<1> QED BY <1>1, PlainStep

LEMMA FinishPlain ==
  ASSUME OneDoor, IInv, Door, NEW w \in Workers, job[w].at \in {"claim", "revive"},
         Finish(w), Kept, Known' = Known
  PROVE  Door' /\ LinkKept
<1>1. PICK j \in Jobs : job' = [job EXCEPT ![w] = j] /\ j.at \in {"idle", "count"}
  BY FinishJob
<1> QED BY <1>1, PlainStep DEF LookedUp

LEMMA OthersStay ==
  ASSUME IInv, Door, Kept, Known' = Known, UNCHANGED job PROVE Door' /\ LinkKept
BY KeptTables, DoorStays, KeptLink DEF Door

LEMMA ClerkDoor ==
  ASSUME IInv, Door, NEW c \in Accounts, DeleteAccount(c) \/ \E e \in Emails : SignUp(c, e) \/ UpdateProfile(c, e)
  PROVE  Door' /\ LinkKept
<1>1. UNCHANGED user /\ UNCHANGED job
  BY DEF SignUp, UpdateProfile, DeleteAccount, db
<1> QED BY <1>1, SameKept, OthersStay

LEMMA DeliverDoor ==
  ASSUME OneDoor, IInv, Door, NEW w \in Workers, NEW c \in Accounts, NEW event \in Events,
         Deliver(w, c, event)
  PROVE  Door' /\ LinkKept
<1>1. CASE event = "deleted"
  <2>1. /\ user' = [r \in Rows |-> IF r \in Of(c) THEN [user[r] EXCEPT !.active = FALSE]
                                   ELSE user[r]]
        /\ UNCHANGED job
    BY <1>1 DEF Deliver
  <2>2. ASSUME NEW r \in Rows
        PROVE  /\ user'[r] = Null <=> user[r] = Null
               /\ user[r] # Null => /\ user'[r].clerk = user[r].clerk
                                    /\ user'[r].email = user[r].email
    <3>1. CASE r \in Of(c)
      <4>1. user[r] \in Users BY <3>1, KnownRow DEF Of, IInv
      <4>2. [user[r] EXCEPT !.active = FALSE] \in Users BY <4>1 DEF Users
      <4>3. user'[r] = [user[r] EXCEPT !.active = FALSE] BY <2>1, <3>1
      <4> QED BY <4>1, <4>2, <4>3, NullIsNobody DEF Users
    <3>2. CASE r \notin Of(c) BY <2>1, <3>2
    <3> QED BY <3>1, <3>2
  <2>3. Kept /\ Known' = Known BY <2>2 DEF Kept, Known
  <2> QED BY <2>1, <2>3, OthersStay
<1>2. CASE event # "deleted"
  <2> DEFINE j == [Idle EXCEPT !.at = "find", !.call = "webhook", !.account = c,
                               !.email = event]
  <2>1. job' = [job EXCEPT ![w] = j] /\ UNCHANGED user
    BY <1>2 DEF Deliver
  <2>2. j.at = "find" /\ j.row = Null BY DEF Idle
  <2> HIDE DEF j
  <2>3. AtTheDoor(j, user') BY <2>2 DEF AtTheDoor
  <2>4. Kept /\ Known' = Known BY <2>1, SameKept
  <2>5. EmailsDiffer' BY <2>4, KeptTables DEF Door
  <2> QED BY <2>1, <2>3, <2>4, <2>5, DoorStep, KeptLink
<1> QED BY <1>1, <1>2

LEMMA RequestDoor ==
  ASSUME OneDoor, IInv, Door, NEW w \in Workers, NEW c \in Accounts, NEW call, NEW email,
         Request(w, c, call, email)
  PROVE  Door' /\ LinkKept
<1> DEFINE j == [Idle EXCEPT !.at = "find", !.call = call, !.account = c, !.email = email]
<1>1. job' = [job EXCEPT ![w] = j] /\ UNCHANGED user
  BY DEF Request, db
<1>2. j.at = "find" /\ j.row = Null
  BY <1>1 DEF Idle
<1> HIDE DEF j
<1>3. AtTheDoor(j, user') BY <1>2 DEF AtTheDoor
<1>4. Kept /\ Known' = Known BY <1>1, SameKept
<1>5. EmailsDiffer' BY <1>4, KeptTables DEF Door
<1> QED BY <1>1, <1>3, <1>4, <1>5, DoorStep, KeptLink

LEMMA LookDoor ==
  ASSUME OneDoor, IInv, Door, NEW w \in Workers, NEW j, job' = [job EXCEPT ![w] = j],
         AtTheDoor(j, user), UNCHANGED user
  PROVE  Door' /\ LinkKept
<1>1. Kept /\ Known' = Known BY SameKept
<1>2. EmailsDiffer' BY <1>1, KeptTables DEF Door
<1> QED BY <1>1, <1>2, DoorStep, KeptLink

LEMMA FindDoor ==
  ASSUME OneDoor, IInv, Door, NEW w \in Workers, Find(w) PROVE Door' /\ LinkKept
<1> DEFINE k == job[w]
<1>1. k \in Jobs /\ k.at = "find" /\ JobFacts(w, k, Known) /\ AtTheDoor(k, user)
  BY JobTyped DEF Find, Door
<1>2. k.account \in Accounts /\ k.call \in DoorCalls /\ k.row = Null
  BY <1>1 DEF JobFacts, DoorSteps, AtTheDoor, LookedUp
<1>3. UNCHANGED user BY DEF Find, db
<1>4. CASE Of(k.account) = {}
  <2> DEFINE j == [k EXCEPT !.at = IF k.email = Null THEN "create" ELSE "find_email"]
  <2>1. job' = [job EXCEPT ![w] = j] BY <1>4 DEF Find
  <2>2. /\ j.at = (IF k.email = Null THEN "create" ELSE "find_email")
        /\ j.account = k.account /\ j.email = k.email /\ j.row = k.row
    BY <1>1 DEF Jobs
  <2> HIDE DEF j
  <2>3. AtTheDoor(j, user) BY <1>2, <2>2 DEF AtTheDoor
  <2> QED BY <1>3, <2>1, <2>3, LookDoor
<1>5. CASE Of(k.account) # {}
  <2> DEFINE r == CHOOSE r \in Of(k.account) : TRUE
  <2>1. r \in Of(k.account) BY <1>5
  <2>2. r \in Known /\ user[r].clerk = k.account BY <2>1 DEF Of
  <2> HIDE DEF r
  <2>3. user[r].active \in BOOLEAN BY <2>2, KnownRow DEF IInv, Users
  <2>4. job' = [job EXCEPT ![w] =
            CASE k.call = "webhook" -> [k EXCEPT !.row = r, !.at = "refresh"]
              [] k.call # "webhook" /\ ~user[r].active -> [k EXCEPT !.row = r, !.at = "revive"]
              [] k.call = "leave" /\ user[r].active -> [k EXCEPT !.row = r, !.at = "count"]
              [] k.call = "request" /\ user[r].active -> Idle]
    BY <1>5 DEF Find, r
  <2>5. PICK step \in {"refresh", "revive", "count", "idle"} :
          job' = [job EXCEPT ![w] = IF step = "idle" THEN Idle
                                    ELSE [k EXCEPT !.row = r, !.at = step]]
    <3>1. CASE k.call = "webhook" BY <2>4, <3>1
    <3>2. CASE k.call # "webhook" /\ ~user[r].active BY <2>4, <3>2
    <3>3. CASE k.call = "leave" /\ user[r].active BY <2>4, <3>3
    <3>4. CASE k.call = "request" /\ user[r].active BY <2>4, <3>4
    <3> QED BY <1>2, <2>3, <3>1, <3>2, <3>3, <3>4 DEF DoorCalls
  <2> DEFINE j == [k EXCEPT !.row = r, !.at = step]
  <2>6. CASE step = "idle"
    <3>1. job' = [job EXCEPT ![w] = Idle] BY <2>5, <2>6
    <3> QED BY <1>3, <3>1, IdleDoor, LookDoor
  <2>7. CASE step # "idle"
    <3>1. job' = [job EXCEPT ![w] = j] BY <2>5, <2>7
    <3>2. j.at = step /\ j.row = r /\ j.account = k.account /\ j.email = k.email
      BY <1>1 DEF Jobs
    <3> HIDE DEF j
    <3>3. AtTheDoor(j, user) BY <1>2, <2>2, <2>7, <3>2 DEF AtTheDoor, LookedUp
    <3> QED BY <1>3, <3>1, <3>3, LookDoor
  <2> QED BY <2>6, <2>7
<1> QED BY <1>4, <1>5

LEMMA FindEmailDoor ==
  ASSUME OneDoor, IInv, Door, NEW w \in Workers, FindEmail(w) PROVE Door' /\ LinkKept
<1> DEFINE k == job[w]
<1>1. k \in Jobs /\ k.at = "find_email" /\ JobFacts(w, k, Known) /\ AtTheDoor(k, user)
  BY JobTyped DEF FindEmail, Door
<1>2. k.row = Null
  BY <1>1 DEF AtTheDoor
<1>3. UNCHANGED user BY DEF FindEmail, db
<1>4. CASE WithEmail(k.email) = {}
  <2>1. PICK j \in Jobs : j = [k EXCEPT !.at = "create"] /\ job' = [job EXCEPT ![w] = j]
    BY <1>1, <1>4, GotoRow DEF FindEmail, Steps
  <2>2. j.at = "create" /\ j.row = Null /\ j.account = k.account /\ j.email = k.email
    BY <1>1, <1>2, <2>1 DEF Jobs
  <2>3. AtTheDoor(j, user) BY <1>2, <2>2 DEF AtTheDoor
  <2> QED BY <1>3, <2>1, <2>3, LookDoor
<1>5. CASE WithEmail(k.email) # {}
  <2>1. PICK r \in WithEmail(k.email) :
          job' = [job EXCEPT ![w].row = r,
                     ![w].at = IF user[r].clerk = Null THEN "link" ELSE "create"]
    BY <1>5 DEF FindEmail
  <2> DEFINE j == [k EXCEPT !.row = r,
                            !.at = IF user[r].clerk = Null THEN "link" ELSE "create"]
  <2>2. job' = [job EXCEPT ![w] = j] BY <2>1 DEF IInv
  <2>3. r \in Rows /\ user[r] # Null /\ user[r].email = k.email BY DEF WithEmail, Known
  <2>4. /\ j.at = (IF user[r].clerk = Null THEN "link" ELSE "create")
        /\ j.row = r /\ j.account = k.account /\ j.email = k.email
    BY <1>1 DEF Jobs
  <2> HIDE DEF j
  <2>5. AtTheDoor(j, user) BY <1>2, <2>3, <2>4 DEF AtTheDoor
  <2> QED BY <1>3, <2>2, <2>5, LookDoor
<1> QED BY <1>4, <1>5

LEMMA FailDoor ==
  ASSUME OneDoor, IInv, Door, NEW w \in Workers, Fail(w) PROVE Door' /\ LinkKept
BY IdleDoor, LookDoor DEF Fail, Return

LEMMA LinkDoor ==
  ASSUME OneDoor, IInv, Door, NEW w \in Workers, Link(w)
  PROVE  Door' /\ LinkKept /\ (user' # user => Taken(w))
<1> DEFINE k == job[w]  r == k.row
<1>1. k \in Jobs /\ k.at = "link" /\ JobFacts(w, k, Known) /\ AtTheDoor(k, user)
  BY JobTyped DEF Link, Door
<1>2. /\ r \in Known /\ k.account \in Accounts /\ k.call \in DoorCalls
      /\ user[r].clerk = Null /\ user[r].email = k.email
  BY <1>1 DEF JobFacts, DoorSteps, AtTheDoor
<1>3. r \in Rows /\ user[r] \in Users /\ user \in [Rows -> Users \cup {Null}]
  BY <1>2, KnownRow DEF IInv, Tables
<1> SUFFICES ASSUME Of(k.account) \ {r} = {} PROVE Door' /\ LinkKept /\ Taken(w)
  BY FailDoor DEF Link, Fail
<1>4. /\ user' = [user EXCEPT ![r].clerk = k.account,
                              ![r].active = (@ \/ k.call = "webhook")]
      /\ job' = [job EXCEPT ![w].at = "claim", ![w].flag = user[r].active]
  BY DEF Link
<1> DEFINE j == [k EXCEPT !.at = "claim", !.flag = user[r].active]
<1>5. job' = [job EXCEPT ![w] = j] BY <1>4 DEF IInv
<1>6. j.at = "claim" BY <1>1 DEF Jobs
<1> HIDE DEF j, k, r
<1>7. /\ user'[r].clerk = k.account /\ user'[r].email = user[r].email /\ user'[r] # Null
      /\ \A s \in Rows : s # r => user'[s] = user[s]
  <2> DEFINE u == [user[r] EXCEPT !.clerk = k.account, !.active = (@ \/ k.call = "webhook")]
  <2>1. user' = [user EXCEPT ![r] = u] BY <1>3, <1>4, Zenon
  <2>2. u \in Users /\ u.clerk = k.account /\ u.email = user[r].email BY <1>2, <1>3 DEF Users
  <2> HIDE DEF u
  <2> QED BY <1>3, <2>1, <2>2, NullIsNobody
<1>8. Known' = Known BY <1>2, <1>7 DEF Known
<1>9. /\ \A s \in Known : user'[s].email = user[s].email
      /\ \A s \in Known : s # r => user'[s].clerk = user[s].clerk
  BY <1>7 DEF Known
<1>10. EmailsDiffer' BY <1>8, <1>9 DEF EmailsDiffer, Door
<1>11. Taken(w)
  BY <1>2, <1>7, <1>8, NullIsNobody DEF Taken, k, r
<1>12. LinkKept BY <1>2, <1>9 DEF LinkKept
<1>13. AtTheDoor(j, user') BY <1>6 DEF AtTheDoor, LookedUp
<1>14. job[w].at \in DoorSteps BY <1>1 DEF k, DoorSteps
<1> QED BY <1>5, <1>10, <1>11, <1>12, <1>13, <1>14, DoorStep

LEMMA ClaimDoor ==
  ASSUME OneDoor, IInv, Door, NEW w \in Workers, Claim(w) PROVE Door' /\ LinkKept
<1>1. Kept /\ Known' = Known BY SameKept DEF Claim
<1>2. job[w].at = "claim" /\ (Finish(w) \/ Goto(w, "revive")) BY DEF Claim
<1> QED BY <1>1, <1>2, FinishPlain, GotoPlain DEF Steps, LookedUp

LEMMA ReviveDoor ==
  ASSUME OneDoor, IInv, Door, NEW w \in Workers, Revive(w) PROVE Door' /\ LinkKept
<1>1. job[w].at = "revive" /\ job[w].row \in Known BY JobTyped DEF Revive, JobFacts
<1>2. Kept /\ Known' = Known BY <1>1, RowSwitched DEF Revive
<1> QED BY <1>1, <1>2, FinishPlain DEF Revive

LEMMA CreateDoor ==
  ASSUME OneDoor, IInv, Door, NEW w \in Workers, Create(w)
  PROVE  Door' /\ LinkKept /\ (user' # user => Taken(w))
<1> DEFINE k == job[w]  e == NewEmail(w)
<1>1. k \in Jobs /\ k.at = "create" /\ JobFacts(w, k, Known) /\ AtTheDoor(k, user)
  BY JobTyped DEF Create, Door
<1>2. /\ k.account \in Accounts /\ k.call \in DoorCalls /\ k.email \in Emails \cup {Null}
      /\ k.row # Null => k.row \in Known /\ user[k.row].clerk # Null
                         /\ user[k.row].email = k.email
  BY <1>1 DEF JobFacts, DoorSteps, AtTheDoor, Jobs, Known
<1>3. e = (IF k.row = Null THEN k.email ELSE Null) BY DEF NewEmail
<1>4. e \in Emails \cup {Null} BY <1>2, <1>3
<1> HIDE DEF e
<1>5. CASE Fail(w) BY <1>5, FailDoor DEF Fail
<1>6. ASSUME ~Fail(w) PROVE Door' /\ LinkKept /\ Taken(w)
  <2>1. /\ Of(k.account) = {} /\ (e # Null => WithEmail(e) = {})
        /\ \E r \in Rows \ Known :
             /\ user' = [user EXCEPT ![r] = NewUser(k.account, e)]
             /\ IF k.call = "webhook" THEN Answer(k.account, k.email) /\ Return(w)
                ELSE job' = [job EXCEPT ![w] = IF k.call = "leave"
                                 THEN [@ EXCEPT !.row = r, !.at = "count"] ELSE Idle]
    BY <1>6 DEF Create, WithEmail, e
  <2>2. PICK r \in Rows \ Known :
             /\ user' = [user EXCEPT ![r] = NewUser(k.account, e)]
             /\ IF k.call = "webhook" THEN Answer(k.account, k.email) /\ Return(w)
                ELSE job' = [job EXCEPT ![w] = IF k.call = "leave"
                                 THEN [@ EXCEPT !.row = r, !.at = "count"] ELSE Idle]
    BY <2>1
  <2>3. /\ NewUser(k.account, e) \in Users
        /\ NewUser(k.account, e).clerk = k.account /\ NewUser(k.account, e).email = e
    BY <1>2, <1>4, NewUserTyped
  <2>4. /\ user'[r].clerk = k.account /\ user'[r].email = e /\ user'[r] # Null
        /\ \A s \in Rows : s # r => user'[s] = user[s]
    BY <2>2, <2>3, NullIsNobody DEF IInv, Tables
  <2>5. Known' = Known \cup {r} /\ r \notin Known BY <2>4 DEF Known
  <2>6. \A s \in Known : user'[s] = user[s] BY <2>4, <2>5 DEF Known
  <2>7. EmailsDiffer'
    <3>1. \A s \in Known : e # Null => user[s].email # e BY <2>1 DEF WithEmail
    <3> QED BY <2>4, <2>5, <2>6, <3>1 DEF EmailsDiffer, Door
  <2>8. Taken(w)
    <3>1. CASE k.row = Null BY <1>2, <1>3, <2>4, <2>5, <3>1, NullIsNobody DEF Taken
    <3>2. CASE k.row # Null BY <1>2, <2>5, <2>6, <3>2 DEF Taken
    <3> QED BY <3>1, <3>2
  <2>9. Kept BY <2>5, <2>6 DEF Kept
  <2>10. PICK j : job' = [job EXCEPT ![w] = j] /\ j.at \in {"idle", "count"}
    <3>1. CASE k.call = "leave"
      <4> DEFINE j == [k EXCEPT !.row = r, !.at = "count"]
      <4>1. job' = [job EXCEPT ![w] = j] BY <2>2, <3>1 DEF IInv
      <4>2. j.at = "count" BY <1>1 DEF Jobs
      <4> QED BY <4>1, <4>2
    <3>2. CASE k.call # "leave"
      <4>1. job' = [job EXCEPT ![w] = Idle] BY <2>2, <3>2 DEF Return
      <4> QED BY <4>1, IdleFacts
    <3> QED BY <3>1, <3>2
  <2>11. AtTheDoor(j, user') BY <2>10 DEF AtTheDoor, LookedUp
  <2> QED BY <2>7, <2>8, <2>9, <2>10, <2>11, DoorStep, KeptLink
<1> QED BY <1>5, <1>6

LEMMA RefreshDoor ==
  ASSUME OneDoor, IInv, Door, NEW w \in Workers, Refresh(w) PROVE Door' /\ LinkKept
<1> DEFINE k == job[w]  r == k.row  u == [user[r] EXCEPT !.active = TRUE, !.email = k.email]
<1>1. k \in Jobs /\ k.at = "refresh" /\ JobFacts(w, k, Known) /\ AtTheDoor(k, user)
  BY JobTyped DEF Refresh, Door
<1>2. r \in Known /\ k.email \in Emails
  BY <1>1 DEF JobFacts, DoorSteps
<1>3. r \in Rows /\ user[r] \in Users /\ user \in [Rows -> Users \cup {Null}]
  BY <1>2, KnownRow DEF IInv, Tables
<1>4. PICK j \in Jobs : job' = [job EXCEPT ![w] = j] /\ j.at \in {"idle", "count"}
  BY <1>1, FinishJob DEF Refresh
<1>5. CASE user' = user
  BY <1>4, <1>5, SameKept, PlainStep DEF LookedUp
<1>6. CASE user' = [user EXCEPT ![r] = u] /\ WithEmail(k.email) \ {r} = {}
  <2>1. u \in Users /\ u.clerk = user[r].clerk /\ u.email = k.email
    BY <1>2, <1>3 DEF Users
  <2>2. /\ user'[r].clerk = user[r].clerk /\ user'[r].email = k.email /\ user'[r] # Null
        /\ \A s \in Rows : s # r => user'[s] = user[s]
    <3> HIDE DEF u
    <3> QED BY <1>2, <1>3, <1>6, <2>1, NullIsNobody
  <2>3. Known' = Known BY <1>2, <2>2 DEF Known
  <2>4. \A s \in Known : /\ s # r => user'[s] = user[s] /\ user[s].email # k.email
                         /\ user'[s].clerk = user[s].clerk
    <3>1. \A s \in Known : s # r => user[s].email # k.email
      BY <1>2, <1>6, NullIsNobody DEF WithEmail
    <3>2. Known \subseteq Rows BY DEF Known
    <3> QED BY <2>2, <3>1, <3>2
  <2> HIDE DEF k, u, r
  <2>5. EmailsDiffer' BY <2>2, <2>3, <2>4 DEF EmailsDiffer, Door
  <2>7. LinkKept BY <2>2, <2>4 DEF LinkKept
  <2>8. AtTheDoor(j, user') BY <1>4 DEF AtTheDoor, LookedUp
  <2>9. job[w].at \in DoorSteps BY <1>1 DEF DoorSteps, k
  <2> QED BY <1>4, <2>5, <2>7, <2>8, <2>9, DoorStep
<1> QED BY <1>5, <1>6 DEF Refresh

LEMMA BeginInviteDoor ==
  ASSUME OneDoor, IInv, Door, NEW w \in Workers, NEW a, NEW e, BeginInvite(w, a, e)
  PROVE  Door' /\ LinkKept
<1>1. PICK r : job' = [job EXCEPT ![w] = [Idle EXCEPT !.at = "make_owner", !.call = "invite",
                 !.email = e, !.agency = a, !.row = r,
                 !.flag = IF r = Null THEN FALSE ELSE user[r].clerk # Null]]
  BY DEF BeginInvite
<1> DEFINE j == [Idle EXCEPT !.at = "make_owner", !.call = "invite",
                 !.email = e, !.agency = a, !.row = r,
                 !.flag = IF r = Null THEN FALSE ELSE user[r].clerk # Null]
<1>2. j.at = "make_owner" BY DEF Idle
<1>3. job' = [job EXCEPT ![w] = j] BY <1>1
<1> HIDE DEF j
<1>4. Kept /\ Known' = Known BY SameKept DEF BeginInvite, db
<1> QED BY <1>2, <1>3, <1>4, PlainStep DEF LookedUp

LEMMA MakeOwnerDoor ==
  ASSUME OneDoor, IInv, Door, NEW w \in Workers, MakeOwner(w) PROVE Door' /\ LinkKept
<1> DEFINE k == job[w]
<1>1. /\ k.at = "make_owner" /\ k.email \in Emails \cup {Null}
      /\ k.row \in Known \cup {Null}
  <2>1. k \in Jobs /\ k.at = "make_owner" /\ JobFacts(w, k, Known)
    BY JobTyped DEF MakeOwner
  <2>2. k.email \in Emails \cup {Null} BY <2>1 DEF Jobs
  <2> QED BY <2>1, <2>2 DEF JobFacts
<1>2. CASE Fail(w) BY <1>2, FailDoor
<1>3. CASE k.row # Null /\ UNCHANGED user /\ Return(w)
  BY <1>3, SameKept, ReturnPlain
<1>4. CASE /\ k.row = Null /\ WithEmail(k.email) = {} /\ Return(w)
           /\ \E r \in Rows \ Known : user' = [user EXCEPT ![r] = NewUser(Null, k.email)]
  <2>1. PICK r \in Rows \ Known : user' = [user EXCEPT ![r] = NewUser(Null, k.email)]
    BY <1>4
  <2>2. /\ NewUser(Null, k.email) \in Users
        /\ NewUser(Null, k.email).clerk = Null /\ NewUser(Null, k.email).email = k.email
    BY <1>1, NewUserTyped
  <2>3. /\ user'[r].clerk = Null /\ user'[r].email = k.email /\ user'[r] # Null
        /\ \A s \in Rows : s # r => user'[s] = user[s]
    BY <2>1, <2>2, NullIsNobody DEF IInv, Tables
  <2>4. Known' = Known \cup {r} /\ r \notin Known BY <2>3 DEF Known
  <2>5. \A s \in Known : user'[s] = user[s] BY <2>3, <2>4 DEF Known
  <2>6. Kept BY <2>4, <2>5 DEF Kept
  <2>7. EmailsDiffer'
    <3>1. k.email # Null => \A s \in Known : user[s].email # k.email BY <1>4 DEF WithEmail
    <3> QED BY <2>3, <2>4, <2>5, <3>1 DEF EmailsDiffer, Door
  <2>9. job' = [job EXCEPT ![w] = Idle] BY <1>4 DEF Return
  <2> QED BY <2>6, <2>7, <2>9, IdleDoor, DoorStep, KeptLink
<1> QED BY <1>2, <1>3, <1>4 DEF MakeOwner

LEMMA OwnerSwitchDoor ==
  ASSUME OneDoor, IInv, Door, NEW w \in Workers, NEW a, NEW r \in Rows,
         Activate(w, a, r) \/ BeginDeactivate(w, a, r)
  PROVE  Door' /\ LinkKept
<1>1. CASE Activate(w, a, r)
  <2>1. r \in Known /\ UNCHANGED job BY <1>1 DEF Activate
  <2>2. Kept /\ Known' = Known BY <1>1, <2>1, RowSwitched DEF Activate
  <2> QED BY <2>1, <2>2, OthersStay
<1>2. CASE BeginDeactivate(w, a, r)
  <2> DEFINE j == [Idle EXCEPT !.at = "switch_off", !.call = "activate", !.row = r]
  <2>1. job' = [job EXCEPT ![w] = j] /\ UNCHANGED user BY <1>2 DEF BeginDeactivate, db
  <2>2. j.at = "switch_off" BY DEF Idle
  <2> HIDE DEF j
  <2> QED BY <2>1, <2>2, SameKept, PlainStep DEF LookedUp
<1> QED BY <1>1, <1>2

LEMMA LeaveDoor ==
  ASSUME OneDoor, IInv, Door, NEW w \in Workers,
         Count(w) \/ ListOpen(w) \/ Withdraw(w) \/ SwitchOff(w)
  PROVE  Door' /\ LinkKept
<1>1. CASE Count(w) \/ ListOpen(w) \/ Withdraw(w)
  <2>1. UNCHANGED user BY <1>1 DEF Count, ListOpen, Withdraw, db
  <2>2. Return(w) \/ \E step \in {"list", "withdraw", "switch_off"} : Goto(w, step)
    BY <1>1 DEF Count, ListOpen, Withdraw
  <2> QED BY <2>1, <2>2, SameKept, ReturnPlain, GotoPlain DEF Steps, LookedUp
<1>2. CASE SwitchOff(w)
  <2>1. job[w].row \in Known BY <1>2, JobTyped DEF SwitchOff, JobFacts
  <2>2. Kept /\ Known' = Known BY <1>2, <2>1, RowSwitched DEF SwitchOff
  <2> QED BY <1>2, <2>2, ReturnPlain DEF SwitchOff
<1> QED BY <1>1, <1>2

LEMMA TieDoor ==
  ASSUME IInv, Door, NEW w, NEW r, NEW tie, Tie(w, r, tie) \/ Untie(w, r, tie)
  PROVE  Door' /\ LinkKept
BY SameKept, OthersStay DEF Tie, Untie

LEMMA InitDoor == Init => Door
<1> SUFFICES ASSUME Init PROVE Door OBVIOUS
<1>1. Known = {} BY DEF Init, Known
<1>2. \A w \in Workers : AtTheDoor(job[w], user) BY IdleDoor DEF Init
<1> QED BY <1>1, <1>2 DEF Door, EmailsDiffer

LEMMA NextDoor == OneDoor /\ IInv /\ Door /\ [Next]_vars => Door' /\ LinkKept
<1> SUFFICES ASSUME OneDoor, IInv, Door, [Next]_vars PROVE Door' /\ LinkKept OBVIOUS
<1>1. ASSUME NEW w \in Workers, Step(w) PROVE Door' /\ LinkKept
  BY <1>1, FindDoor, FindEmailDoor, LinkDoor, ClaimDoor, CreateDoor, ReviveDoor,
     RefreshDoor, MakeOwnerDoor, LeaveDoor
  DEF Step
<1>2. ASSUME NEW w \in Workers, Crash(w) PROVE Door' /\ LinkKept
  BY <1>2, SameKept, ReturnPlain DEF Crash, db
<1>3. CASE UNCHANGED vars BY <1>3, SameKept, OthersStay DEF vars
<1> QED
  BY <1>1, <1>2, <1>3, ClerkDoor, DeliverDoor, RequestDoor, BeginInviteDoor, OwnerSwitchDoor,
     TieDoor
  DEF Next

(* No worker moves another's call on, nor starts a call in the middle of   *)
(* one.                                                                    *)
LEMMA StepsAlone ==
  ASSUME IInv, NEW v \in Workers, NEW w \in Workers \ {v}, Step(v)
  PROVE  job'[w] = job[w]
<1>1. CASE Find(v)
  BY <1>1 DEF Find, IInv
<1>2. CASE FindEmail(v)
  BY <1>2 DEF FindEmail, Goto, IInv
<1>3. CASE Link(v) \/ Claim(v) \/ Revive(v) \/ Refresh(v)
  BY <1>3 DEF Link, Claim, Revive, Refresh, Finish, Fail, Goto, Return, IInv
<1>4. CASE Create(v) \/ MakeOwner(v)
  BY <1>4 DEF Create, MakeOwner, Fail, Return, IInv
<1>5. CASE Count(v) \/ ListOpen(v) \/ Withdraw(v) \/ SwitchOff(v)
  BY <1>5 DEF Count, ListOpen, Withdraw, SwitchOff, Goto, Return, IInv
<1> QED BY <1>1, <1>2, <1>3, <1>4, <1>5 DEF Step

LEMMA CallsGoOn ==
  ASSUME IInv, [Next]_vars, NEW w \in Workers, job[w].at # "idle", job'[w] # job[w]
  PROVE  Step(w) \/ Crash(w)
<1>1. ~UNCHANGED job
  OBVIOUS
<1>2. ASSUME NEW v \in Workers, NEW j, job[v].at = "idle", job' = [job EXCEPT ![v] = j]
      PROVE  FALSE
  BY <1>2 DEF IInv
<1>3. ASSUME NEW v \in Workers, NEW c \in Accounts, NEW event \in Events, Deliver(v, c, event)
      PROVE  FALSE
  BY <1>1, <1>2, <1>3 DEF Deliver, Free
<1>4. ASSUME NEW v \in Workers, NEW c \in Accounts, NEW call, NEW e, Request(v, c, call, e)
      PROVE  FALSE
  BY <1>2, <1>4 DEF Request, Free
<1>5. ASSUME NEW v \in Workers, NEW a \in Agencies, NEW e, BeginInvite(v, a, e)
      PROVE  FALSE
  BY <1>2, <1>5 DEF BeginInvite, Free
<1>6. ASSUME NEW v \in Workers, NEW a \in Agencies, NEW r \in Rows,
             Activate(v, a, r) \/ BeginDeactivate(v, a, r)
      PROVE  FALSE
  BY <1>1, <1>2, <1>6 DEF Activate, BeginDeactivate, Free
<1>7. ASSUME NEW v \in Workers, NEW r \in Rows, NEW tie \in Ties, Tie(v, r, tie) \/ Untie(v, r, tie)
      PROVE  FALSE
  BY <1>1, <1>7 DEF Tie, Untie
<1>8. ASSUME NEW c \in Accounts,
             DeleteAccount(c) \/ \E e \in Emails : SignUp(c, e) \/ UpdateProfile(c, e)
      PROVE  FALSE
  BY <1>1, <1>8 DEF DeleteAccount, SignUp, UpdateProfile
<1>9. ASSUME NEW v \in Workers, Step(v) \/ Crash(v) PROVE v = w
  BY <1>9, StepsAlone DEF Crash, Return, IInv
<1> QED BY <1>1, <1>3, <1>4, <1>5, <1>6, <1>7, <1>8, <1>9 DEF Next, vars

LEMMA RowsGiven ==
  ASSUME OneDoor, IInv, Door, [Next]_vars, NEW w \in Workers, GetsRow(w)
  PROVE  Taken(w)
<1>1. Step(w) \/ Crash(w)
  BY CallsGoOn DEF GetsRow
<1>2. ~Crash(w)
  BY DEF Crash, GetsRow, db
<1>3. Link(w) \/ Create(w)
  BY <1>1, <1>2 DEF GetsRow, Step, Find, FindEmail, Claim, Revive, Refresh, MakeOwner, Count,
     ListOpen, Withdraw, SwitchOff
<1> QED BY <1>3, LinkDoor, CreateDoor DEF GetsRow

(* Whoever is given a row, however invites and changes of email fall       *)
(* between the steps of the sign-in, is given the one that an agency made  *)
(* for the email the call knows, or there is none: it never waits beside.  *)
THEOREM OneAccountEach == OneDoor => (Spec => OneAccount)
<1> SUFFICES ASSUME OneDoor PROVE Spec => OneAccount OBVIOUS
<1> DEFINE A == \A w \in Workers : GetsRow(w) =>
                  \A r \in Known' : user'[r].clerk = Null /\ user'[r].email # Null
                                      => user'[r].email # job[w].email
<1>1. IInv /\ Door /\ [Next]_vars => [A]_vars
  <2> SUFFICES ASSUME IInv, Door, [Next]_vars, NEW w \in Workers, GetsRow(w), NEW r \in Known',
                      user'[r].clerk = Null, user'[r].email # Null, user'[r].email = job[w].email
               PROVE  FALSE
    OBVIOUS
  <2>1. PICK s \in Known' : user'[s].clerk # Null /\ user'[s].email = job[w].email
    BY RowsGiven DEF Taken
  <2>2. EmailsDiffer'
    BY NextDoor DEF Door
  <2>3. r = s
    BY <2>1, <2>2 DEF EmailsDiffer
  <2> QED BY <2>1, <2>3
<1>2. OneAccount <=> [][A]_vars BY DEF OneAccount
<1> HIDE DEF A
<1> QED BY <1>1, <1>2, InitDoor, NextDoor, Invariance, PTL DEF Spec

(* A linked row never changes hands: the guard and the webhook link only   *)
(* rows that are nobody's, and still are when the link is written.         *)
THEOREM LinksAreFinal == OneDoor => (Spec => LinkIsFinal)
<1> SUFFICES ASSUME OneDoor PROVE Spec => LinkIsFinal OBVIOUS
<1>1. IInv /\ Door /\ [Next]_vars => [LinkKept]_vars BY NextDoor
<1>2. LinkIsFinal <=> [][LinkKept]_vars BY DEF LinkIsFinal, LinkKept
<1> QED BY <1>1, <1>2, InitDoor, NextDoor, Invariance, PTL DEF Spec

--------------------------------------------------------------------------------
(* Whoever handles requests to leave is the only one to handle deals, so   *)
(* no deal is made between the count of a leaver's ties and the switch-    *)
(* off. leave() holds no lock that would rule it out; README.md tells what *)
(* such a deal does.                                                       *)
LeavingApart ==
  \A v, w \in Workers : "leave" \in Duties[v] /\ "deal" \in Duties[w] => v = w

(* The call counted the leases of the person and goes on to switch the     *)
(* account off.                                                            *)
Leaving(j) == j.at \in {"list", "withdraw"} \/ (j.at = "switch_off" /\ j.call = "leave")

(* A leaver past the count has open requests at most, and none once they   *)
(* are withdrawn.                                                          *)
LeavesFree(j, table) ==
  /\ j.at \in {"list", "withdraw"} => table[j.row] \subseteq {"deal"}
  /\ j.at = "switch_off" /\ j.call = "leave" => table[j.row] = {}

Untied == \A w \in Workers : LeavesFree(job[w], ties)

LEMMA UntiedStep ==
  ASSUME IInv, Untied, NEW w \in Workers, NEW j, job' = [job EXCEPT ![w] = j],
         \A r \in Rows : ties'[r] \subseteq ties[r], LeavesFree(j, ties')
  PROVE  Untied'
<1>1. ASSUME NEW v \in Workers PROVE LeavesFree(job'[v], ties')
  <2>1. CASE v = w BY <2>1 DEF IInv
  <2>2. CASE v # w
    <3>1. job'[v] = job[v] /\ LeavesFree(job[v], ties) BY <2>2 DEF IInv, Untied
    <3>2. Leaving(job[v]) => ties'[job[v].row] \subseteq ties[job[v].row]
      BY JobTyped DEF JobFacts, Leaving, LeaveSteps, Known
    <3> QED BY <3>1, <3>2 DEF LeavesFree, Leaving
  <2> QED BY <2>1, <2>2
<1> QED BY <1>1 DEF Untied

(* A call that is not on its way out after its step.                       *)
LEMMA UntiedElsewhere ==
  ASSUME IInv, Untied, NEW w \in Workers, NEW j, job' = [job EXCEPT ![w] = j],
         UNCHANGED ties, ~Leaving(j)
  PROVE  Untied'
<1>1. LeavesFree(j, ties') BY DEF LeavesFree, Leaving
<1> QED BY <1>1, UntiedStep

LEMMA UntiedGoto ==
  ASSUME IInv, Untied, NEW w \in Workers,
         NEW step \in Steps \ {"list", "withdraw", "switch_off"}, Goto(w, step), UNCHANGED ties
  PROVE  Untied'
<1>1. PICK j \in Jobs : j = [job[w] EXCEPT !.at = step] /\ job' = [job EXCEPT ![w] = j]
  BY GotoRow
<1>2. j.at = step BY <1>1 DEF IInv, Jobs
<1> QED BY <1>1, <1>2, UntiedElsewhere DEF Leaving

LEMMA UntiedReturn ==
  ASSUME IInv, Untied, NEW w \in Workers, Return(w), \A r \in Rows : ties'[r] \subseteq ties[r]
  PROVE  Untied'
<1>1. LeavesFree(Idle, ties') BY IdleFacts DEF LeavesFree
<1> QED BY <1>1, UntiedStep DEF Return

LEMMA UntiedFinish ==
  ASSUME IInv, Untied, NEW w \in Workers, job[w].at \in {"claim", "revive", "refresh"},
         Finish(w), UNCHANGED ties
  PROVE  Untied'
<1>1. PICK j \in Jobs : job' = [job EXCEPT ![w] = j] /\ j.at \in {"idle", "count"}
  BY FinishJob
<1> QED BY <1>1, UntiedElsewhere DEF Leaving

LEMMA UntiedDoor ==
  ASSUME IInv, Untied, NEW w \in Workers,
         \/ Find(w) \/ FindEmail(w) \/ Link(w) \/ Claim(w) \/ Create(w)
         \/ Revive(w) \/ Refresh(w) \/ MakeOwner(w)
  PROVE  Untied'
<1> DEFINE k == job[w]
<1>1. k \in Jobs /\ JobFacts(w, k, Known) BY JobTyped
<1>2. CASE Find(w)
  <2>1. k.at = "find" /\ UNCHANGED ties BY <1>2 DEF Find, db
  <2>2. PICK step \in {"create", "find_email", "refresh", "revive", "count"},
             row \in Rows \cup {Null} :
          \/ job' = [job EXCEPT ![w] = [k EXCEPT !.at = step]]
          \/ job' = [job EXCEPT ![w] = [k EXCEPT !.row = row, !.at = step]]
          \/ job' = [job EXCEPT ![w] = Idle]
    <3>1. CASE Of(k.account) = {} BY <1>2, <3>1 DEF Find
    <3>2. CASE Of(k.account) # {}
      <4> DEFINE r == CHOOSE r \in Of(k.account) : TRUE
      <4>1. r \in Of(k.account) BY <3>2
      <4>2. r \in Known /\ r \in Rows BY <4>1 DEF Of, Known
      <4> HIDE DEF r
      <4>3. user[r].active \in BOOLEAN BY <4>2, KnownRow DEF IInv, Users
      <4>4. job' = [job EXCEPT ![w] =
              CASE k.call = "webhook" -> [k EXCEPT !.row = r, !.at = "refresh"]
                [] k.call # "webhook" /\ ~user[r].active -> [k EXCEPT !.row = r, !.at = "revive"]
                [] k.call = "leave" /\ user[r].active -> [k EXCEPT !.row = r, !.at = "count"]
                [] k.call = "request" /\ user[r].active -> Idle]
        BY <1>2, <3>2 DEF Find, r
      <4>5. k.call \in DoorCalls BY <1>1, <2>1 DEF JobFacts, DoorSteps
      <4>6. \/ \E step \in {"refresh", "revive", "count"} :
                  job' = [job EXCEPT ![w] = [k EXCEPT !.row = r, !.at = step]]
            \/ job' = [job EXCEPT ![w] = Idle]
        BY <4>3, <4>4, <4>5 DEF DoorCalls
      <4> QED BY <4>2, <4>6
    <3> QED BY <3>1, <3>2
  <2> DEFINE i == [k EXCEPT !.at = step]  j == [k EXCEPT !.row = row, !.at = step]
  <2>3. i.at = step /\ j.at = step BY <1>1 DEF Jobs
  <2>4. ~Leaving(i) /\ ~Leaving(j) /\ ~Leaving(Idle) BY <2>3, IdleFacts DEF Leaving
  <2> HIDE DEF i, j
  <2>5. CASE job' = [job EXCEPT ![w] = i] BY <2>1, <2>4, <2>5, UntiedElsewhere
  <2>6. CASE job' = [job EXCEPT ![w] = j] BY <2>1, <2>4, <2>6, UntiedElsewhere
  <2>7. CASE job' = [job EXCEPT ![w] = Idle] BY <2>1, <2>4, <2>7, UntiedElsewhere
  <2> QED BY <2>2, <2>5, <2>6, <2>7 DEF i, j
<1>3. CASE FindEmail(w)
  <2>1. UNCHANGED ties BY <1>3 DEF FindEmail, db
  <2>2. CASE Goto(w, "create") BY <2>1, <2>2, UntiedGoto DEF Steps
  <2>3. CASE ~Goto(w, "create")
    <3>1. PICK r : job' = [job EXCEPT ![w].row = r,
                              ![w].at = IF user[r].clerk = Null THEN "link" ELSE "create"]
      BY <1>3, <2>3 DEF FindEmail
    <3> DEFINE j == [k EXCEPT !.row = r,
                              !.at = IF user[r].clerk = Null THEN "link" ELSE "create"]
    <3>2. job' = [job EXCEPT ![w] = j] BY <3>1 DEF IInv
    <3>3. j.at \in {"link", "create"} BY <1>1 DEF Jobs
    <3> HIDE DEF j
    <3> QED BY <2>1, <3>2, <3>3, UntiedElsewhere DEF Leaving
  <2> QED BY <2>2, <2>3
<1>4. CASE Fail(w) BY <1>4, UntiedReturn DEF Fail
<1>5. CASE Link(w) /\ ~Fail(w)
  <2>1. /\ job' = [job EXCEPT ![w].at = "claim", ![w].flag = user[k.row].active]
        /\ UNCHANGED ties
    BY <1>5 DEF Link
  <2> DEFINE j == [k EXCEPT !.at = "claim", !.flag = user[k.row].active]
  <2>2. job' = [job EXCEPT ![w] = j] BY <2>1 DEF IInv
  <2>3. j.at = "claim" BY <1>1 DEF Jobs
  <2> HIDE DEF j
  <2> QED BY <2>1, <2>2, <2>3, UntiedElsewhere DEF Leaving
<1>6. CASE Claim(w)
  <2>1. k.at = "claim" /\ UNCHANGED ties /\ (Finish(w) \/ Goto(w, "revive"))
    BY <1>6 DEF Claim
  <2> QED BY <2>1, UntiedFinish, UntiedGoto DEF Steps
<1>7. CASE Create(w) /\ ~Fail(w)
  <2>1. PICK r : \/ Return(w)
                 \/ job' = [job EXCEPT ![w] = IF k.call = "leave"
                                 THEN [@ EXCEPT !.row = r, !.at = "count"] ELSE Idle]
    BY <1>7 DEF Create
  <2>2. UNCHANGED ties BY <1>7 DEF Create
  <2>3. CASE Return(w) BY <2>2, <2>3, UntiedReturn
  <2>4. CASE ~Return(w)
    <3> DEFINE j == [k EXCEPT !.row = r, !.at = "count"]
    <3>1. job' = [job EXCEPT ![w] = j] BY <2>1, <2>4 DEF Return, IInv
    <3>2. j.at = "count" BY <1>1 DEF Jobs
    <3> HIDE DEF j
    <3> QED BY <2>2, <3>1, <3>2, UntiedElsewhere DEF Leaving
  <2> QED BY <2>3, <2>4
<1>8. CASE Revive(w) BY <1>8, UntiedFinish DEF Revive
<1>9. CASE Refresh(w) BY <1>9, UntiedFinish DEF Refresh
<1>10. CASE MakeOwner(w) /\ ~Fail(w) BY <1>10, UntiedReturn DEF MakeOwner
<1> QED BY <1>2, <1>3, <1>4, <1>5, <1>6, <1>7, <1>8, <1>9, <1>10

LEMMA UntiedLeave ==
  ASSUME IInv, Untied, NEW w \in Workers,
         Count(w) \/ ListOpen(w) \/ Withdraw(w) \/ SwitchOff(w)
  PROVE  Untied'
<1> DEFINE k == job[w]
<1>1. k \in Jobs /\ JobFacts(w, k, Known) /\ LeavesFree(k, ties)
  BY JobTyped DEF Untied
<1>2. \A step \in {"list", "withdraw", "switch_off"} : Goto(w, step) =>
        \E j \in Jobs : job' = [job EXCEPT ![w] = j] /\ j.at = step /\ j.row = k.row
  <2>1. ASSUME NEW step \in {"list", "withdraw", "switch_off"}, Goto(w, step)
        PROVE \E j \in Jobs : job' = [job EXCEPT ![w] = j] /\ j.at = step /\ j.row = k.row
    <3>1. PICK j \in Jobs : j = [k EXCEPT !.at = step] /\ job' = [job EXCEPT ![w] = j]
      BY <2>1, GotoRow DEF Steps
    <3>2. j.at = step /\ j.row = k.row BY <1>1, <3>1 DEF Jobs
    <3> QED BY <3>1, <3>2
  <2> QED BY <2>1
<1>3. CASE Return(w)
  <2>1. \A r \in Rows : ties'[r] \subseteq ties[r]
    BY <1>3 DEF Count, ListOpen, Withdraw, SwitchOff, db, IInv, Tables
  <2> QED BY <1>3, <2>1, UntiedReturn
<1>4. CASE Count(w) /\ ~Return(w)
  <2>1. ties[k.row] \subseteq {"deal"} /\ Goto(w, "list") /\ UNCHANGED ties
    BY <1>4 DEF Count, db
  <2>2. PICK j \in Jobs : job' = [job EXCEPT ![w] = j] /\ j.at = "list" /\ j.row = k.row
    BY <1>2, <2>1
  <2>3. LeavesFree(j, ties') BY <2>1, <2>2 DEF LeavesFree
  <2> QED BY <2>1, <2>2, <2>3, UntiedStep
<1>5. CASE ListOpen(w)
  <2>1. ties[k.row] \subseteq {"deal"} /\ UNCHANGED ties
    BY <1>1, <1>5 DEF ListOpen, LeavesFree, db
  <2>2. PICK step \in {"withdraw", "switch_off"} :
          Goto(w, step) /\ (step = "switch_off" => "deal" \notin ties[k.row])
    BY <1>5 DEF ListOpen
  <2>3. PICK j \in Jobs : job' = [job EXCEPT ![w] = j] /\ j.at = step /\ j.row = k.row
    BY <1>2, <2>2
  <2>4. LeavesFree(j, ties') BY <2>1, <2>2, <2>3 DEF LeavesFree
  <2> QED BY <2>1, <2>3, <2>4, UntiedStep
<1>6. CASE Withdraw(w) /\ ~Return(w)
  <2>1. /\ k.row \in Rows /\ ties[k.row] \subseteq {"deal"} /\ Goto(w, "switch_off")
        /\ ties' = [ties EXCEPT ![k.row] = @ \ {"deal"}]
    BY <1>1, <1>6 DEF Withdraw, LeavesFree, JobFacts, LeaveSteps, Known
  <2>2. PICK j \in Jobs : job' = [job EXCEPT ![w] = j] /\ j.at = "switch_off" /\ j.row = k.row
    BY <1>2, <2>1
  <2>3. ties'[k.row] = {} /\ \A r \in Rows : ties'[r] \subseteq ties[r]
    BY <2>1 DEF IInv, Tables
  <2>4. LeavesFree(j, ties') BY <2>2, <2>3 DEF LeavesFree
  <2> QED BY <2>2, <2>3, <2>4, UntiedStep
<1>7. CASE SwitchOff(w) /\ ~Return(w) BY <1>7 DEF SwitchOff
<1> QED BY <1>3, <1>4, <1>5, <1>6, <1>7

LEMMA UntiedStays ==
  ASSUME IInv, Untied, UNCHANGED job, \A r \in Rows : ties'[r] \subseteq ties[r]
  PROVE  Untied'
<1>1. ASSUME NEW v \in Workers PROVE LeavesFree(job'[v], ties')
  <2>1. job'[v] = job[v] /\ LeavesFree(job[v], ties) BY DEF Untied
  <2>2. Leaving(job[v]) => ties'[job[v].row] \subseteq ties[job[v].row]
    BY JobTyped DEF JobFacts, Leaving, LeaveSteps, Known
  <2> QED BY <2>1, <2>2 DEF LeavesFree, Leaving
<1> QED BY <1>1 DEF Untied

LEMMA UntiedBegin ==
  ASSUME IInv, Untied, NEW w \in Workers, NEW c, NEW x, NEW y, NEW r,
         \/ Deliver(w, c, x) \/ Request(w, c, x, y)
         \/ BeginInvite(w, c, x) \/ Activate(w, c, r) \/ BeginDeactivate(w, c, r)
  PROVE  Untied'
<1>1. UNCHANGED ties
  BY DEF Deliver, Request, BeginInvite, Activate, BeginDeactivate, db
<1>2. UNCHANGED job \/ \E j : job' = [job EXCEPT ![w] = j] /\ ~Leaving(j)
  <2>1. CASE Deliver(w, c, x) /\ x # "deleted"
    <3> DEFINE j == [Idle EXCEPT !.at = "find", !.call = "webhook",
                       !.account = c, !.email = x]
    <3>1. job' = [job EXCEPT ![w] = j] BY <2>1 DEF Deliver
    <3>2. ~Leaving(j) BY DEF Leaving, Idle
    <3> QED BY <3>1, <3>2
  <2>2. CASE Request(w, c, x, y)
    <3> DEFINE j == [Idle EXCEPT !.at = "find", !.call = x, !.account = c, !.email = y]
    <3>1. job' = [job EXCEPT ![w] = j] BY <2>2 DEF Request
    <3>2. ~Leaving(j) BY DEF Leaving, Idle
    <3> QED BY <3>1, <3>2
  <2>3. CASE BeginInvite(w, c, x)
    <3>1. PICK q : job' = [job EXCEPT ![w] = [Idle EXCEPT !.at = "make_owner",
                    !.call = "invite", !.email = x, !.agency = c, !.row = q,
                    !.flag = IF q = Null THEN FALSE ELSE user[q].clerk # Null]]
      BY <2>3 DEF BeginInvite
    <3>2. ~Leaving([Idle EXCEPT !.at = "make_owner",
                    !.call = "invite", !.email = x, !.agency = c, !.row = q,
                    !.flag = IF q = Null THEN FALSE ELSE user[q].clerk # Null])
      BY DEF Leaving, Idle
    <3> QED BY <3>1, <3>2
  <2>4. CASE BeginDeactivate(w, c, r)
    <3> DEFINE j == [Idle EXCEPT !.at = "switch_off", !.call = "activate", !.row = r]
    <3>1. job' = [job EXCEPT ![w] = j] BY <2>4 DEF BeginDeactivate
    <3>2. ~Leaving(j) BY DEF Leaving, Idle
    <3> QED BY <3>1, <3>2
  <2>5. CASE UNCHANGED job BY <2>5
  <2> QED BY <2>1, <2>2, <2>3, <2>4, <2>5 DEF Deliver, Activate
<1> QED BY <1>1, <1>2, UntiedStays, UntiedElsewhere

(* The worker that makes deals is the one whose leaving could be disturbed,*)
(* and it makes them between its calls.                                    *)
LEMMA UntiedTie ==
  ASSUME LeavingApart, IInv, Untied, NEW w \in Workers, NEW r, NEW tie, Tie(w, r, tie)
  PROVE  Untied'
<1>1. job[w].at = "idle" /\ "deal" \in Duties[w] /\ UNCHANGED job BY DEF Tie, Free
<1>2. ASSUME NEW v \in Workers PROVE LeavesFree(job'[v], ties')
  <2>1. SUFFICES ASSUME Leaving(job[v]) PROVE FALSE
    BY <1>1 DEF LeavesFree, Leaving
  <2>2. "leave" \in Duties[v] BY <2>1, JobTyped DEF JobFacts, Leaving, LeaveSteps
  <2>3. v = w BY <1>1, <2>2 DEF LeavingApart
  <2> QED BY <1>1, <2>1, <2>3 DEF Leaving
<1> QED BY <1>2 DEF Untied

LEMMA NextUntied == LeavingApart /\ IInv /\ Untied /\ [Next]_vars => Untied'
<1> SUFFICES ASSUME LeavingApart, IInv, Untied, [Next]_vars PROVE Untied' OBVIOUS
<1>1. ASSUME NEW w \in Workers, Step(w) PROVE Untied'
  BY <1>1, UntiedDoor, UntiedLeave DEF Step
<1>2. ASSUME NEW w \in Workers, Crash(w) PROVE Untied'
  BY <1>2, UntiedReturn DEF Crash, db
<1>3. ASSUME NEW w \in Workers, NEW r \in Rows, NEW tie \in Ties, Untie(w, r, tie) PROVE Untied'
  <2>1. \A s \in Rows : ties'[s] = ties[s] \/ ties'[s] = ties[s] \ {tie}
    BY <1>3 DEF Untie, IInv, Tables
  <2> QED BY <1>3, <2>1, UntiedStays DEF Untie
<1>4. ASSUME NEW c \in Accounts, DeleteAccount(c) \/ \E e \in Emails : SignUp(c, e) \/ UpdateProfile(c, e)
      PROVE  Untied'
  BY <1>4, UntiedStays DEF SignUp, UpdateProfile, DeleteAccount, db
<1>5. CASE UNCHANGED vars BY <1>5, UntiedStays DEF vars
<1> QED BY <1>1, <1>2, <1>3, <1>4, <1>5, UntiedBegin, UntiedTie DEF Next

LEMMA InitUntied == Init => Untied
BY IdleFacts DEF Init, Untied, LeavesFree

(* Nobody is switched off by leaving while they have an open request or a  *)
(* lease, as tenant or owner, however sign-ins, webhooks and invites fall  *)
(* in between.                                                             *)
THEOREM LeaversAreFree == LeavingApart => (Spec => LeaversHaveNoTies)
<1> SUFFICES ASSUME LeavingApart PROVE Spec => LeaversHaveNoTies OBVIOUS
<1> DEFINE A == \A w \in Workers :
                  SwitchesOff(w) /\ job[w].call = "leave" => ties[job[w].row] = {}
<1>1. IInv /\ Untied /\ [Next]_vars => [A]_vars
  BY DEF Untied, LeavesFree, SwitchesOff
<1>2. LeaversHaveNoTies <=> [][A]_vars BY DEF LeaversHaveNoTies
<1> HIDE DEF A
<1> QED BY <1>1, <1>2, InitUntied, NextUntied, Invariance, PTL DEF Spec

--------------------------------------------------------------------------------
(* INVITES.  OwnersService.create writes 'invited' from a link it read     *)
(* earlier (owners.service.ts:47); a sign-in in between leaves the invite  *)
(* pending for good.  Not so when invites are handled by whoever handles   *)
(* sign-ins and webhooks, and a link is not cut short before its claim.    *)

OneRegister ==
  \A v, w \in Workers :
     Duties[v] \cap (DoorCalls \cup {"invite"}) # {} /\ Duties[w] \cap (DoorCalls \cup {"invite"}) # {}
       => v = w

(* An invite in hand remembers whether its person is linked.               *)
Remembers(j, table) ==
  j.at = "make_owner" /\ j.row # Null => (j.flag <=> table[j.row].clerk # Null)

Register == ClaimedWhenLinked /\ \A w \in Workers : Remembers(job[w], user)

(* Rows stay, and nobody is linked.                                        *)
SameLinks == Known \subseteq Known' /\ \A r \in Known : user'[r].clerk = user[r].clerk

LEMMA KeptSameLinks == ASSUME Kept PROVE SameLinks
BY DEF Kept, SameLinks

LEMMA RemembersStill ==
  ASSUME IInv, SameLinks, NEW v \in Workers, Remembers(job[v], user)
  PROVE  Remembers(job[v], user')
<1>1. job[v].at = "make_owner" => job[v].row \in Known \cup {Null}
  BY JobTyped DEF JobFacts
<1>2. QED BY <1>1 DEF Remembers, SameLinks

(* A row that is new has no invite: its owners row would point nowhere.    *)
LEMMA LinkedWasLinked ==
  ASSUME IInv, SameLinks, owner' = owner, NEW r \in Known', NEW a \in Agencies,
         user'[r].clerk # Null, owner'[r][a] = "invited"
  PROVE  r \in Known /\ user[r].clerk # Null /\ owner[r][a] = "invited"
<1>1. r \in Rows /\ owner[r][a] = "invited"
  BY DEF Known
<1>2. r \in Known
  BY <1>1 DEF IInv, Tables, Known
<1>3. QED BY <1>1, <1>2 DEF SameLinks

(* A worker that is not at the claim goes on, and links nobody.            *)
LEMMA RegisterStep ==
  ASSUME IInv, Register, NEW w \in Workers, NEW j, job' = [job EXCEPT ![w] = j],
         job[w].at # "claim", owner' = owner, SameLinks, Remembers(j, user')
  PROVE  Register'
<1>1. job'[w] = j /\ \A v \in Workers \ {w} : job'[v] = job[v]
  BY DEF IInv
<1>2. \A v \in Workers : Remembers(job'[v], user')
  BY <1>1, RemembersStill DEF Register
<1>3. ASSUME NEW r \in Known', NEW a \in Agencies, user'[r].clerk # Null, owner'[r][a] = "invited"
      PROVE  \E v \in Workers : job'[v].at = "claim" /\ job'[v].row = r
  <2>1. r \in Known /\ user[r].clerk # Null /\ owner[r][a] = "invited"
    BY <1>3, LinkedWasLinked
  <2>2. PICK v \in Workers : job[v].at = "claim" /\ job[v].row = r
    BY <2>1 DEF Register, ClaimedWhenLinked
  <2>3. QED BY <1>1, <2>2
<1>4. QED BY <1>2, <1>3 DEF Register, ClaimedWhenLinked

(* Nobody goes on, and nobody is linked.                                   *)
LEMMA RegisterStays ==
  ASSUME IInv, Register, job' = job, owner' = owner, SameLinks PROVE Register'
<1>1. \A v \in Workers : Remembers(job'[v], user')
  BY RemembersStill DEF Register
<1>2. ASSUME NEW r \in Known', NEW a \in Agencies, user'[r].clerk # Null, owner'[r][a] = "invited"
      PROVE  \E v \in Workers : job'[v].at = "claim" /\ job'[v].row = r
  BY <1>2, LinkedWasLinked DEF Register, ClaimedWhenLinked
<1>3. QED BY <1>1, <1>2 DEF Register, ClaimedWhenLinked

LEMMA NotInviting ==
  ASSUME NEW j, j.at # "make_owner", NEW table PROVE Remembers(j, table)
BY DEF Remembers

(* A step that writes neither users nor owners.                            *)
LEMMA LookRegister ==
  ASSUME IInv, Register, NEW w \in Workers, NEW j, job' = [job EXCEPT ![w] = j],
         job[w].at # "claim", UNCHANGED <<user, owner>>, j.at # "make_owner"
  PROVE  Register'
BY SameKept, KeptSameLinks, NotInviting, RegisterStep

LEMMA GotoRegister ==
  ASSUME IInv, Register, NEW w \in Workers, NEW step \in Steps \ {"make_owner"}, Goto(w, step),
         job[w].at # "claim", UNCHANGED <<user, owner>>
  PROVE  Register'
<1>1. PICK j \in Jobs : j = [job[w] EXCEPT !.at = step] /\ job' = [job EXCEPT ![w] = j]
  BY GotoRow
<1>2. j.at = step
  BY <1>1 DEF IInv, Jobs
<1>3. QED BY <1>1, <1>2, LookRegister

LEMMA ReturnRegister ==
  ASSUME IInv, Register, NEW w \in Workers, Return(w), job[w].at # "claim", owner' = owner, SameLinks
  PROVE  Register'
<1>1. Remembers(Idle, user')
  BY IdleFacts, NotInviting
<1>2. QED BY <1>1, RegisterStep DEF Return

LEMMA FailRegister ==
  ASSUME IInv, Register, NEW w \in Workers, Fail(w), job[w].at # "claim" PROVE Register'
BY ReturnRegister, SameKept, KeptSameLinks DEF Fail

(* The guard and the webhook look.                                         *)
LEMMA FindRegister ==
  ASSUME IInv, Register, NEW w \in Workers, Find(w) \/ FindEmail(w) PROVE Register'
<1> DEFINE k == job[w]
<1>1. k \in Jobs /\ JobFacts(w, k, Known) /\ k.at \in {"find", "find_email"}
  BY JobTyped DEF Find, FindEmail
<1>2. k.call \in DoorCalls
  BY <1>1 DEF JobFacts, DoorSteps
<1>3. UNCHANGED <<user, owner>>
  BY DEF Find, FindEmail, db
<1>4. PICK j : job' = [job EXCEPT ![w] = j] /\ j.at # "make_owner"
  <2>1. CASE Find(w) /\ Of(k.account) = {}
    <3>1. [k EXCEPT !.at = IF k.email = Null THEN "create" ELSE "find_email"].at # "make_owner"
      BY <1>1 DEF Jobs
    <3>2. QED BY <2>1, <3>1 DEF Find
  <2>2. CASE Find(w) /\ Of(k.account) # {}
    <3> DEFINE r == CHOOSE r \in Of(k.account) : TRUE
    <3>1. r \in Of(k.account)
      BY <2>2
    <3>2. user[r].active \in BOOLEAN
      BY <3>1, KnownRow DEF Of, IInv, Users
    <3> HIDE DEF r
    <3>3. job' = [job EXCEPT ![w] =
            CASE k.call = "webhook" -> [k EXCEPT !.row = r, !.at = "refresh"]
              [] k.call # "webhook" /\ ~user[r].active -> [k EXCEPT !.row = r, !.at = "revive"]
              [] k.call = "leave" /\ user[r].active -> [k EXCEPT !.row = r, !.at = "count"]
              [] k.call = "request" /\ user[r].active -> Idle]
      BY <2>2 DEF Find, r
    <3>4. \A step \in {"refresh", "revive", "count"} :
             [k EXCEPT !.row = r, !.at = step].at # "make_owner"
      BY <1>1 DEF Jobs
    <3>5. CASE k.call = "webhook"
      BY <3>3, <3>4, <3>5
    <3>6. CASE k.call # "webhook" /\ ~user[r].active
      BY <3>3, <3>4, <3>6
    <3>7. CASE k.call = "leave" /\ user[r].active
      BY <3>3, <3>4, <3>7
    <3>8. CASE k.call = "request" /\ user[r].active
      BY <3>3, <3>8, IdleFacts
    <3>9. QED BY <1>2, <3>2, <3>5, <3>6, <3>7, <3>8 DEF DoorCalls
  <2>3. CASE FindEmail(w) /\ WithEmail(k.email) = {}
    <3>1. job' = [job EXCEPT ![w] = [k EXCEPT !.at = "create"]]
      BY <1>1, <2>3 DEF FindEmail, Goto, IInv
    <3>2. [k EXCEPT !.at = "create"].at = "create"
      BY <1>1 DEF Jobs
    <3>3. QED BY <3>1, <3>2
  <2>4. CASE FindEmail(w) /\ WithEmail(k.email) # {}
    <3>1. PICK r \in WithEmail(k.email) :
            job' = [job EXCEPT ![w].row = r,
                       ![w].at = IF user[r].clerk = Null THEN "link" ELSE "create"]
      BY <2>4 DEF FindEmail
    <3> DEFINE j == [k EXCEPT !.row = r, !.at = IF user[r].clerk = Null THEN "link" ELSE "create"]
    <3>2. job' = [job EXCEPT ![w] = j]
      BY <3>1 DEF IInv
    <3>3. j.at # "make_owner"
      BY <1>1 DEF Jobs
    <3>4. QED BY <3>2, <3>3
  <2>5. QED BY <2>1, <2>2, <2>3, <2>4
<1>5. QED BY <1>1, <1>3, <1>4, LookRegister

(* A link leaves its invites to the claim that follows; no invite is in    *)
(* hand that remembers the person as unlinked.                             *)
LEMMA LinkRegister ==
  ASSUME OneRegister, IInv, Register, NEW w \in Workers, Link(w) PROVE Register'
<1> DEFINE k == job[w]
           r == k.row
<1>1. k \in Jobs /\ k.at = "link" /\ JobFacts(w, k, Known)
  BY JobTyped DEF Link
<1>2. r \in Known /\ r \in Rows /\ user[r] \in Users /\ k.call \in DoorCalls /\ k.call \in Duties[w]
  BY <1>1, KnownRow DEF JobFacts, DoorSteps, IInv
<1> SUFFICES ASSUME Of(k.account) \ {r} = {} PROVE Register'
  BY <1>1, FailRegister DEF Link
<1>3. /\ user' = [user EXCEPT ![r].clerk = k.account,
                              ![r].active = (@ \/ k.call = "webhook")]
      /\ job' = [job EXCEPT ![w].at = "claim", ![w].flag = user[r].active]
      /\ owner' = owner
  BY DEF Link
<1>4. job'[w].at = "claim" /\ job'[w].row = r /\ \A v \in Workers \ {w} : job'[v] = job[v]
  BY <1>1, <1>3 DEF IInv, Jobs
<1>5. \A s \in Rows \ {r} : user'[s] = user[s]
  BY <1>3 DEF IInv, Tables
<1>6. \A v \in Workers : job'[v].at # "make_owner"
  <2>1. ASSUME NEW v \in Workers \ {w}, job[v].at = "make_owner" PROVE FALSE
    <3>1. "invite" \in Duties[v]
      BY <2>1, JobTyped DEF JobFacts
    <3>2. QED BY <1>2, <2>1, <3>1 DEF OneRegister
  <2>2. QED BY <1>4, <2>1
<1> HIDE DEF k, r
<1>7. ASSUME NEW s \in Known', NEW a \in Agencies, user'[s].clerk # Null, owner'[s][a] = "invited"
      PROVE  \E v \in Workers : job'[v].at = "claim" /\ job'[v].row = s
  <2>1. CASE s = r
    BY <1>4, <2>1
  <2>2. CASE s # r
    <3>1. s \in Known /\ user[s].clerk # Null /\ owner[s][a] = "invited"
      BY <1>3, <1>5, <1>7, <2>2 DEF Known
    <3>2. PICK v \in Workers : job[v].at = "claim" /\ job[v].row = s
      BY <3>1 DEF Register, ClaimedWhenLinked
    <3>3. v # w
      BY <1>1, <3>2 DEF k
    <3>4. QED BY <1>4, <3>2, <3>3
  <2>3. QED BY <2>1, <2>2
<1>8. QED BY <1>6, <1>7 DEF Register, ClaimedWhenLinked, Remembers

(* The claim leaves no invite of its row pending.                          *)
LEMMA ClaimRegister ==
  ASSUME IInv, Register, NEW w \in Workers, Claim(w) PROVE Register'
<1> DEFINE r == job[w].row
<1>1. job[w].at = "claim" /\ r \in Rows /\ user' = user
  BY JobTyped DEF Claim, JobFacts, Known
<1>2. /\ \A a \in Agencies : owner'[r][a] # "invited"
      /\ \A s \in Rows \ {r} : owner'[s] = owner[s]
  BY <1>1 DEF Claim, IInv, Tables
<1>3. PICK j : job' = [job EXCEPT ![w] = j] /\ j.at # "make_owner"
  <2>1. CASE Finish(w)
    BY <1>1, <2>1, FinishJob
  <2>2. CASE Goto(w, "revive")
    <3>1. PICK j \in Jobs : j = [job[w] EXCEPT !.at = "revive"] /\ job' = [job EXCEPT ![w] = j]
      BY <2>2, GotoRow DEF Steps
    <3>2. j.at = "revive"
      BY <3>1 DEF IInv, Jobs
    <3>3. QED BY <3>1, <3>2
  <2>3. QED BY <2>1, <2>2 DEF Claim
<1>4. job'[w] = j /\ \A v \in Workers \ {w} : job'[v] = job[v]
  BY <1>3 DEF IInv
<1>5. \A v \in Workers : Remembers(job'[v], user')
  BY <1>1, <1>3, <1>4, NotInviting DEF Register
<1> HIDE DEF r
<1>6. ASSUME NEW s \in Known', NEW a \in Agencies, user'[s].clerk # Null, owner'[s][a] = "invited"
      PROVE  \E v \in Workers : job'[v].at = "claim" /\ job'[v].row = s
  <2>1. s \in Known /\ s # r /\ owner[s][a] = "invited"
    BY <1>1, <1>2, <1>6 DEF Known
  <2>2. PICK v \in Workers : job[v].at = "claim" /\ job[v].row = s
    BY <1>1, <1>6, <2>1 DEF Register, ClaimedWhenLinked
  <2>3. v # w
    BY <2>1, <2>2 DEF r
  <2>4. QED BY <1>4, <2>2, <2>3
<1>7. QED BY <1>5, <1>6 DEF Register, ClaimedWhenLinked

(* A new row of a person.                                                  *)
LEMMA NewRowSameLinks ==
  ASSUME IInv, NEW r \in Rows \ Known, NEW u \in Users, user' = [user EXCEPT ![r] = u]
  PROVE  SameLinks
<1>1. \A s \in Rows \ {r} : user'[s] = user[s]
  BY DEF IInv, Tables
<1>2. QED BY <1>1 DEF SameLinks, Known

LEMMA CreateRegister ==
  ASSUME IInv, Register, NEW w \in Workers, Create(w) PROVE Register'
<1> DEFINE k == job[w]
           e == NewEmail(w)
<1>1. k \in Jobs /\ k.at = "create" /\ k.account \in Accounts
  BY JobTyped DEF Create, JobFacts, DoorSteps
<1>2. e \in Emails \cup {Null}
  BY <1>1 DEF NewEmail, Jobs
<1> SUFFICES ASSUME ~Fail(w) PROVE Register'
  BY <1>1, FailRegister
<1>3. PICK r \in Rows \ Known :
        /\ user' = [user EXCEPT ![r] = NewUser(k.account, e)]
        /\ IF k.call = "webhook"
           THEN Return(w)
           ELSE job' = [job EXCEPT ![w] = IF k.call = "leave"
                          THEN [@ EXCEPT !.row = r, !.at = "count"] ELSE Idle]
        /\ owner' = owner
  BY DEF Create
<1>4. NewUser(k.account, e) \in Users
  BY <1>1, <1>2, NewUserTyped
<1>5. SameLinks
  BY <1>3, <1>4, NewRowSameLinks
<1>6. PICK j : job' = [job EXCEPT ![w] = j] /\ j.at # "make_owner"
  <2>1. CASE Return(w)
    BY <2>1, IdleFacts DEF Return
  <2>2. CASE job' = [job EXCEPT ![w] = Idle]
    BY <2>2, IdleFacts
  <2>3. CASE job' = [job EXCEPT ![w] = [@ EXCEPT !.row = r, !.at = "count"]]
    <3>1. job' = [job EXCEPT ![w] = [k EXCEPT !.row = r, !.at = "count"]]
      BY <2>3 DEF IInv
    <3>2. [k EXCEPT !.row = r, !.at = "count"].at = "count"
      BY <1>1 DEF Jobs
    <3>3. QED BY <3>1, <3>2
  <2>4. QED BY <1>3, <2>1, <2>2, <2>3
<1>7. QED BY <1>1, <1>3, <1>5, <1>6, NotInviting, RegisterStep

(* The steps that switch a row on or off.                                  *)
LEMMA SwitchRegister ==
  ASSUME IInv, Register, NEW w \in Workers,
         Revive(w) \/ Refresh(w) \/ SwitchOff(w) \/ \E a \in Agencies, r \in Rows : Activate(w, a, r)
  PROVE  Register'
<1>1. ASSUME NEW r \in Known, NEW u \in Users, u.clerk = user[r].clerk,
             user' = [user EXCEPT ![r] = u]
      PROVE  SameLinks
  <2>1. r \in Rows /\ \A s \in Rows \ {r} : user'[s] = user[s]
    BY <1>1, KnownRow DEF IInv, Tables
  <2>2. user'[r] = u /\ u # Null
    BY <1>1, <2>1, NullIsNobody DEF IInv, Tables
  <2>3. QED BY <1>1, <2>1, <2>2 DEF SameLinks, Known
<1>2. CASE Revive(w) \/ Refresh(w)
  <2> DEFINE k == job[w]
             r == k.row
  <2>1. k \in Jobs /\ r \in Known /\ k.at \in {"revive", "refresh"}
    BY <1>2, JobTyped DEF Revive, Refresh, JobFacts
  <2>2. r \in Rows /\ user[r] \in Users /\ k.email \in Emails \cup {Null}
    BY <2>1, KnownRow DEF IInv, Jobs
  <2>3. SameLinks
    <3>1. CASE Revive(w)
      <4>1. user' = [user EXCEPT ![r] = [user[r] EXCEPT !.active = TRUE, !.left = FALSE]]
        BY <2>2, <3>1, ZenonT(30) DEF Revive, IInv, Tables
      <4>2. /\ [user[r] EXCEPT !.active = TRUE, !.left = FALSE] \in Users
            /\ [user[r] EXCEPT !.active = TRUE, !.left = FALSE].clerk = user[r].clerk
        BY <2>2 DEF Users
      <4>3. QED BY <1>1, <2>1, <4>1, <4>2
    <3>2. CASE Refresh(w)
      <4> DEFINE u == [user[r] EXCEPT !.active = TRUE, !.email = k.email]
      <4>1. user' = user \/ user' = [user EXCEPT ![r] = u]
        BY <2>1, <3>2, RefreshWrites
      <4>2. u \in Users /\ u.clerk = user[r].clerk
        BY <2>2 DEF Users
      <4> HIDE DEF u
      <4>3. CASE user' = user
        BY <4>3, SameKept, KeptSameLinks
      <4>4. CASE user' = [user EXCEPT ![r] = u]
        BY <1>1, <2>1, <4>2, <4>4
      <4>5. QED BY <4>1, <4>3, <4>4
    <3>3. QED BY <1>2, <3>1, <3>2
  <2>4. PICK j \in Jobs : job' = [job EXCEPT ![w] = j] /\ j.at \in {"idle", "count"}
    BY <1>2, <2>1, FinishJob DEF Revive, Refresh
  <2>5. owner' = owner
    BY <1>2 DEF Revive, Refresh
  <2>6. QED BY <2>1, <2>3, <2>4, <2>5, NotInviting, RegisterStep
<1>3. CASE SwitchOff(w)
  <2> DEFINE r == job[w].row
  <2>1. r \in Known
    BY <1>3, JobTyped DEF SwitchOff, JobFacts
  <2>2. /\ user' = [user EXCEPT ![r].active = FALSE, ![r].left = TRUE]
        /\ Return(w) /\ owner' = owner /\ job[w].at # "claim"
    BY <1>3 DEF SwitchOff
  <2> HIDE DEF r
  <2>3. SameLinks
    BY <2>1, <2>2, RowSwitched, KeptSameLinks
  <2>4. QED BY <2>2, <2>3, ReturnRegister
<1>4. ASSUME NEW a \in Agencies, NEW r \in Rows, Activate(w, a, r) PROVE Register'
  <2>1. SameLinks
    BY <1>4, RowSwitched, KeptSameLinks DEF Activate
  <2>2. QED BY <1>4, <2>1, RegisterStays DEF Activate
<1>5. QED BY <1>2, <1>3, <1>4

LEMMA LeaveRegister ==
  ASSUME IInv, Register, NEW w \in Workers, Count(w) \/ ListOpen(w) \/ Withdraw(w) PROVE Register'
<1>1. UNCHANGED <<user, owner>> /\ job[w].at # "claim"
  BY DEF Count, ListOpen, Withdraw, db
<1>2. Return(w) \/ \E step \in {"list", "withdraw", "switch_off"} : Goto(w, step)
  BY DEF Count, ListOpen, Withdraw
<1>3. QED
  BY <1>1, <1>2, GotoRegister, ReturnRegister, SameKept, KeptSameLinks DEF Steps

(* The invite reads, and what it has read is so when it writes.            *)
LEMMA BeginInviteRegister ==
  ASSUME IInv, Register, NEW w \in Workers, NEW a \in Agencies, NEW e \in Emails \cup {Null},
         BeginInvite(w, a, e)
  PROVE  Register'
<1>1. PICK r \in Known \cup {Null} :
        job' = [job EXCEPT ![w] = [Idle EXCEPT !.at = "make_owner", !.call = "invite",
                 !.email = e, !.agency = a, !.row = r,
                 !.flag = IF r = Null THEN FALSE ELSE user[r].clerk # Null]]
  BY DEF BeginInvite, WithEmail
<1> DEFINE j == [Idle EXCEPT !.at = "make_owner", !.call = "invite",
                 !.email = e, !.agency = a, !.row = r,
                 !.flag = IF r = Null THEN FALSE ELSE user[r].clerk # Null]
<1>2. UNCHANGED <<user, owner>> /\ job[w].at # "claim"
  BY DEF BeginInvite, Free, db
<1>3. j.row = r /\ j.flag = IF r = Null THEN FALSE ELSE user[r].clerk # Null
  BY DEF Idle
<1>4. job' = [job EXCEPT ![w] = j]
  BY <1>1
<1> HIDE DEF j
<1>5. Remembers(j, user')
  BY <1>2, <1>3 DEF Remembers
<1>6. QED BY <1>2, <1>4, <1>5, SameKept, KeptSameLinks, RegisterStep

LEMMA MakeOwnerRegister ==
  ASSUME IInv, Register, NEW w \in Workers, MakeOwner(w) PROVE Register'
<1> DEFINE k == job[w]
<1>1. /\ k \in Jobs /\ k.at = "make_owner" /\ k.email \in Emails \cup {Null} /\ k.agency \in Agencies
      /\ k.row \in Known \cup {Null} /\ Remembers(k, user)
  BY JobTyped DEF MakeOwner, JobFacts, Jobs, Register
<1> SUFFICES ASSUME ~Fail(w) PROVE Register'
  BY <1>1, FailRegister
<1>2. PICK r \in IF k.row = Null THEN Rows \ Known ELSE {k.row} :
        /\ user' = IF k.row = Null THEN [user EXCEPT ![r] = NewUser(Null, k.email)] ELSE user
        /\ owner' = [owner EXCEPT ![r][k.agency] = IF k.flag THEN "claimed" ELSE "invited"]
        /\ Return(w)
  BY DEF MakeOwner
<1>3. r \in Rows
  BY <1>1, <1>2 DEF Known
<1>4. \A s \in Rows \ {r} : owner'[s] = owner[s] /\ user'[s] = user[s]
  BY <1>2, <1>3 DEF IInv, Tables
<1>5. \A a \in Agencies \ {k.agency} : owner'[r][a] = owner[r][a]
  BY <1>2, <1>3 DEF IInv, Tables
<1>6. job'[w] = Idle /\ \A v \in Workers \ {w} : job'[v] = job[v]
  BY <1>2, IdleFacts DEF Return, IInv
<1>7. SameLinks
  <2>1. CASE k.row = Null
    <3>1. NewUser(Null, k.email) \in Users
      BY <1>1, NewUserTyped
    <3>2. QED BY <1>2, <2>1, <3>1, NewRowSameLinks
  <2>2. CASE k.row # Null
    BY <1>2, <2>2, SameKept, KeptSameLinks
  <2>3. QED BY <2>1, <2>2
<1>8. k.row = Null => user'[r].clerk = Null
  <2> SUFFICES ASSUME k.row = Null PROVE user'[r].clerk = Null
    OBVIOUS
  <2>1. user'[r] = NewUser(Null, k.email)
    BY <1>2, <1>3 DEF IInv, Tables
  <2>2. NewUser(Null, k.email).clerk = Null
    BY <1>1, NewUserTyped
  <2>3. QED BY <2>1, <2>2
<1>9. k.row # Null => r = k.row /\ user' = user
                      /\ owner'[r][k.agency] = IF user[r].clerk # Null THEN "claimed" ELSE "invited"
  BY <1>1, <1>2, <1>3 DEF Remembers, IInv, Tables
<1>10. \A v \in Workers : Remembers(job'[v], user')
  <2>1. Remembers(Idle, user')
    BY IdleFacts, NotInviting
  <2>2. QED BY <1>6, <1>7, <2>1, RemembersStill DEF Register
<1>11. ASSUME NEW s \in Known', NEW a \in Agencies, user'[s].clerk # Null, owner'[s][a] = "invited"
       PROVE  \E v \in Workers : job'[v].at = "claim" /\ job'[v].row = s
  <2>1. s \in Known /\ user[s].clerk # Null /\ owner[s][a] = "invited"
    <3>1. CASE s # r
      BY <1>4, <1>11, <3>1 DEF Known
    <3>2. CASE s = r
      <4>1. k.row # Null /\ user' = user /\ a # k.agency
        BY <1>8, <1>9, <1>11, <3>2
      <4>2. QED BY <1>5, <1>11, <3>2, <4>1 DEF Known
    <3>3. QED BY <3>1, <3>2
  <2>2. PICK v \in Workers : job[v].at = "claim" /\ job[v].row = s
    BY <2>1 DEF Register, ClaimedWhenLinked
  <2>3. QED BY <1>1, <1>6, <2>2
<1>12. QED BY <1>10, <1>11 DEF Register, ClaimedWhenLinked

LEMMA DeliverRegister ==
  ASSUME IInv, Register, NEW w \in Workers, NEW c \in Accounts, NEW event \in Events,
         Deliver(w, c, event)
  PROVE  Register'
<1>1. CASE event = "deleted"
  <2>1. /\ user' = [r \in Rows |-> IF r \in Of(c) THEN [user[r] EXCEPT !.active = FALSE]
                                   ELSE user[r]]
        /\ UNCHANGED <<job, owner>>
    BY <1>1 DEF Deliver
  <2>2. ASSUME NEW r \in Known
        PROVE  user'[r] # Null /\ user'[r].clerk = user[r].clerk
    <3>1. user[r] \in Users /\ r \in Rows
      BY KnownRow DEF IInv
    <3>2. /\ [user[r] EXCEPT !.active = FALSE] \in Users
          /\ [user[r] EXCEPT !.active = FALSE].clerk = user[r].clerk
      BY <3>1 DEF Users
    <3>3. QED BY <2>1, <3>1, <3>2, NullIsNobody
  <2>3. SameLinks
    BY <2>2 DEF SameLinks, Known
  <2>4. QED BY <2>1, <2>3, RegisterStays
<1>2. CASE event # "deleted"
  <2> DEFINE j == [Idle EXCEPT !.at = "find", !.call = "webhook", !.account = c,
                               !.email = event]
  <2>1. job' = [job EXCEPT ![w] = j] /\ UNCHANGED <<user, owner>> /\ job[w].at # "claim"
    BY <1>2 DEF Deliver, Free
  <2>2. j.at = "find"
    BY DEF Idle
  <2> HIDE DEF j
  <2>3. QED BY <2>1, <2>2, LookRegister
<1>3. QED BY <1>1, <1>2

LEMMA NextRegister ==
  ASSUME OneRegister, "crash" \notin Faults, IInv, Register, [Next]_vars PROVE Register'
<1>1. ASSUME NEW w \in Workers, Step(w) PROVE Register'
  BY <1>1, FindRegister, LinkRegister, ClaimRegister, CreateRegister, SwitchRegister,
     LeaveRegister, MakeOwnerRegister DEF Step
<1>2. ASSUME UNCHANGED <<user, owner, job>> PROVE Register'
  BY <1>2, SameKept, KeptSameLinks, RegisterStays
<1>3. ASSUME NEW w \in Workers, NEW c \in Accounts, NEW call \in {"request", "leave"},
             NEW e \in Emails \cup {Null}, Request(w, c, call, e)
      PROVE  Register'
  <2> DEFINE j == [Idle EXCEPT !.at = "find", !.call = call, !.account = c, !.email = e]
  <2>1. job' = [job EXCEPT ![w] = j] /\ UNCHANGED <<user, owner>> /\ job[w].at # "claim"
    BY <1>3 DEF Request, Free, db
  <2>2. j.at = "find"
    BY DEF Idle
  <2> HIDE DEF j
  <2>3. QED BY <2>1, <2>2, LookRegister
<1>4. ASSUME NEW w \in Workers, NEW a \in Agencies, NEW r \in Rows, BeginDeactivate(w, a, r)
      PROVE  Register'
  <2> DEFINE j == [Idle EXCEPT !.at = "switch_off", !.call = "activate", !.row = r]
  <2>1. job' = [job EXCEPT ![w] = j] /\ UNCHANGED <<user, owner>> /\ job[w].at # "claim"
    BY <1>4 DEF BeginDeactivate, Free, db
  <2>2. j.at = "switch_off"
    BY DEF Idle
  <2> HIDE DEF j
  <2>3. QED BY <2>1, <2>2, LookRegister
<1>5. ASSUME NEW w \in Workers, NEW r \in Rows, NEW tie \in Ties, Tie(w, r, tie) \/ Untie(w, r, tie)
      PROVE  UNCHANGED <<user, owner, job>>
  BY <1>5 DEF Tie, Untie
<1>6. ASSUME NEW c \in Accounts, DeleteAccount(c) \/ \E e \in Emails : SignUp(c, e) \/ UpdateProfile(c, e)
      PROVE  UNCHANGED <<user, owner, job>>
  BY <1>6 DEF SignUp, UpdateProfile, DeleteAccount, db
<1>7. CASE UNCHANGED vars
  BY <1>2, <1>7 DEF vars
<1>8. QED
  BY <1>1, <1>2, <1>3, <1>4, <1>5, <1>6, <1>7, DeliverRegister, BeginInviteRegister, SwitchRegister
     DEF Next, Crash

LEMMA InitRegister == Init => Register
<1> SUFFICES ASSUME Init PROVE Register
  OBVIOUS
<1>1. ClaimedWhenLinked
  BY DEF Init, ClaimedWhenLinked, Known
<1>2. ASSUME NEW w \in Workers PROVE Remembers(job[w], user)
  <2>1. job[w] = Idle
    BY DEF Init
  <2>2. QED BY <2>1, IdleFacts, NotInviting
<1>3. QED BY <1>1, <1>2 DEF Register

(* With invites at the same desk as sign-ins and webhooks, and no link cut *)
(* short, whoever has an account has no invite waiting (OWN:47), in        *)
(* whatever order Clerk's events come and whether tokens carry the email.  *)
THEOREM NoInviteWaits ==
  ASSUME OneRegister, "crash" \notin Faults PROVE Spec => []ClaimedWhenLinked
<1>1. IInv /\ Register /\ [Next]_vars => Register'
  BY NextRegister
<1>2. Register => ClaimedWhenLinked
  BY DEF Register
<1>3. QED BY <1>1, <1>2, InitRegister, Invariance, PTL DEF Spec
=============================================================================
