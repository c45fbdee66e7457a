------------------------------- MODULE Accounts -------------------------------
(***************************************************************************)
(* One users row per person: Clerk's accounts mirrored by the webhook and  *)
(* by the guard of any signed-in request, linked to rows an agency made in *)
(* advance by email, owner invites claimed on linking; leaving the         *)
(* platform, owners switched off and on, and coming back.  A handler is    *)
(* split where it awaits the database.                                     *)
(***************************************************************************)
EXTENDS Naturals, FiniteSets

CONSTANTS Accounts,      \* Clerk accounts
          Emails,
          Rows,          \* users.id
          Agencies, Null,
          Workers, Duties,
          Faults

Calls == {"request", "leave", "webhook", "invite", "activate", "deal"}

(* crash: a handler cut short, or its answer lost; no_email: tokens        *)
(* without the email claim.                                                *)
FaultKinds == {"crash", "no_email"}

(* A row of users. *)
Users == [clerk : Accounts \cup {Null}, email : Emails \cup {Null},
          active : BOOLEAN,
          left : BOOLEAN]   \* deactivated_at is set

ASSUME AccountsAssumption ==
  /\ "deleted" \notin Emails
  /\ Null \notin Accounts \cup Emails \cup Rows \cup Agencies \cup Users
  /\ Duties \in [Workers -> SUBSET Calls]
  /\ Faults \subseteq FaultKinds

VARIABLES
  clerk,    \* what Clerk knows of an account
  address,  \* its primary email
  events,   \* webhook events Clerk has not had an answer 200 to
  user,     \* users
  owner,    \* owners.invite_status by row and agency
  ties,     \* what binds a person to a home
  job

vars == <<clerk, address, events, user, owner, ties, job>>
db == <<user, owner, ties>>
outside == <<clerk, address, events>>

(* user.created and user.updated are handled alike; each carries the email *)
(* of its moment.                                                          *)
Events == Emails \cup {"deleted"}
Steps == {"find", "find_email", "link", "claim", "create", "revive", "refresh",
          "count", "list", "withdraw", "switch_off", "make_owner"}
Jobs == [at : Steps \cup {"idle"}, call : Calls \cup {"none"},
         account : Accounts \cup {Null}, email : Emails \cup {Null},
         agency : Agencies \cup {Null}, row : Rows \cup {Null},
         flag : BOOLEAN]    \* the row was read as active, or as linked

(* A person's open requests, leases as tenant, and leases of homes owned   *)
(* with an agency.                                                         *)
Ties == {"deal", "tenancy"} \cup Agencies

Idle == [at |-> "idle", call |-> "none", account |-> Null, email |-> Null,
         agency |-> Null, row |-> Null, flag |-> FALSE]

TypeOK ==
  /\ clerk \in [Accounts -> {"none", "open", "deleted"}]
  /\ address \in [Accounts -> Emails \cup {Null}]
  /\ events \in [Accounts -> SUBSET Events]
  /\ user \in [Rows -> Users \cup {Null}]
  /\ owner \in [Rows -> [Agencies -> {"none", "invited", "claimed"}]]
  /\ ties \in [Rows -> SUBSET Ties]
  /\ job \in [Workers -> Jobs]
  /\ \A c \in Accounts : clerk[c] = "open" => address[c] \in Emails
  /\ \A r \in Rows : user[r] = Null =>    \* the foreign keys to users.id
       ties[r] = {} /\ \A a \in Agencies : owner[r][a] = "none"

Init ==
  /\ clerk = [c \in Accounts |-> "none"]
  /\ address = [c \in Accounts |-> Null]
  /\ events = [c \in Accounts |-> {}]
  /\ user = [r \in Rows |-> Null]
  /\ owner = [r \in Rows |-> [a \in Agencies |-> "none"]]
  /\ ties = [r \in Rows |-> {}]
  /\ job = [w \in Workers |-> Idle]

Known == {r \in Rows : user[r] # Null}
Of(c) == {r \in Known : user[r].clerk = c}
WithEmail(e) == {r \in Known : e # Null /\ user[r].email = e}
NewUser(c, e) == [clerk |-> c, email |-> e, active |-> TRUE, left |-> FALSE]

Free(w, call) == job[w].at = "idle" /\ call \in Duties[w]
Goto(w, step) == job' = [job EXCEPT ![w].at = step]
Return(w) == job' = [job EXCEPT ![w] = Idle]

(* The webhook is answered 200, which Clerk may not hear.                  *)
Answer(c, event) ==
  \/ events' = [events EXCEPT ![c] = @ \ {event}]
  \/ "crash" \in Faults /\ UNCHANGED events

(* That, or the guard lets the request through to its handler.             *)
Finish(w) ==
  IF job[w].call = "webhook"
  THEN Answer(job[w].account, job[w].email) /\ Return(w)
  ELSE /\ IF job[w].call = "leave" THEN Goto(w, "count") ELSE Return(w)
       /\ UNCHANGED events

(* A unique constraint refuses the write: 500, and Clerk retries its event.*)
Fail(w) == Return(w) /\ UNCHANGED <<user, owner, ties, outside>>

--------------------------------------------------------------------------------
(* Clerk.  An email belongs to one open account.                           *)
Unused(c, e) == \A d \in Accounts \ {c} : clerk[d] = "open" => address[d] # e

SignUp(c, e) ==
  /\ clerk[c] = "none" /\ Unused(c, e)
  /\ clerk' = [clerk EXCEPT ![c] = "open"]
  /\ address' = [address EXCEPT ![c] = e]
  /\ events' = [events EXCEPT ![c] = {e}]
  /\ UNCHANGED <<db, job>>

(* The name, or the primary email.                                         *)
UpdateProfile(c, e) ==
  /\ clerk[c] = "open" /\ Unused(c, e)
  /\ address' = [address EXCEPT ![c] = e]
  /\ events' = [events EXCEPT ![c] = @ \cup {e}]
  /\ UNCHANGED <<clerk, db, job>>

DeleteAccount(c) ==
  /\ clerk[c] = "open"
  /\ clerk' = [clerk EXCEPT ![c] = "deleted"]
  /\ events' = [events EXCEPT ![c] = @ \cup {"deleted"}]
  /\ UNCHANGED <<address, db, job>>

(* processEvent.  Clerk promises no order of its events.                   *)
Deliver(w, c, event) ==
  /\ Free(w, "webhook") /\ event \in events[c]
  /\ IF event = "deleted"
     THEN /\ user' = [r \in Rows |-> IF r \in Of(c) THEN [user[r] EXCEPT !.active = FALSE]
                                     ELSE user[r]]
          /\ Answer(c, event)
          /\ UNCHANGED job
     ELSE /\ job' = [job EXCEPT ![w] = [Idle EXCEPT !.at = "find", !.call = "webhook",
                       !.account = c, !.email = event]]
          /\ UNCHANGED <<user, events>>
  /\ UNCHANGED <<clerk, address, owner, ties>>

(* canActivate of any request, and of the one that asks to leave.          *)
Request(w, c, call, email) ==
  /\ Free(w, call) /\ call \in {"request", "leave"} /\ clerk[c] = "open"
  /\ email \in {address[c]} \cup (IF "no_email" \in Faults THEN {Null} ELSE {})
  /\ job' = [job EXCEPT ![w] = [Idle EXCEPT !.at = "find", !.call = call,
               !.account = c, !.email = email]]
  /\ UNCHANGED <<db, outside>>

--------------------------------------------------------------------------------
(* What the guard and upsertUser do alike, and where they differ.  A       *)
(* signed-in user goes straight to the handler, one switched off is        *)
(* switched on first.                                                      *)
Find(w) ==
  LET j == job[w] IN
  /\ j.at = "find"
  /\ job' = [job EXCEPT ![w] =
       IF Of(j.account) = {}
       THEN [j EXCEPT !.at = IF j.email = Null THEN "create" ELSE "find_email"]
       ELSE LET r == CHOOSE r \in Of(j.account) : TRUE IN
            CASE j.call = "webhook" -> [j EXCEPT !.row = r, !.at = "refresh"]
              [] j.call # "webhook" /\ ~user[r].active -> [j EXCEPT !.row = r, !.at = "revive"]
              [] j.call = "leave" /\ user[r].active -> [j EXCEPT !.row = r, !.at = "count"]
              [] j.call = "request" /\ user[r].active -> Idle]
  /\ UNCHANGED <<db, outside>>

(* Mutant: the row with the email is taken over whoever it belongs to.     *)
FindEmail_Anyones(w) ==
  /\ job[w].at = "find_email"
  /\ IF WithEmail(job[w].email) = {} THEN Goto(w, "create")
     ELSE \E r \in WithEmail(job[w].email) :
            job' = [job EXCEPT ![w].row = r, ![w].at = "link"]
  /\ UNCHANGED <<db, outside>>

(* Mutant: no row is ever linked, each account makes its own.              *)
FindEmail_NeverLink(w) ==
  /\ job[w].at = "find_email"
  /\ \E r \in IF WithEmail(job[w].email) = {} THEN {Null} ELSE WithEmail(job[w].email) :
       job' = [job EXCEPT ![w].row = r, ![w].at = "create"]
  /\ UNCHANGED <<db, outside>>

FindEmail(w) ==
  /\ job[w].at = "find_email"
  /\ IF WithEmail(job[w].email) = {} THEN Goto(w, "create")
     ELSE \E r \in WithEmail(job[w].email) :
            job' = [job EXCEPT ![w].row = r,
                      ![w].at = IF user[r].clerk = Null THEN "link" ELSE "create"]
  /\ UNCHANGED <<db, outside>>

(* The webhook switches the row on as it links, the guard afterwards.      *)
Link(w) ==
  LET j == job[w] IN
  /\ j.at = "link"
  /\ IF Of(j.account) \ {j.row} # {} THEN Fail(w)
     ELSE /\ user' = [user EXCEPT ![j.row].clerk = j.account,
                                  ![j.row].active = (@ \/ j.call = "webhook")]
          /\ job' = [job EXCEPT ![w].at = "claim", ![w].flag = user[j.row].active]
          /\ UNCHANGED <<owner, ties, outside>>

Claim(w) ==
  /\ job[w].at = "claim"
  /\ owner' = [owner EXCEPT ![job[w].row] = [a \in Agencies |->
                 IF @[a] = "invited" THEN "claimed" ELSE @[a]]]
  /\ IF job[w].flag \/ job[w].call = "webhook" THEN Finish(w)
     ELSE Goto(w, "revive") /\ UNCHANGED events
  /\ UNCHANGED <<clerk, address, user, ties>>

(* A row was found with the email, somebody else's: the new one has none.  *)
NewEmail(w) == IF job[w].row = Null THEN job[w].email ELSE Null

Create(w) ==
  LET j == job[w] IN
  /\ j.at = "create"
  /\ IF Of(j.account) \cup WithEmail(NewEmail(w)) # {}
     THEN Fail(w)
     ELSE \E r \in Rows \ Known :
            /\ user' = [user EXCEPT ![r] = NewUser(j.account, NewEmail(w))]
            /\ IF j.call = "webhook"
               THEN Answer(j.account, j.email) /\ Return(w)
               ELSE /\ job' = [job EXCEPT ![w] = IF j.call = "leave"
                                 THEN [@ EXCEPT !.row = r, !.at = "count"] ELSE Idle]
                    /\ UNCHANGED events
            /\ UNCHANGED <<clerk, address, owner, ties>>

(* Signing in again: the guard saw the row switched off.                   *)
Revive(w) ==
  /\ job[w].at = "revive"
  /\ user' = [user EXCEPT ![job[w].row].active = TRUE, ![job[w].row].left = FALSE]
  /\ Finish(w)
  /\ UNCHANGED <<clerk, address, owner, ties>>

(* The webhook found the row: name, email and active in one update, which  *)
(* another row's claim to the email makes void.                            *)
Refresh(w) ==
  LET j == job[w] IN
  /\ j.at = "refresh"
  /\ user' = IF WithEmail(j.email) \ {j.row} # {} THEN user
             ELSE [user EXCEPT ![j.row].active = TRUE, ![j.row].email = j.email]
  /\ Finish(w)
  /\ UNCHANGED <<clerk, address, owner, ties>>

--------------------------------------------------------------------------------
(* OwnersService.create: the person is read, if the agency knows an email, *)
(* then written with the owner.                                            *)
BeginInvite(w, a, e) ==
  /\ Free(w, "invite")
  /\ \E r \in IF WithEmail(e) = {} THEN {Null} ELSE WithEmail(e) :
       job' = [job EXCEPT ![w] = [Idle EXCEPT !.at = "make_owner", !.call = "invite",
                 !.email = e, !.agency = a, !.row = r,
                 !.flag = IF r = Null THEN FALSE ELSE user[r].clerk # Null]]
  /\ UNCHANGED <<db, outside>>

MakeOwner(w) ==
  LET j == job[w] IN
  /\ j.at = "make_owner"
  /\ IF IF j.row = Null THEN WithEmail(j.email) # {} ELSE owner[j.row][j.agency] # "none"
     THEN Fail(w)
     ELSE \E r \in IF j.row = Null THEN Rows \ Known ELSE {j.row} :
            /\ user' = IF j.row = Null THEN [user EXCEPT ![r] = NewUser(Null, j.email)]
                       ELSE user
            /\ owner' = [owner EXCEPT ![r][j.agency] = IF j.flag THEN "claimed" ELSE "invited"]
            /\ Return(w)
            /\ UNCHANGED <<ties, outside>>

(* setActive                                                               *)
Activate(w, a, r) ==
  /\ Free(w, "activate") /\ r \in Known /\ owner[r][a] # "none"
  /\ user' = [user EXCEPT ![r].active = TRUE, ![r].left = FALSE]
  /\ UNCHANGED <<owner, ties, job, outside>>

BeginDeactivate(w, a, r) ==
  /\ Free(w, "activate") /\ r \in Known /\ owner[r][a] # "none"
  /\ a \notin ties[r]
  /\ job' = [job EXCEPT ![w] = [Idle EXCEPT !.at = "switch_off", !.call = "activate", !.row = r]]
  /\ UNCHANGED <<db, outside>>

--------------------------------------------------------------------------------
(* AccountService.leave, once the guard is through.                        *)
Count(w) ==
  /\ job[w].at = "count"
  /\ IF ties[job[w].row] \subseteq {"deal"} THEN Goto(w, "list") ELSE Return(w)
  /\ UNCHANGED <<db, outside>>

(* Mutant: open requests stay open.                                        *)
ListOpen_None(w) ==
  /\ job[w].at = "list"
  /\ Goto(w, "switch_off")
  /\ UNCHANGED <<db, outside>>

ListOpen(w) ==
  /\ job[w].at = "list"
  /\ Goto(w, IF "deal" \in ties[job[w].row] THEN "withdraw" ELSE "switch_off")
  /\ UNCHANGED <<db, outside>>

(* A deal that is no longer open refuses, and the call ends there.         *)
Withdraw(w) ==
  LET r == job[w].row IN
  /\ job[w].at = "withdraw"
  /\ IF "deal" \in ties[r]
     THEN ties' = [ties EXCEPT ![r] = @ \ {"deal"}] /\ Goto(w, "switch_off")
     ELSE Return(w) /\ UNCHANGED ties
  /\ UNCHANGED <<user, owner, outside>>

SwitchOff(w) ==
  LET r == job[w].row IN
  /\ job[w].at = "switch_off"
  /\ user' = [user EXCEPT ![r].active = FALSE, ![r].left = TRUE]
  /\ Return(w)
  /\ UNCHANGED <<owner, ties, outside>>

(* The deals of the person: asked for by someone signed in, closed and     *)
(* ended by the agency, whose listing may also be the person's own.        *)
Tie(w, r, tie) ==
  /\ Free(w, "deal") /\ r \in Known /\ tie \notin ties[r]
  /\ \/ /\ tie = "deal" /\ user[r].clerk # Null /\ user[r].active
        /\ ties' = [ties EXCEPT ![r] = @ \cup {"deal"}]
     \/ /\ tie = "tenancy" /\ "deal" \in ties[r]
        /\ ties' = [ties EXCEPT ![r] = (@ \ {"deal"}) \cup {"tenancy"}]
     \/ /\ tie \in Agencies /\ owner[r][tie] # "none"
        /\ ties' = [ties EXCEPT ![r] = @ \cup {tie}]
  /\ UNCHANGED <<user, owner, job, outside>>

Untie(w, r, tie) ==
  /\ Free(w, "deal") /\ tie \in ties[r]
  /\ ties' = [ties EXCEPT ![r] = @ \ {tie}]
  /\ UNCHANGED <<user, owner, job, outside>>

Crash(w) ==
  /\ "crash" \in Faults /\ job[w].at # "idle"
  /\ Return(w)
  /\ UNCHANGED <<db, outside>>

Step(w) ==
  \/ Find(w) \/ FindEmail(w) \/ Link(w) \/ Claim(w) \/ Create(w) \/ Revive(w)
  \/ Refresh(w) \/ MakeOwner(w) \/ Count(w) \/ ListOpen(w) \/ Withdraw(w) \/ SwitchOff(w)

Next ==
  \/ \E c \in Accounts :
       DeleteAccount(c) \/ \E e \in Emails : SignUp(c, e) \/ UpdateProfile(c, e)
  \/ \E w \in Workers :
       \/ \E c \in Accounts :
            \/ \E event \in Events : Deliver(w, c, event)
            \/ \E call \in {"request", "leave"}, e \in Emails \cup {Null} :
                 Request(w, c, call, e)
       \/ \E a \in Agencies :
            \/ \E e \in Emails \cup {Null} : BeginInvite(w, a, e)
            \/ \E r \in Rows : Activate(w, a, r) \/ BeginDeactivate(w, a, r)
       \/ \E r \in Rows, tie \in Ties : Tie(w, r, tie) \/ Untie(w, r, tie)
       \/ Step(w)
       \/ Crash(w)

Spec == Init /\ [][Next]_vars

--------------------------------------------------------------------------------
GetsRow(w) == job[w].at \in {"link", "create"} /\ job'[w] # job[w] /\ user' # user

(* No account gets a row, its own or an agency's, while a row that an      *)
(* agency made for the email the call knows is left to wait: one account   *)
(* for every role (clerk-sync.service.ts:71-86, clerk-auth.guard.ts:36).   *)
OneAccount ==
  [][\A w \in Workers : GetsRow(w) =>
       \A r \in Known' : user'[r].clerk = Null /\ user'[r].email # Null
                           => user'[r].email # job[w].email]_vars

(* A row that was linked keeps its person, whoever signs up with the same  *)
(* email later.                                                            *)
LinkIsFinal ==
  [][\A r \in Known : user[r].clerk # Null => user'[r].clerk = user[r].clerk]_vars

SwitchesOff(w) == job[w].at = "switch_off" /\ job'[w] # job[w] /\ user' # user

(* Whoever leaves the platform has no request open and no live lease, as   *)
(* tenant or as owner, when the account is switched off.                   *)
LeaversHaveNoTies ==
  [][\A w \in Workers :
       SwitchesOff(w) /\ job[w].call = "leave" => ties[job[w].row] = {}]_vars

--------------------------------------------------------------------------------
(* WHAT THE TEXTS PROMISE AND THE CODE DOES NOT ALWAYS KEEP.  No run       *)
(* checks these; README.md tells the steps that break each of them.        *)

(* clerk-sync.service.ts:80: one account for every role, never a second:   *)
(* nobody has a row of their own while an agency's waits under their email.*)
NeverASecond ==
  \A r, s \in Known :
    user[r].clerk # Null /\ user[s].clerk = Null => user[s].email # address[user[r].clerk]

(* owners.service.ts:28: an invited owner without an email is linked to    *)
(* Clerk later; only an email links a row, and nothing gives one to a row  *)
(* that has no account.                                                    *)
InvitesCanBeClaimed ==
  \A r \in Known : user[r].clerk = Null => user[r].email # Null

(* Once a row is linked no invite of it is pending, except while the link  *)
(* is being completed.                                                     *)
ClaimedWhenLinked ==
  \A r \in Known, a \in Agencies :
    user[r].clerk # Null /\ owner[r][a] = "invited"
      => \E w \in Workers : job[w].at = "claim" /\ job[w].row = r

(* owners.service.ts:102: the same guard as leave-platform.                *)
SameGuardAsLeave ==
  [][\A w \in Workers :
       SwitchesOff(w) => ties[job[w].row] \subseteq {"deal"}]_vars

(* The mark that schedules personal data for deletion is gone from an      *)
(* account that is active again.                                           *)
ActiveNotScheduled == \A r \in Known : user[r].active => ~user[r].left

(* An account deleted in Clerk stays switched off here.                    *)
DeletedIsInactive ==
  \A r \in Known :
    user[r].clerk # Null /\ clerk[user[r].clerk] = "deleted" /\ events[user[r].clerk] = {}
      => ~user[r].active
================================================================================
