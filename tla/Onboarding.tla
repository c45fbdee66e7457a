------------------------------ MODULE Onboarding ------------------------------
(***************************************************************************)
(* Applications to become an agency: submitted by anybody, reviewed once   *)
(* by a platform admin, an approval provisioning the agency with its       *)
(* founding admin.  Agencies may be made by hand too, suspended and        *)
(* restored.  A review is split where it awaits the database; createAgency *)
(* is one transaction.                                                     *)
(***************************************************************************)
EXTENDS Naturals, FiniteSets

CONSTANTS Applications,
          Agencies,      \* agencies.id: the bound on how many are made
          Emails, EmailOf,
          Null,
          Admins,        \* consoles of platform admins at work
          AdminsMayCrash

AgencyRows == [status : {"active", "suspended"}, founder : Emails,
               from : Applications \cup {Null}]

ASSUME OnboardingAssumption ==
  /\ EmailOf \in [Applications -> Emails]
  /\ Null \notin Applications \cup Agencies \cup Emails \cup AgencyRows
  /\ AdminsMayCrash \in BOOLEAN

VARIABLES
  app,      \* agency_applications: status and created_agency_id
  agency,   \* agencies, with the founding member and (history) the
            \* application they were made from
  console

onboardingVars == <<app, agency, console>>

Statuses == {"none", "pending", "approved", "declined"}
AppRows == [status : Statuses, agency : Agencies \cup {Null}]

IdleConsole == [at |-> "idle", app |-> Null, agency |-> Null]

OnboardingTypeOK ==
  /\ app \in [Applications -> AppRows]
  /\ agency \in [Agencies -> AgencyRows \cup {Null}]
  /\ console \in [Admins -> [at : {"idle", "provision", "stamp", "decline"},
                             app : Applications \cup {Null},
                             agency : Agencies \cup {Null}]]

OnboardingInit ==
  /\ app = [a \in Applications |-> [status |-> "none", agency |-> Null]]
  /\ agency = [g \in Agencies |-> Null]
  /\ console = [p \in Admins |-> IdleConsole]

Made == {g \in Agencies : agency[g] # Null}
MadeFrom(a) == {g \in Made : agency[g].from = a}

Goto(p, step) == console' = [console EXCEPT ![p].at = step]
Return(p) == console' = [console EXCEPT ![p] = IdleConsole]

--------------------------------------------------------------------------------
Apply(a) ==
  /\ app[a].status = "none"
  /\ app' = [app EXCEPT ![a].status = "pending"]
  /\ UNCHANGED <<agency, console>>

(* AdminService.createAgency                                               *)
Provision(g, email, from) ==
  /\ agency[g] = Null
  /\ agency' = [agency EXCEPT ![g] =
                  [status |-> "active", founder |-> email, from |-> from]]

BeginApprove(p, a) ==
  /\ console[p].at = "idle" /\ app[a].status = "pending"
  /\ console' = [console EXCEPT ![p] = [IdleConsole EXCEPT !.at = "provision", !.app = a]]
  /\ UNCHANGED <<app, agency>>

ProvisionFor(p) ==
  LET a == console[p].app IN
  /\ console[p].at = "provision"
  /\ \E g \in Agencies :
       /\ Provision(g, EmailOf[a], a)
       /\ console' = [console EXCEPT ![p].at = "stamp", ![p].agency = g]
  /\ UNCHANGED app

(* Mutant: the stamp does not say which agency was made.                   *)
Stamp_NoAgency(p) ==
  /\ console[p].at = "stamp"
  /\ app' = [app EXCEPT ![console[p].app].status = "approved"]
  /\ Return(p)
  /\ UNCHANGED agency

(* By id, whatever the status has become meanwhile.                        *)
Stamp(p) ==
  /\ console[p].at = "stamp"
  /\ app' = [app EXCEPT ![console[p].app] =
               [status |-> "approved", agency |-> console[p].agency]]
  /\ Return(p)
  /\ UNCHANGED agency

BeginDecline(p, a) ==
  /\ console[p].at = "idle" /\ app[a].status = "pending"
  /\ console' = [console EXCEPT ![p] = [IdleConsole EXCEPT !.at = "decline", !.app = a]]
  /\ UNCHANGED <<app, agency>>

Decline(p) ==
  /\ console[p].at = "decline"
  /\ app' = [app EXCEPT ![console[p].app].status = "declined"]
  /\ Return(p)
  /\ UNCHANGED agency

(* By hand, no application behind it.                                      *)
CreateAgency(p, email) ==
  /\ console[p].at = "idle"
  /\ \E g \in Agencies : Provision(g, email, Null)
  /\ UNCHANGED <<app, console>>

(* The one button of an agency's row; no agency is ever pending.           *)
RowOffers(g) == {"active", "suspended"} \ {agency[g].status}

PatchAgency(p, g, status) ==
  /\ console[p].at = "idle" /\ g \in Made /\ status \in RowOffers(g)
  /\ agency' = [agency EXCEPT ![g].status = status]
  /\ UNCHANGED <<app, console>>

CrashConsole(p) ==
  /\ AdminsMayCrash /\ console[p].at # "idle"
  /\ Return(p)
  /\ UNCHANGED <<app, agency>>

Founding ==
  \/ \E a \in Applications : Apply(a)
  \/ \E p \in Admins :
       \/ \E a \in Applications : BeginApprove(p, a) \/ BeginDecline(p, a)
       \/ ProvisionFor(p) \/ Stamp(p) \/ Decline(p)
       \/ \E email \in Emails : CreateAgency(p, email)
       \/ CrashConsole(p)

OnboardingNext ==
  \/ Founding
  \/ \E p \in Admins, g \in Agencies, status \in {"active", "suspended"} :
       PatchAgency(p, g, status)

OnboardingSpec == OnboardingInit /\ [][OnboardingNext]_onboardingVars

--------------------------------------------------------------------------------
(* An application that says approved names an agency that was made from    *)
(* it, with the applicant as its founder.                                  *)
ApprovedHasAgency ==
  \A a \in Applications : app[a].status = "approved" =>
    /\ app[a].agency \in MadeFrom(a)
    /\ agency[app[a].agency].founder = EmailOf[a]

--------------------------------------------------------------------------------
(* WHAT THE TEXTS PROMISE AND THE CODE DOES NOT ALWAYS KEEP.  No run       *)
(* checks these; README.md tells the steps that break each of them.        *)

(* An agency made from an application was either asked for by a review     *)
(* that is still running or the application says approved.                 *)
NoAgencyUnapproved ==
  \A a \in Applications : MadeFrom(a) # {} =>
    \/ app[a].status = "approved"
    \/ \E p \in Admins : console[p].app = a /\ console[p].at = "stamp"

(* An application is reviewed once and makes one agency (SPEC.md:508).     *)
OneAgencyEach == \A a \in Applications : Cardinality(MadeFrom(a)) <= 1

(* A review is final (SPEC.md:508).                                        *)
ReviewedOnce ==
  [][\A a \in Applications : app[a].status \in {"approved", "declined"} => app'[a] = app[a]]_onboardingVars
================================================================================
