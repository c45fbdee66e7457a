---------------------------------- MODULE Bell ----------------------------------
(***************************************************************************)
(* The bell of one signed-in user: his notifications, the poll that brings *)
(* them to the open page, and the call that marks them read when he opens  *)
(* the panel.  The badge is cleared before the server answers and put back *)
(* if the call fails.  Requests and answers may be lost; the two reads of  *)
(* an answer and the calls overlap with new notifications.                 *)
(***************************************************************************)
EXTENDS Naturals, FiniteSets, FiniteSetsExt

CONSTANTS BELL_PAGE_SIZE,
          Clicks,        \* calls of one page that can be under way at once
          MaxRows        \* the bound on notifications

ASSUME BellAssumption == BELL_PAGE_SIZE \in Nat \ {0} /\ MaxRows \in Nat

VARIABLES
  box,      \* the user's notifications, 1 .. box in order of creation
  unread,   \* those without read_at
  bell,     \* the page: badge, items, whether the panel is open
  poll,     \* the request for the list, if one is under way
  mark,     \* the calls to mark all read
  known,    \* history: how many rows there were when the last answer that
            \* arrived was counted
  drawn     \* history: the rows the panel has shown

bellVars == <<box, unread, bell, poll, mark, known, drawn>>

Silent == [at |-> "idle", counted |-> FALSE, listed |-> FALSE,
           badge |-> 0, items |-> {}, rows |-> 0]
Asked == [Silent EXCEPT !.at = "asked"]
AtRest == [at |-> "idle", badge |-> 0, items |-> {}]

BellInit ==
  /\ box = 0 /\ unread = {} /\ known = 0 /\ drawn = {}
  /\ bell = [badge |-> 0, items |-> {}, open |-> FALSE]
  /\ poll = Silent
  /\ mark = [k \in Clicks |-> AtRest]

LatestRows == (1 + box - Min({box, BELL_PAGE_SIZE})) .. box

--------------------------------------------------------------------------------
(* THE SERVER                                                              *)

(* recordInApp: an event of a deal, a lease or an intake.                  *)
RecordInApp ==
  /\ box < MaxRows
  /\ box' = box + 1 /\ unread' = unread \cup {box + 1}
  /\ UNCHANGED <<bell, poll, mark, known, drawn>>

(* listForUser: two reads side by side.                                    *)
ReadCount ==
  /\ poll.at = "asked" /\ ~poll.counted
  /\ poll' = [poll EXCEPT !.counted = TRUE, !.badge = Cardinality(unread), !.rows = box]
  /\ UNCHANGED <<box, unread, bell, mark, known, drawn>>

ReadItems ==
  /\ poll.at = "asked" /\ ~poll.listed
  /\ poll' = [poll EXCEPT !.listed = TRUE, !.items = LatestRows]
  /\ UNCHANGED <<box, unread, bell, mark, known, drawn>>

(* markAllRead: one write.                                                 *)
MarkAllRead(k) ==
  /\ mark[k].at = "asked"
  /\ unread' = {}
  /\ mark' = [mark EXCEPT ![k].at = "done"]
  /\ UNCHANGED <<box, bell, poll, known, drawn>>

--------------------------------------------------------------------------------
(* THE PAGE                                                                *)

Draw(items, open) == drawn' = IF open THEN drawn \cup items ELSE drawn

(* Mutant: the list is fetched once, and again only after a call.          *)
Ask_Once ==
  /\ poll.at = "idle" /\ bell.items = {}
  /\ poll' = Asked
  /\ UNCHANGED <<box, unread, bell, mark, known, drawn>>

(* The interval of a minute is over.                                       *)
Ask ==
  /\ poll.at = "idle"
  /\ poll' = Asked
  /\ UNCHANGED <<box, unread, bell, mark, known, drawn>>

Deliver ==
  /\ poll.counted /\ poll.listed
  /\ bell' = [bell EXCEPT !.badge = poll.badge, !.items = poll.items]
  /\ known' = poll.rows
  /\ poll' = Silent
  /\ Draw(poll.items, bell.open)
  /\ UNCHANGED <<box, unread, mark>>

(* Opening the panel with something on the badge: the request under way is *)
(* dropped, the badge cleared, the old answer kept aside.                  *)
Open(k) ==
  /\ ~bell.open
  /\ IF bell.badge = 0
     THEN bell' = [bell EXCEPT !.open = TRUE] /\ UNCHANGED <<poll, mark>>
     ELSE /\ mark[k].at = "idle"
          /\ mark' = [mark EXCEPT ![k] = [at |-> "asked", badge |-> bell.badge,
                                          items |-> bell.items]]
          /\ bell' = [bell EXCEPT !.open = TRUE, !.badge = 0]
          /\ poll' = Silent
  /\ Draw(bell.items, TRUE)
  /\ UNCHANGED <<box, unread, known>>

Shut ==
  /\ bell.open
  /\ bell' = [bell EXCEPT !.open = FALSE]
  /\ UNCHANGED <<box, unread, poll, mark, known, drawn>>

(* Settled, well or not, the list is fetched anew.                         *)
MarkedRead(k) ==
  /\ mark[k].at = "done"
  /\ mark' = [mark EXCEPT ![k] = AtRest]
  /\ poll' = Asked
  /\ UNCHANGED <<box, unread, bell, known, drawn>>

(* Mutant: the badge is not put back.                                      *)
MarkFailed_NoRollback(k) ==
  /\ mark[k].at # "idle"
  /\ mark' = [mark EXCEPT ![k] = AtRest]
  /\ poll' = Asked
  /\ UNCHANGED <<box, unread, bell, known, drawn>>

(* The call or its answer got lost.                                        *)
MarkFailed(k) ==
  /\ mark[k].at # "idle"
  /\ mark' = [mark EXCEPT ![k] = AtRest]
  /\ bell' = [bell EXCEPT !.badge = mark[k].badge, !.items = mark[k].items]
  /\ poll' = Asked
  /\ Draw(mark[k].items, bell.open)
  /\ UNCHANGED <<box, unread, known>>

PollFailed ==
  /\ poll.at = "asked"
  /\ poll' = Silent
  /\ UNCHANGED <<box, unread, bell, mark, known, drawn>>

Online ==
  Ask \/ ReadCount \/ ReadItems \/ Deliver
    \/ \E k \in Clicks : MarkAllRead(k) \/ MarkedRead(k)

Offline == PollFailed \/ \E k \in Clicks : MarkFailed(k)

BellNext ==
  \/ RecordInApp
  \/ Online \/ Offline
  \/ \E k \in Clicks : Open(k)
  \/ Shut

(* The page stays open, its interval keeps running, the server answers,    *)
(* and from some time on the network carries the answers.                  *)
BellFairness ==
  /\ WF_bellVars(Ask) /\ WF_bellVars(ReadCount) /\ WF_bellVars(ReadItems)
  /\ WF_bellVars(Deliver)
  /\ \A k \in Clicks : WF_bellVars(MarkAllRead(k)) /\ WF_bellVars(MarkedRead(k))
  /\ <>[][~Offline]_bellVars

BellSpec == BellInit /\ [][BellNext]_bellVars /\ BellFairness

--------------------------------------------------------------------------------
(* PROPERTIES                                                              *)

(* However polls, calls and their losses cross: once nothing is under way, *)
(* a bell without a badge hides nothing that was there when its list was   *)
(* last counted.                                                           *)
BadgeNeverHides ==
  bell.badge = 0 /\ poll.at = "idle" /\ (\A k \in Clicks : mark[k].at = "idle") =>
    \A n \in unread : n > known

(* The badge comes right again and again, though it is cleared and put     *)
(* back ahead of the server.                                               *)
BadgeComesRight == []<>(bell.badge = Cardinality(unread))

--------------------------------------------------------------------------------
(* WHAT THE TEXTS PROMISE AND THE CODE DOES NOT ALWAYS KEEP.  No run       *)
(* checks these; README.md tells the steps that break each of them.        *)

(* notification-bell.tsx:41: items keep their unread highlight until the   *)
(* server's truth comes back; a row that came after the list was loaded is *)
(* marked read with the others, and never was highlighted.                 *)
ReadWasDrawn == 1 .. box \ unread \subseteq drawn
================================================================================
