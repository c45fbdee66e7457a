-------------------------------- MODULE Notices --------------------------------
(***************************************************************************)
(* What the timers tell people.  A tick runs its parts one after another:  *)
(* some move what is due and then tell those concerned, some only nudge    *)
(* them, once a day.  Ticks overlap (the daily job runs one of its own,    *)
(* and every container runs them itself while pg-boss is down) and are cut *)
(* short.  The move is a read, a check and a write; a refused move ends    *)
(* its part of the tick.                                                   *)
(***************************************************************************)
EXTENDS Naturals, Sequences

CONSTANTS Items,        \* deals and leases with a timer on them
          PartOf,       \* the part of the tick that looks after one
          People, RecipientsOf,
          MaxDay,       \* days that pass
          Null,
          Runners, Faults

(* expire: deals that expire; nudge: overdue viewings, documents waiting,  *)
(* grace windows; end: leases that come to their end.                      *)
Parts == <<"expire", "nudge", "end">>
PartNames == {Parts[k] : k \in DOMAIN Parts}

(* crash: the process dies; sms: the provider refuses a message.           *)
FaultKinds == {"crash", "sms"}

ASSUME NoticesAssumption ==
  /\ PartOf \in [Items -> PartNames]
  /\ RecipientsOf \in [Items -> Seq(People) \ {<<>>}]
  /\ MaxDay \in Nat
  /\ Null \notin Items \cup People
  /\ Faults \subseteq FaultKinds

VARIABLES
  day,
  status,   \* not due yet, due, moved by the timer, or out of its reach
  rows,     \* notifications: the dedupe keys there are rows of
  sms,      \* how often the text of a key went out
  run

vars == <<day, status, rows, sms, run>>

Days == 0..MaxDay

(* A nudge is told again every day, a move only once.                      *)
Keys == Items \X People \X Days
KeyDay(x, now) == IF PartOf[x] = "nudge" THEN now ELSE 0

Runner(at, part, now) ==
  [at |-> at, part |-> part, now |-> now, batch |-> {}, item |-> Null, tell |-> <<>>]
Idle == Runner("idle", 0, 0)

Runs == [at : {"idle", "select", "next", "write", "find", "record", "send"},
         part : 0..4, now : Days, batch : SUBSET Items, item : Items \cup {Null},
         tell : Seq(People)]

TypeOK ==
  /\ day \in Days
  /\ status \in [Items -> {"early", "due", "moved", "gone"}]
  /\ rows \in SUBSET Keys
  /\ sms \in [Keys -> Nat]
  /\ run \in [Runners -> Runs]

Init ==
  /\ day = 0
  /\ status = [x \in Items |-> "early"]
  /\ rows = {}
  /\ sms = [k \in Keys |-> 0]
  /\ run = [w \in Runners |-> Idle]

KeyOf(w) == <<run[w].item, Head(run[w].tell), KeyDay(run[w].item, run[w].now)>>

Goto(w, step) == run' = [run EXCEPT ![w].at = step]

(* Mutant: the tick ends with a part.                                      *)
AfterPart_EndsTick(j) ==
  [j EXCEPT !.at = "select", !.part = Len(Parts) + 1, !.batch = {}, !.item = Null, !.tell = <<>>]

AfterPart(j) ==
  [j EXCEPT !.at = "select", !.part = j.part + 1, !.batch = {}, !.item = Null, !.tell = <<>>]

(* The recipient is dealt with, the next one's turn comes.                 *)
AfterTelling(j) ==
  [j EXCEPT !.tell = Tail(j.tell), !.at = IF Len(j.tell) = 1 THEN "next" ELSE "find"]

NextPart(w) == run' = [run EXCEPT ![w] = AfterPart(run[w])]
ToldOne(w) == run' = [run EXCEPT ![w] = AfterTelling(run[w])]

--------------------------------------------------------------------------------
(* Time passes; someone else settles what the timer would have moved.      *)
BecomesDue(x) ==
  /\ status[x] = "early"
  /\ status' = [status EXCEPT ![x] = "due"]
  /\ UNCHANGED <<day, rows, sms, run>>

Settle(x) ==
  /\ status[x] \in {"early", "due"}
  /\ status' = [status EXCEPT ![x] = "gone"]
  /\ UNCHANGED <<day, rows, sms, run>>

DayPasses ==
  /\ day < MaxDay
  /\ day' = day + 1
  /\ UNCHANGED <<status, rows, sms, run>>

BeginTick(w) ==
  /\ run[w].at = "idle"
  /\ run' = [run EXCEPT ![w] = Runner("select", 1, day)]
  /\ UNCHANGED <<day, status, rows, sms>>

(* findMany of one part, or the end of the tick.                           *)
Select(w) ==
  LET part == run[w].part IN
  /\ run[w].at = "select"
  /\ run' = IF part > Len(Parts) THEN [run EXCEPT ![w] = Idle]
            ELSE [run EXCEPT ![w].at = "next", ![w].batch =
                    {x \in Items : PartOf[x] = Parts[part] /\ status[x] = "due"}]
  /\ UNCHANGED <<day, status, rows, sms>>

(* The next of the batch: a nudge is told, a move is read and checked.     *)
NextItem(w) ==
  /\ run[w].at = "next"
  /\ IF run[w].batch = {} THEN NextPart(w)
     ELSE \E x \in run[w].batch :
            IF PartOf[x] # "nudge" /\ status[x] # "due" THEN NextPart(w)
            ELSE run' = [run EXCEPT ![w].batch = @ \ {x}, ![w].item = x,
                           ![w].tell = RecipientsOf[x],
                           ![w].at = IF PartOf[x] = "nudge" THEN "find" ELSE "write"]
  /\ UNCHANGED <<day, status, rows, sms>>

Write(w) ==
  /\ run[w].at = "write"
  /\ status' = [status EXCEPT ![run[w].item] = "moved"]
  /\ Goto(w, "find")
  /\ UNCHANGED <<day, rows, sms>>

(* notify: the key is looked up, the row created, the text sent.           *)
Find(w) ==
  /\ run[w].at = "find"
  /\ IF KeyOf(w) \in rows THEN ToldOne(w) ELSE Goto(w, "record")
  /\ UNCHANGED <<day, status, rows, sms>>

(* Mutant: the lookup alone keeps a notice from going out twice.           *)
Record_NotUnique(w) ==
  /\ run[w].at = "record"
  /\ rows' = rows \cup {KeyOf(w)}
  /\ Goto(w, "send")
  /\ UNCHANGED <<day, status, sms>>

(* The unique key refuses the second row, and nothing is sent.             *)
Record(w) ==
  /\ run[w].at = "record"
  /\ IF KeyOf(w) \in rows THEN ToldOne(w) ELSE Goto(w, "send")
  /\ rows' = rows \cup {KeyOf(w)}
  /\ UNCHANGED <<day, status, sms>>

Send(w) ==
  /\ run[w].at = "send"
  /\ \E sent \in {1} \cup (IF "sms" \in Faults THEN {0} ELSE {}) :
       sms' = [sms EXCEPT ![KeyOf(w)] = @ + sent]
  /\ ToldOne(w)
  /\ UNCHANGED <<day, status, rows>>

Crash(w) ==
  /\ "crash" \in Faults /\ run[w].at # "idle"
  /\ run' = [run EXCEPT ![w] = Idle]
  /\ UNCHANGED <<day, status, rows, sms>>

Step(w) ==
  Select(w) \/ NextItem(w) \/ Write(w) \/ Find(w) \/ Record(w) \/ Send(w)

Next ==
  \/ \E x \in Items : BecomesDue(x) \/ Settle(x)
  \/ DayPasses
  \/ \E w \in Runners : BeginTick(w) \/ Step(w) \/ Crash(w)

Spec == Init /\ [][Next]_vars

(* One instance of the API stays up in the end, after any number of        *)
(* crashes: its cron keeps starting ticks and a started one goes on.  The  *)
(* others may crash for ever, or stop.  (A tick that has done its last     *)
(* part becomes idle as by a crash.)                                       *)
TickFairness ==
  LET cron == CHOOSE w \in Runners : TRUE
  IN  /\ WF_vars(BeginTick(cron) \/ Step(cron))
      /\ <>[][Crash(cron) => run[cron].part > Len(Parts)]_vars

FairSpec == Spec /\ TickFairness

--------------------------------------------------------------------------------
(* Nobody gets the same notice twice (the nudge of a day, the notice of a  *)
(* move).                                                                  *)
AtMostOnce == \A k \in Keys : sms[k] <= 1

(* A text that went out can be seen in the bell.                           *)
SentIsRecorded == \A k \in Keys : sms[k] > 0 => k \in rows

(* However ticks overlap, crash or are retried, a notice goes out once at  *)
(* most, and never without its row in the bell.                            *)
ToldOnce == AtMostOnce /\ SentIsRecorded

(* What is due is moved in the end, or somebody settles it.                *)
DueIsMoved ==
  \A x \in Items :
    PartOf[x] # "nudge" /\ status[x] = "due" ~> status[x] \in {"moved", "gone"}

--------------------------------------------------------------------------------
(* WHAT THE TEXTS PROMISE AND THE CODE DOES NOT ALWAYS KEEP.  No run       *)
(* checks these; README.md tells the steps that break each of them.        *)

(* Whoever is concerned by a move has been told, or a tick is about to.    *)
NobodyForgotten ==
  \A x \in Items : status[x] = "moved" =>
    \A i \in 1..Len(RecipientsOf[x]) :
      \/ <<x, RecipientsOf[x][i], 0>> \in rows
      \/ \E w \in Runners :
           /\ run[w].item = x
           /\ \E j \in 1..Len(run[w].tell) : run[w].tell[j] = RecipientsOf[x][i]
================================================================================
