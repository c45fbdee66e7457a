----------------------------- MODULE Notices_proofs -----------------------------
(***************************************************************************)
(* For any number of runners, items, recipients and days: a notice goes    *)
(* out at most once, and only with its row in place; if no process dies,   *)
(* everybody is told; and for any number of rows and clicks, the bell of   *)
(* an open page hides nothing it knows of.                                 *)
(***************************************************************************)
EXTENDS Notices, Bell, SequenceTheorems, FiniteSetTheorems, TLAPS

(* A runner past the check has an item in hand and somebody left to tell,  *)
(* and a part of the tick that exists.                                     *)
Telling == {"write", "find", "record", "send"}
InHand ==
  \A w \in Runners :
    /\ run[w].at \in Telling => run[w].item \in Items /\ run[w].tell # <<>>
    /\ run[w].at \in Telling \cup {"next"} => run[w].part \in 1..3
    /\ run[w].at = "select" => run[w].part \in 1..4

(* The row is created by one runner only, who alone may send, and has not  *)
(* yet: why AtMostOnce is not inductive by itself.                         *)
OneSender ==
  \A w \in Runners : run[w].at = "send" =>
    /\ KeyOf(w) \in rows
    /\ sms[KeyOf(w)] = 0
    /\ \A v \in Runners \ {w} : run[v].at = "send" => KeyOf(v) # KeyOf(w)

Counted == \A k \in Keys : sms[k] \in {0, 1} /\ (sms[k] = 1 => k \in rows)

IInv == TypeOK /\ InHand /\ OneSender /\ Counted

(* Three parts.                                                            *)
LEMMA PartsThree == Len(Parts) = 3
BY DEF Parts

(* A key in hand is a key.                                                 *)
LEMMA KeyInHand ==
  ASSUME TypeOK, InHand, NEW w \in Runners, run[w].at \in Telling
  PROVE  KeyOf(w) \in Keys
<1> USE NoticesAssumption
<1>1. run[w].item \in Items /\ run[w].tell \in Seq(People) /\ run[w].tell # <<>>
      /\ run[w].now \in Days
  BY DEF TypeOK, Runs, InHand
<1>2. Head(run[w].tell) \in People
  BY <1>1
<1>3. KeyDay(run[w].item, run[w].now) \in Days
  BY <1>1 DEF KeyDay, Days
<1> QED BY <1>1, <1>2, <1>3 DEF KeyOf, Keys

(* Nothing has been told to begin with.                                    *)
LEMMA InitIInv == Init => IInv
<1> USE NoticesAssumption
<1> SUFFICES ASSUME Init PROVE IInv
  OBVIOUS
<1>1. TypeOK
  BY DEF Init, TypeOK, Idle, Runner, Runs, Days, Keys
<1>2. InHand /\ OneSender
  BY DEF Init, InHand, OneSender, Idle, Runner, Telling
<1>3. Counted
  BY DEF Init, Counted
<1> QED BY <1>1, <1>2, <1>3 DEF IInv

(* A runner that moves on without recording or sending: the others keep    *)
(* their keys, and it is at no sending.                                    *)
LEMMA MovesOn ==
  ASSUME IInv, NEW w \in Runners, NEW r \in Runs,
         run' = [run EXCEPT ![w] = r], r.at # "send",
         r.at \in Telling => r.item \in Items /\ r.tell # <<>>,
         r.at \in Telling \cup {"next"} => r.part \in 1..3,
         r.at = "select" => r.part \in 1..4,
         UNCHANGED <<rows, sms>>
  PROVE  run' \in [Runners -> Runs] /\ InHand' /\ OneSender' /\ Counted'
<1>1. TypeOK /\ InHand /\ OneSender /\ Counted
  BY DEF IInv
<1>2. run \in [Runners -> Runs]
  BY <1>1 DEF TypeOK
<1>3. run' \in [Runners -> Runs]
  BY <1>2
<1>4. InHand'
  BY <1>1, <1>2 DEF InHand
<1>5. \A v \in Runners \ {w} : run'[v] = run[v] /\ KeyOf(v)' = KeyOf(v)
  BY <1>2 DEF KeyOf
<1>6. OneSender'
  BY <1>1, <1>2, <1>5 DEF OneSender
<1>7. Counted'
  BY <1>1 DEF Counted
<1> QED BY <1>3, <1>4, <1>6, <1>7

(* ToldOne leads to the next recipient or the next item.                   *)
LEMMA ToldOneMoves ==
  ASSUME IInv, NEW w \in Runners, run[w].at \in Telling, ToldOne(w)
  PROVE  \E r \in Runs :
           /\ run' = [run EXCEPT ![w] = r] /\ r.at \in {"next", "find"}
           /\ r.at = "find" => r.item \in Items /\ r.tell # <<>>
           /\ r.part \in 1..3
<1>1. run \in [Runners -> Runs] /\ run[w] \in Runs
  BY DEF IInv, TypeOK
<1>2. run[w].item \in Items /\ run[w].tell # <<>> /\ run[w].tell \in Seq(People)
      /\ run[w].part \in 1..3
  BY <1>1 DEF IInv, InHand, Runs, Telling
<1>3. Tail(run[w].tell) \in Seq(People)
      /\ (Len(run[w].tell) # 1 => Tail(run[w].tell) # <<>>)
  <2> DEFINE t == run[w].tell
  <2>1. Tail(t) \in Seq(People) /\ Len(Tail(t)) = Len(t) - 1
    BY <1>2, HeadTailProperties
  <2>2. Len(t) \in Nat /\ (Len(t) # 1 => Len(Tail(t)) # 0)
    BY <1>2, <2>1
  <2>3. Len(<<>>) = 0
    BY EmptySeq
  <2> QED BY <2>1, <2>2, <2>3
<1> DEFINE r == AfterTelling(run[w])
<1>4. r \in Runs /\ r.at \in {"next", "find"} /\ r.item = run[w].item
      /\ r.tell = Tail(run[w].tell) /\ r.part = run[w].part
      /\ (r.at = "find" => Len(run[w].tell) # 1)
  BY <1>1, <1>3 DEF Runs, AfterTelling
<1>5. run' = [run EXCEPT ![w] = r]
  BY DEF ToldOne
<1> QED BY <1>2, <1>3, <1>4, <1>5

(* NextPart goes on to the next part, if only to find there is none.       *)
LEMMA NextPartMoves ==
  ASSUME IInv, NEW w \in Runners, run[w].at = "next", NextPart(w)
  PROVE  \E r \in Runs : run' = [run EXCEPT ![w] = r] /\ r.at = "select" /\ r.part \in 1..4
<1> USE NoticesAssumption
<1>1. run \in [Runners -> Runs] /\ run[w] \in Runs /\ run[w].part \in 1..3
  BY DEF IInv, TypeOK, InHand, Telling
<1> DEFINE r == AfterPart(run[w])
<1>2. <<>> \in Seq(People) /\ run[w].part + 1 \in 1..4 /\ run[w].part + 1 \in 0..4
  BY <1>1
<1>3. r.at = "select" /\ r.part = run[w].part + 1
  BY <1>1 DEF Runs, AfterPart
<1>4. r \in Runs
  BY <1>1, <1>2 DEF Runs, AfterPart
<1>5. run' = [run EXCEPT ![w] = r]
  BY DEF NextPart
<1> QED BY <1>2, <1>3, <1>4, <1>5

(* A step that leaves the notices and the runners alone.                   *)
LEMMA Elsewhere ==
  ASSUME IInv, UNCHANGED <<rows, sms, run>>
  PROVE  InHand' /\ OneSender' /\ Counted'
BY DEF IInv, InHand, OneSender, Counted, KeyOf

(* Every step preserves it.                                                *)
LEMMA NextIInv == IInv /\ [Next]_vars => IInv'
<1> USE NoticesAssumption
<1> SUFFICES ASSUME IInv, [Next]_vars PROVE IInv'
  OBVIOUS
<1>0. TypeOK /\ InHand /\ OneSender /\ Counted /\ run \in [Runners -> Runs]
  BY DEF IInv, TypeOK
<1>moves. ASSUME NEW w \in Runners, NEW r \in Runs, run' = [run EXCEPT ![w] = r],
             r.at # "send",
             r.at \in Telling => r.item \in Items /\ r.tell # <<>>,
             r.at \in Telling \cup {"next"} => r.part \in 1..3,
             r.at = "select" => r.part \in 1..4,
             UNCHANGED <<day, status, rows, sms>>
      PROVE  IInv'
  <2>1. run' \in [Runners -> Runs] /\ InHand' /\ OneSender' /\ Counted'
    BY <1>moves, MovesOn
  <2> QED BY <1>0, <1>moves, <2>1 DEF IInv, TypeOK
<1>told. ASSUME NEW w \in Runners, run[w].at \in Telling, ToldOne(w),
             UNCHANGED <<day, status, rows, sms>>
      PROVE  IInv'
  <2>1. PICK r \in Runs : /\ run' = [run EXCEPT ![w] = r] /\ r.at \in {"next", "find"}
                          /\ r.at = "find" => r.item \in Items /\ r.tell # <<>>
                          /\ r.part \in 1..3
    BY <1>told, ToldOneMoves
  <2> QED BY <1>moves, <1>told, <2>1 DEF Telling
<1>part. ASSUME NEW w \in Runners, run[w].at = "next", NextPart(w),
             UNCHANGED <<day, status, rows, sms>>
      PROVE  IInv'
  <2>1. PICK r \in Runs : run' = [run EXCEPT ![w] = r] /\ r.at = "select" /\ r.part \in 1..4
    BY <1>part, NextPartMoves
  <2> QED BY <1>moves, <1>part, <2>1 DEF Telling
<1>1. ASSUME NEW x \in Items, BecomesDue(x) \/ Settle(x) PROVE IInv'
  <2>1. InHand' /\ OneSender' /\ Counted'
    BY <1>1, Elsewhere DEF BecomesDue, Settle
  <2> QED BY <1>0, <1>1, <2>1 DEF BecomesDue, Settle, IInv, TypeOK
<1>2. CASE DayPasses
  <2>1. InHand' /\ OneSender' /\ Counted'
    BY <1>2, Elsewhere DEF DayPasses
  <2>2. day' \in Days
    BY <1>0, <1>2 DEF DayPasses, TypeOK, Days
  <2> QED BY <1>0, <1>2, <2>1, <2>2 DEF DayPasses, IInv, TypeOK
<1>3. ASSUME NEW w \in Runners, BeginTick(w) PROVE IInv'
  <2> DEFINE r == Runner("select", 1, day)
  <2>1. <<>> \in Seq(People) /\ day \in Days
    BY <1>0 DEF TypeOK
  <2>2. r \in Runs /\ r.at = "select" /\ r.part = 1
    BY <2>1 DEF Runs, Runner
  <2>3. run' = [run EXCEPT ![w] = r] /\ UNCHANGED <<day, status, rows, sms>>
    BY <1>3 DEF BeginTick
  <2>4. r.at \notin Telling \cup {"next", "send"} /\ r.part \in 1..4
    BY <2>2 DEF Telling
  <2> HIDE DEF r
  <2> QED BY <1>moves, <2>2, <2>3, <2>4
<1>4. ASSUME NEW w \in Runners, Select(w) PROVE IInv'
  <2>1. run[w] \in Runs /\ run[w].part \in 1..4
    BY <1>0, <1>4 DEF Select, InHand
  <2>2. CASE run[w].part > Len(Parts)
    <3>1. <<>> \in Seq(People) /\ 0 \in Days
      BY DEF Days
    <3>2. Idle \in Runs /\ Idle.at = "idle"
      BY <3>1 DEF Runs, Idle, Runner
    <3> QED BY <1>4, <1>moves, <2>2, <3>2 DEF Select, Telling
  <2>3. CASE ~(run[w].part > Len(Parts))
    <3> DEFINE batch == {x \in Items : PartOf[x] = Parts[run[w].part] /\ status[x] = "due"}
               r == [run[w] EXCEPT !.at = "next", !.batch = batch]
    <3>1. run[w].part \in 1..3
      BY <2>1, <2>3, PartsThree
    <3>2. r \in Runs /\ r.at = "next" /\ r.part = run[w].part
      BY <2>1 DEF Runs
    <3>3. run' = [run EXCEPT ![w] = r]
      BY <1>0, <1>4, <2>3 DEF Select, Runs
    <3> QED BY <1>4, <1>moves, <3>1, <3>2, <3>3 DEF Select, Telling
  <2> QED BY <2>2, <2>3
<1>5. ASSUME NEW w \in Runners, NextItem(w) PROVE IInv'
  <2>1. run[w] \in Runs /\ run[w].at = "next" /\ run[w].part \in 1..3
    BY <1>0, <1>5 DEF NextItem, InHand
  <2>2. CASE NextPart(w)
    BY <1>5, <1>part, <2>1, <2>2 DEF NextItem
  <2>3. CASE ~NextPart(w)
    <3>1. PICK x \in run[w].batch :
            run' = [run EXCEPT ![w].batch = @ \ {x}, ![w].item = x,
                      ![w].tell = RecipientsOf[x],
                      ![w].at = IF PartOf[x] = "nudge" THEN "find" ELSE "write"]
      BY <1>5, <2>3 DEF NextItem
    <3>2. x \in Items /\ RecipientsOf[x] \in Seq(People) /\ RecipientsOf[x] # <<>>
      BY <2>1, <3>1 DEF Runs
    <3> DEFINE r == [run[w] EXCEPT !.batch = run[w].batch \ {x}, !.item = x,
                       !.tell = RecipientsOf[x],
                       !.at = IF PartOf[x] = "nudge" THEN "find" ELSE "write"]
    <3>3. r \in Runs /\ r.at \in {"find", "write"} /\ r.part = run[w].part
          /\ r.item = x /\ r.tell = RecipientsOf[x]
      BY <2>1, <3>2 DEF Runs
    <3>4. run' = [run EXCEPT ![w] = r]
      BY <1>0, <3>1 DEF Runs
    <3>5. UNCHANGED <<day, status, rows, sms>>
      BY <1>5 DEF NextItem
    <3> HIDE DEF r
    <3> QED BY <1>moves, <2>1, <3>2, <3>3, <3>4, <3>5 DEF Telling
  <2> QED BY <2>2, <2>3
<1>6. ASSUME NEW w \in Runners, Write(w) PROVE IInv'
  <2>1. run[w] \in Runs /\ run[w].item \in Items /\ run[w].tell # <<>> /\ run[w].part \in 1..3
    BY <1>0, <1>6 DEF Write, InHand, Telling
  <2> DEFINE r == [run[w] EXCEPT !.at = "find"]
  <2>2. r \in Runs /\ r.at = "find" /\ r.item = run[w].item /\ r.tell = run[w].tell
        /\ r.part = run[w].part
    BY <2>1 DEF Runs
  <2>3. run' = [run EXCEPT ![w] = r]
    BY <1>0, <1>6 DEF Write, Goto, Runs
  <2>4. run' \in [Runners -> Runs] /\ InHand' /\ OneSender' /\ Counted'
    BY <1>6, <2>1, <2>2, <2>3, MovesOn DEF Write, Telling
  <2>5. status' \in [Items -> {"early", "due", "moved", "gone"}]
    BY <1>0, <1>6 DEF Write, TypeOK
  <2> QED BY <1>0, <1>6, <2>4, <2>5 DEF Write, IInv, TypeOK
<1>7. ASSUME NEW w \in Runners, Find(w) PROVE IInv'
  <2>1. CASE ToldOne(w)
    BY <1>7, <1>told, <2>1 DEF Find, Telling
  <2>2. CASE Goto(w, "record")
    <3>1. run[w] \in Runs /\ run[w].item \in Items /\ run[w].tell # <<>> /\ run[w].part \in 1..3
      BY <1>0, <1>7 DEF Find, InHand, Telling
    <3> DEFINE r == [run[w] EXCEPT !.at = "record"]
    <3>2. r \in Runs /\ r.at = "record" /\ r.item = run[w].item /\ r.tell = run[w].tell
          /\ r.part = run[w].part
      BY <3>1 DEF Runs
    <3>3. run' = [run EXCEPT ![w] = r]
      BY <1>0, <2>2 DEF Goto, Runs
    <3> QED BY <1>7, <1>moves, <3>1, <3>2, <3>3 DEF Find, Telling
  <2> QED BY <1>7, <2>1, <2>2 DEF Find
<1>8. ASSUME NEW w \in Runners, Record(w) PROVE IInv'
  <2>1. run[w] \in Runs /\ run[w].at = "record" /\ KeyOf(w) \in Keys
    BY <1>0, <1>8, KeyInHand DEF Record, Telling
  <2>2. CASE KeyOf(w) \in rows
    <3>1. ToldOne(w) /\ UNCHANGED <<day, status, rows, sms>>
      BY <1>8, <2>2 DEF Record
    <3> QED BY <1>told, <2>1, <3>1 DEF Telling
  <2>3. CASE KeyOf(w) \notin rows
    <3>1. Goto(w, "send") /\ rows' = rows \cup {KeyOf(w)} /\ UNCHANGED <<day, status, sms>>
      BY <1>8, <2>3 DEF Record
    <3>2. run'[w] = [run[w] EXCEPT !.at = "send"] /\ \A v \in Runners \ {w} : run'[v] = run[v]
      BY <1>0, <3>1 DEF Goto
    <3>3. \A v \in Runners : KeyOf(v)' = KeyOf(v)
      BY <1>0, <2>1, <3>2, ZenonT(60) DEF KeyOf, Runs
    <3>4. run' \in [Runners -> Runs]
      BY <1>0, <2>1, <3>1 DEF Goto, Runs
    <3>5. TypeOK'
      BY <1>0, <2>1, <3>1, <3>4 DEF TypeOK
    <3>6. InHand'
      <4>1. run'[w].at = "send" /\ run'[w].item = run[w].item /\ run'[w].tell = run[w].tell
            /\ run'[w].part = run[w].part
        BY <2>1, <3>2 DEF Runs
      <4>2. run[w].item \in Items /\ run[w].tell # <<>> /\ run[w].part \in 1..3
        BY <1>0, <2>1 DEF InHand, Telling
      <4> QED BY <1>0, <3>2, <4>1, <4>2 DEF InHand, Telling
    <3>7. sms[KeyOf(w)] = 0
      BY <1>0, <2>1, <2>3 DEF Counted
    <3>8. \A v \in Runners \ {w} : run[v].at = "send" => KeyOf(v) # KeyOf(w)
      BY <1>0, <2>3 DEF OneSender
    <3>9. OneSender'
      BY <1>0, <3>1, <3>2, <3>3, <3>7, <3>8 DEF OneSender
    <3>10. Counted'
      BY <1>0, <3>1 DEF Counted
    <3> QED BY <3>5, <3>6, <3>9, <3>10 DEF IInv
  <2> QED BY <2>2, <2>3
<1>9. ASSUME NEW w \in Runners, Send(w) PROVE IInv'
  <2>1. run[w] \in Runs /\ run[w].at = "send" /\ KeyOf(w) \in Keys
        /\ KeyOf(w) \in rows /\ sms[KeyOf(w)] = 0
    BY <1>0, <1>9, KeyInHand DEF Send, Telling, OneSender
  <2>2. PICK sent \in {0, 1} : sms' = [sms EXCEPT ![KeyOf(w)] = @ + sent]
    BY <1>9 DEF Send
  <2>3. ToldOne(w) /\ UNCHANGED <<day, status, rows>>
    BY <1>9 DEF Send
  <2>4. PICK r \in Runs : /\ run' = [run EXCEPT ![w] = r] /\ r.at \in {"next", "find"}
                          /\ r.at = "find" => r.item \in Items /\ r.tell # <<>>
                          /\ r.part \in 1..3
    BY <2>1, <2>3, ToldOneMoves DEF Telling
  <2>5. sms' \in [Keys -> Nat] /\ sms'[KeyOf(w)] \in {0, 1}
        /\ \A k \in Keys : k # KeyOf(w) => sms'[k] = sms[k]
    BY <1>0, <2>1, <2>2 DEF TypeOK
  <2>6. TypeOK'
    BY <1>0, <2>3, <2>4, <2>5 DEF TypeOK
  <2>7. InHand'
    BY <1>0, <2>4 DEF InHand, Telling
  <2>8. \A v \in Runners \ {w} : run'[v] = run[v] /\ KeyOf(v)' = KeyOf(v)
    BY <1>0, <2>4 DEF KeyOf
  <2>9. \A v \in Runners \ {w} : run[v].at = "send" => KeyOf(v) \in Keys /\ KeyOf(v) # KeyOf(w)
    BY <1>0, <2>1, KeyInHand DEF OneSender, Telling
  <2>10. OneSender'
    BY <1>0, <2>3, <2>4, <2>5, <2>8, <2>9 DEF OneSender
  <2>11. Counted'
    BY <1>0, <2>1, <2>3, <2>5 DEF Counted
  <2> QED BY <2>6, <2>7, <2>10, <2>11 DEF IInv
<1>10. ASSUME NEW w \in Runners, Crash(w) PROVE IInv'
  <2>1. <<>> \in Seq(People) /\ 0 \in Days
    BY DEF Days
  <2>2. Idle \in Runs /\ Idle.at = "idle"
    BY <2>1 DEF Runs, Idle, Runner
  <2> QED BY <1>10, <1>moves, <2>2 DEF Crash, Telling
<1>11. CASE UNCHANGED vars
  <2>1. InHand' /\ OneSender' /\ Counted'
    BY <1>11, Elsewhere DEF vars
  <2> QED BY <1>0, <1>11, <2>1 DEF vars, IInv, TypeOK
<1> QED
  BY <1>1, <1>2, <1>3, <1>4, <1>5, <1>6, <1>7, <1>8, <1>9, <1>10, <1>11 DEF Next, Step

LEMMA Invariance == Spec => []IInv
<1>1. Init => IInv
  BY InitIInv
<1>2. IInv /\ [Next]_vars => IInv'
  BY NextIInv
<1> QED BY <1>1, <1>2, PTL DEF Spec

(* The tables and the runners stay of their type.                          *)
THEOREM TypeCorrect == Spec => []TypeOK
<1>1. IInv => TypeOK
  BY DEF IInv
<1> QED BY <1>1, Invariance, PTL

(* However many ticks overlap, are cut short or are retried, a notice goes *)
(* out at most once (the dedupe key of notify, notifications.service:30),  *)
(* and a text that went out has its row in the bell.                       *)
THEOREM NoticeToldOnce == Spec => []ToldOnce
<1>1. IInv => AtMostOnce
  BY DEF IInv, Counted, AtMostOnce
<1>2. IInv => SentIsRecorded
  BY DEF IInv, Counted, SentIsRecorded
<1>3. IInv => ToldOnce
  BY <1>1, <1>2 DEF ToldOnce
<1> QED BY <1>3, Invariance, PTL

--------------------------------------------------------------------------------
(* WHO IS TOLD.  A notice is lost only where a process dies between a move *)
(* and its notices (jobs.service.ts:73): otherwise everybody concerned     *)
(* has the row of it or is on the list of a tick that is telling.          *)

Awaits(j, x, p) == j.item = x /\ \E k \in 1..Len(j.tell) : j.tell[k] = p

(* The list of a tick is that of the move it is about to write, and empty  *)
(* where nobody is being told; the nudges move nothing.                    *)
Listed(j) ==
  /\ j.at \notin Telling => j.tell = <<>>
  /\ j.at = "write" => PartOf[j.item] # "nudge" /\ j.tell = RecipientsOf[j.item]

TellInv ==
  /\ \A w \in Runners : Listed(run[w])
  /\ \A x \in Items : status[x] = "moved" =>
        /\ PartOf[x] # "nudge"
        /\ \A i \in 1..Len(RecipientsOf[x]) :
              \/ <<x, RecipientsOf[x][i], 0>> \in rows
              \/ \E w \in Runners : Awaits(run[w], x, RecipientsOf[x][i])

(* One runner goes on: whom it drops from its list has the row.            *)
LEMMA GoesOnTelling ==
  ASSUME TypeOK, TellInv, NEW w \in Runners, NEW r, run' = [run EXCEPT ![w] = r], Listed(r),
         rows \subseteq rows', \A x \in Items : status'[x] = "moved" => status[x] = "moved",
         \A x \in Items, p \in People :
            status[x] = "moved" /\ Awaits(run[w], x, p) => Awaits(r, x, p) \/ <<x, p, 0>> \in rows'
  PROVE  TellInv'
<1> USE NoticesAssumption
<1>1. run'[w] = r /\ \A v \in Runners \ {w} : run'[v] = run[v]
  BY DEF TypeOK
<1>2. \A v \in Runners : Listed(run'[v])
  BY <1>1 DEF TellInv
<1>3. ASSUME NEW x \in Items, status'[x] = "moved" PROVE status[x] = "moved" /\ PartOf[x] # "nudge"
  BY <1>3 DEF TellInv
<1>4. ASSUME NEW x \in Items, status[x] = "moved", NEW i \in 1..Len(RecipientsOf[x])
      PROVE  \/ <<x, RecipientsOf[x][i], 0>> \in rows'
             \/ \E v \in Runners : Awaits(run'[v], x, RecipientsOf[x][i])
  <2>1. RecipientsOf[x][i] \in People
    BY <1>4
  <2>2. CASE <<x, RecipientsOf[x][i], 0>> \in rows
    BY <2>2
  <2>3. ASSUME NEW v \in Runners, Awaits(run[v], x, RecipientsOf[x][i])
        PROVE  \/ <<x, RecipientsOf[x][i], 0>> \in rows'
               \/ \E u \in Runners : Awaits(run'[u], x, RecipientsOf[x][i])
    BY <1>1, <1>4, <2>1, <2>3
  <2>4. QED BY <1>4, <2>2, <2>3 DEF TellInv
<1>5. QED BY <1>2, <1>3, <1>4 DEF TellInv

(* The first of the list is dealt with.                                    *)
LEMMA TellsOne ==
  ASSUME IInv, TellInv, NEW w \in Runners, run[w].at \in {"find", "record", "send"},
         ToldOne(w), rows' = rows, status' = status, KeyOf(w) \in rows
  PROVE  TellInv'
<1> USE NoticesAssumption
<1> DEFINE t == run[w].tell
           r == AfterTelling(run[w])
<1>1. run[w] \in Runs /\ t \in Seq(People) /\ t # <<>> /\ run[w].item \in Items
  BY DEF IInv, TypeOK, InHand, Telling, Runs
<1>2. Tail(t) \in Seq(People) /\ Len(Tail(t)) = Len(t) - 1 /\ Len(t) \in Nat \ {0}
      /\ \A k \in 1..Len(t) - 1 : Tail(t)[k] = t[k + 1]
  BY <1>1, HeadTailProperties
<1>3. /\ r.tell = Tail(t) /\ r.item = run[w].item
      /\ r.at = IF Len(t) = 1 THEN "next" ELSE "find"
  BY <1>1 DEF AfterTelling, Runs
<1>4. run' = [run EXCEPT ![w] = r]
  BY DEF ToldOne
<1>5. Len(t) = 1 => Tail(t) = <<>>
  <2>1. SUFFICES ASSUME Len(t) = 1, Tail(t) # <<>> PROVE FALSE
    OBVIOUS
  <2>2. Len(Tail(t)) = 0
    BY <1>2, <2>1
  <2> HIDE DEF t
  <2>3. \A seq \in Seq(People) : seq # <<>> => Len(seq) \in Nat \ {0}
    BY EmptySeq
  <2>4. QED BY <1>2, <2>1, <2>2, <2>3
<1>6. Listed(r)
  BY <1>3, <1>5 DEF Listed, Telling
<1>7. ASSUME NEW x \in Items, NEW p \in People, status[x] = "moved", Awaits(run[w], x, p)
      PROVE  Awaits(r, x, p) \/ <<x, p, 0>> \in rows'
  <2>1. PICK k \in 1..Len(t) : t[k] = p
    BY <1>7 DEF Awaits
  <2>2. run[w].item = x /\ PartOf[x] # "nudge"
    BY <1>7 DEF Awaits, TellInv
  <2>3. CASE k = 1
    <3>1. KeyOf(w) = <<x, Head(t), 0>>
      BY <2>2 DEF KeyOf, KeyDay
    <3>2. Head(t) = p
      BY <1>1, <2>1, <2>3
    <3> HIDE DEF r, t
    <3>3. QED BY <3>1, <3>2
  <2>4. CASE k # 1
    <3>1. PICK n \in 1..Len(t) - 1 : k = n + 1
      BY <1>2, <2>1, <2>4
    <3>2. Tail(t)[n] = p
      BY <1>2, <2>1, <3>1
    <3>3. r.item = x /\ r.tell = Tail(t) /\ Len(Tail(t)) = Len(t) - 1
      BY <1>2, <1>3, <2>2
    <3> HIDE DEF r, t
    <3>4. QED BY <3>2, <3>3 DEF Awaits
  <2>5. QED BY <2>3, <2>4
<1> HIDE DEF r, t
<1>8. QED BY <1>4, <1>6, <1>7, GoesOnTelling DEF IInv

LEMMA NextTells ==
  ASSUME "crash" \notin Faults, IInv, TellInv, [Next]_vars PROVE TellInv'
<1> USE NoticesAssumption
<1>1. TypeOK /\ run \in [Runners -> Runs]
  BY DEF IInv, TypeOK
<1>2. ASSUME NEW x \in Items, BecomesDue(x) \/ Settle(x) PROVE TellInv'
  <2>1. \A y \in Items : status'[y] = "moved" => status[y] = "moved"
    BY <1>1, <1>2 DEF BecomesDue, Settle, TypeOK
  <2>2. QED BY <1>2, <2>1 DEF BecomesDue, Settle, TellInv
<1>3. ASSUME DayPasses \/ UNCHANGED vars PROVE TellInv'
  BY <1>3 DEF DayPasses, vars, TellInv
(* A runner whose list is empty takes up another.                          *)
<1>4. ASSUME NEW w \in Runners, NEW r, run[w].tell = <<>>, run' = [run EXCEPT ![w] = r],
             Listed(r), UNCHANGED <<status, rows>>
      PROVE  TellInv'
  <2>1. ASSUME NEW x \in Items, NEW p \in People PROVE ~Awaits(run[w], x, p)
    BY <1>4, EmptySeq DEF Awaits
  <2>2. QED BY <1>1, <1>4, <2>1, GoesOnTelling
<1>5. ASSUME NEW w \in Runners, BeginTick(w) PROVE TellInv'
  <2> DEFINE r == Runner("select", 1, day)
  <2>1. run[w].tell = <<>> /\ Listed(r)
    BY <1>5 DEF BeginTick, TellInv, Listed, Telling, Runner
  <2>2. QED BY <1>4, <1>5, <2>1 DEF BeginTick
<1>6. ASSUME NEW w \in Runners, Select(w) PROVE TellInv'
  <2>1. run[w].tell = <<>> /\ run[w] \in Runs
    BY <1>1, <1>6 DEF Select, TellInv, Listed, Telling
  <2>2. CASE run' = [run EXCEPT ![w] = Idle]
    <3>1. Listed(Idle)
      BY DEF Listed, Telling, Idle, Runner
    <3>2. QED BY <1>4, <1>6, <2>1, <2>2, <3>1 DEF Select
  <2>3. CASE ~(run[w].part > Len(Parts))
    <3> DEFINE batch == {x \in Items : PartOf[x] = Parts[run[w].part] /\ status[x] = "due"}
               r == [run[w] EXCEPT !.at = "next", !.batch = batch]
    <3>1. run' = [run EXCEPT ![w] = r]
      BY <1>1, <1>6, <2>3 DEF Select, Runs
    <3>2. r.at = "next" /\ r.tell = <<>>
      BY <2>1 DEF Runs
    <3>3. Listed(r)
      BY <3>2 DEF Listed, Telling
    <3> HIDE DEF r
    <3>4. QED BY <1>4, <1>6, <2>1, <3>1, <3>3 DEF Select
  <2>4. QED BY <1>6, <2>2, <2>3 DEF Select
<1>7. ASSUME NEW w \in Runners, NextItem(w) PROVE TellInv'
  <2>1. run[w].tell = <<>> /\ run[w] \in Runs
    BY <1>1, <1>7 DEF NextItem, TellInv, Listed, Telling
  <2>2. CASE NextPart(w)
    <3> DEFINE r == AfterPart(run[w])
    <3>1. r.at = "select" /\ r.tell = <<>>
      BY <2>1 DEF AfterPart, Runs
    <3>2. Listed(r)
      BY <3>1 DEF Listed, Telling
    <3>3. run' = [run EXCEPT ![w] = r]
      BY <2>2 DEF NextPart
    <3> HIDE DEF r
    <3>4. QED BY <1>4, <1>7, <2>1, <3>2, <3>3 DEF NextItem
  <2>3. CASE ~NextPart(w)
    <3>1. PICK x \in run[w].batch :
            run' = [run EXCEPT ![w].batch = @ \ {x}, ![w].item = x,
                      ![w].tell = RecipientsOf[x],
                      ![w].at = IF PartOf[x] = "nudge" THEN "find" ELSE "write"]
      BY <1>7, <2>3 DEF NextItem
    <3> DEFINE r == [run[w] EXCEPT !.batch = run[w].batch \ {x}, !.item = x,
                       !.tell = RecipientsOf[x],
                       !.at = IF PartOf[x] = "nudge" THEN "find" ELSE "write"]
    <3>2. /\ r.item = x /\ r.tell = RecipientsOf[x]
          /\ r.at = IF PartOf[x] = "nudge" THEN "find" ELSE "write"
      BY <2>1 DEF Runs
    <3>3. Listed(r)
      BY <3>2 DEF Listed, Telling
    <3>4. run' = [run EXCEPT ![w] = r]
      BY <1>1, <3>1 DEF Runs
    <3> HIDE DEF r
    <3>5. QED BY <1>4, <1>7, <2>1, <3>3, <3>4 DEF NextItem
  <2>4. QED BY <2>2, <2>3
(* A runner goes on with the list it has.                                  *)
<1>8. ASSUME NEW w \in Runners, NEW step \in {"find", "record", "send"},
             run[w].at \in Telling, Goto(w, step)
      PROVE  /\ \A v \in Runners \ {w} : run'[v] = run[v]
             /\ run'[w].item = run[w].item /\ run'[w].tell = run[w].tell
             /\ Listed(run'[w])
  <2>1. run'[w] = [run[w] EXCEPT !.at = step] /\ run[w] \in Runs
    BY <1>1, <1>8 DEF Goto
  <2>2. run'[w].at = step /\ run'[w].item = run[w].item /\ run'[w].tell = run[w].tell
    BY <2>1 DEF Runs
  <2>3. Listed(run'[w])
    <3> SUFFICES ASSUME NEW j, j = run'[w] PROVE Listed(j)
      OBVIOUS
    <3>1. j.at = step
      BY <2>2
    <3>2. QED BY <3>1 DEF Listed, Telling
  <2>4. \A v \in Runners \ {w} : run'[v] = run[v]
    BY <1>1, <1>8 DEF Goto
  <2>5. QED BY <2>2, <2>3, <2>4
<1>9. ASSUME NEW w \in Runners, NEW step \in {"find", "record", "send"},
             run[w].at \in Telling, Goto(w, step), rows \subseteq rows', UNCHANGED status
      PROVE  TellInv'
  <2>1. \A v \in Runners, x \in Items, p \in People :
           Awaits(run'[v], x, p) <=> Awaits(run[v], x, p)
    BY <1>8, <1>9 DEF Awaits
  <2>2. \A v \in Runners : Listed(run'[v])
    BY <1>8, <1>9 DEF TellInv
  <2>3. ASSUME NEW x \in Items, NEW i \in 1..Len(RecipientsOf[x])
        PROVE  RecipientsOf[x][i] \in People
    OBVIOUS
  <2>4. QED BY <1>9, <2>1, <2>2, <2>3 DEF TellInv
<1>10. ASSUME NEW w \in Runners, Write(w) PROVE TellInv'
  <2> DEFINE x == run[w].item
  <2>1. x \in Items /\ run[w].at \in Telling /\ PartOf[x] # "nudge" /\ run[w].tell = RecipientsOf[x]
    BY <1>10 DEF Write, IInv, InHand, Telling, TellInv, Listed
  <2>2. /\ Goto(w, "find") /\ rows' = rows /\ status' = [status EXCEPT ![x] = "moved"]
    BY <1>10 DEF Write
  <2>3. /\ \A v \in Runners \ {w} : run'[v] = run[v]
        /\ run'[w].item = x /\ run'[w].tell = RecipientsOf[x] /\ Listed(run'[w])
    BY <1>8, <2>1, <2>2
  <2> HIDE DEF x
  <2>4. \A v \in Runners, y \in Items, p \in People :
           Awaits(run[v], y, p) => Awaits(run'[v], y, p)
    BY <2>1, <2>3 DEF Awaits, x
  <2>5. \A i \in 1..Len(RecipientsOf[x]) : Awaits(run'[w], x, RecipientsOf[x][i])
    BY <2>3 DEF Awaits
  <2>6. \A y \in Items \ {x} : status'[y] = status[y]
    BY <1>1, <2>2 DEF TypeOK
  <2>7. \A y \in Items : \A i \in 1..Len(RecipientsOf[y]) : RecipientsOf[y][i] \in People
    OBVIOUS
  <2>8. \A v \in Runners : Listed(run'[v])
    BY <2>3 DEF TellInv
  <2>9. QED BY <2>1, <2>2, <2>4, <2>5, <2>6, <2>7, <2>8 DEF TellInv
<1>11. ASSUME NEW w \in Runners, Find(w) \/ Record(w) \/ Send(w) PROVE TellInv'
  <2>1. CASE Find(w)
    BY <1>9, <2>1, TellsOne DEF Find, Telling
  <2>2. CASE Record(w) /\ KeyOf(w) \in rows
    <3>1. ToldOne(w) /\ rows' = rows /\ status' = status /\ run[w].at = "record"
      BY <2>2 DEF Record
    <3>2. QED BY <2>2, <3>1, TellsOne
  <2>3. CASE Record(w) /\ KeyOf(w) \notin rows
    BY <1>9, <2>3 DEF Record, Telling
  <2>4. CASE Send(w)
    BY <2>4, TellsOne DEF Send, IInv, OneSender
  <2>5. QED BY <1>11, <2>1, <2>2, <2>3, <2>4
<1>12. QED
  BY <1>2, <1>3, <1>5, <1>6, <1>7, <1>10, <1>11 DEF Next, Step, Crash

(* While no process dies in the middle of a tick, a move tells everybody   *)
(* it concerns (SPEC.md:367 and the like), though ticks overlap, refuse    *)
(* each other's moves and share the telling.                               *)
THEOREM EverybodyIsTold == ASSUME "crash" \notin Faults PROVE Spec => []NobodyForgotten
<1>1. Init => TellInv
  BY DEF Init, TellInv, Listed, Telling, Idle, Runner
<1>2. IInv /\ TellInv /\ [Next]_vars => TellInv'
  BY NextTells
<1>3. TellInv => NobodyForgotten
  BY DEF TellInv, NobodyForgotten, Awaits
<1>4. QED BY <1>1, <1>2, <1>3, Invariance, PTL DEF Spec

--------------------------------------------------------------------------------
(* THE BELL                                                                *)

(* The badge, the calls and the polls of a page that knows of n notices.   *)
Bells(n) == [badge : Nat, items : SUBSET (1..n), open : BOOLEAN]
Polls(n) == [at : {"idle", "asked"}, counted : BOOLEAN, listed : BOOLEAN,
             badge : Nat, items : SUBSET (1..n), rows : 0..n]
Marks(n) == [at : {"idle", "asked", "done"}, badge : Nat, items : SUBSET (1..n)]

BellTyped ==
  /\ box \in Nat /\ unread \subseteq 1..box /\ known \in 0..box /\ drawn \subseteq 1..box
  /\ bell \in Bells(box) /\ poll \in Polls(box) /\ mark \in [Clicks -> Marks(box)]

(* Nothing under way, and a request or a call that begins.                 *)
LEMMA AtRestTyped ==
  ASSUME NEW n \in Nat
  PROVE  Silent \in Polls(n) /\ Asked \in Polls(n) /\ AtRest \in Marks(n)
<1>1. {} \in SUBSET (1..n) /\ 0 \in 0..n OBVIOUS
<1>2. Silent \in Polls(n) BY <1>1 DEF Silent, Polls
<1>3. Asked \in Polls(n) BY <1>2 DEF Asked, Polls
<1>4. AtRest \in Marks(n) BY <1>1 DEF AtRest, Marks
<1> QED BY <1>2, <1>3, <1>4

(* What was counted as nothing stays nothing, up to that row.              *)
CountedRight ==
  poll.counted /\ poll.badge = 0 => \A n \in unread : n > poll.rows

(* A call keeps the badge it cleared, which was not empty.                 *)
KeptAside == \A k \in Clicks : mark[k].at # "idle" => mark[k].badge # 0

(* An empty badge hides nothing, or a call to mark all read is under way.  *)
Honest ==
  bell.badge = 0 => (\A n \in unread : n > known) \/ \E k \in Clicks : mark[k].at = "asked"

BellIInv == BellTyped /\ CountedRight /\ KeptAside /\ Honest

LEMMA LatestRowsExist == ASSUME box \in Nat PROVE LatestRows \subseteq 1..box
<1> DEFINE S == {box, BELL_PAGE_SIZE}  m == Min(S)
<1>1. \E x \in S : \A y \in S : x <= y
  BY BellAssumption
<1> HIDE DEF S
<1>2. m \in S /\ \A y \in S : m <= y BY <1>1 DEF Min
<1> USE DEF S
<1>3. m \in Nat /\ m <= box BY <1>2, BellAssumption
<1> HIDE DEF m
<1>4. LatestRows = (1 + box - m) .. box BY DEF LatestRows, m
<1> QED BY <1>2, <1>3, <1>4

LEMMA NoneUnread ==
  ASSUME box \in Nat, unread \subseteq 1..box
  PROVE  Cardinality(unread) \in Nat /\ (Cardinality(unread) = 0 => unread = {})
<1>1. IsFiniteSet(1..box) BY FS_Interval
<1>2. IsFiniteSet(unread) BY <1>1, FS_Subset
<1> QED BY <1>2, FS_CardinalityType, FS_EmptySet

LEMMA BellInitIInv == BellInit => BellIInv
<1> SUFFICES ASSUME BellInit PROVE BellIInv OBVIOUS
<1>1. BellTyped BY AtRestTyped DEF BellInit, BellTyped, Bells
<1> QED BY <1>1 DEF BellInit, BellIInv, CountedRight, KeptAside, Honest, Silent, AtRest

LEMMA BellServer ==
  ASSUME BellIInv, RecordInApp \/ ReadCount \/ ReadItems PROVE BellIInv'
<1> USE DEF BellIInv
<1>1. CASE RecordInApp
  <2>1. box' = box + 1 /\ unread' = unread \cup {box + 1}
        /\ UNCHANGED <<bell, poll, mark, known, drawn>>
    BY <1>1 DEF RecordInApp
  <2>2. 1..box \subseteq 1..box' /\ 0..box \subseteq 0..box' /\ box' \in Nat
        /\ box + 1 \in 1..box'
    BY <2>1 DEF BellTyped, Bells, Polls, Marks
  <2>3. BellTyped'
    BY <2>1, <2>2 DEF BellTyped, Bells, Polls, Marks
  <2>4. box + 1 > known /\ box + 1 > poll.rows BY DEF BellTyped, Bells, Polls, Marks
  <2>5. CountedRight' /\ KeptAside' /\ Honest'
    BY <2>1, <2>4 DEF CountedRight, KeptAside, Honest
  <2> QED BY <2>3, <2>5
<1>2. CASE ReadCount
  <2>1. poll' = [poll EXCEPT !.counted = TRUE, !.badge = Cardinality(unread), !.rows = box]
        /\ UNCHANGED <<box, unread, bell, mark, known, drawn>>
    BY <1>2 DEF ReadCount
  <2>2. Cardinality(unread) \in Nat /\ (Cardinality(unread) = 0 => unread = {})
    BY NoneUnread DEF BellTyped, Bells, Polls, Marks
  <2> DEFINE c == Cardinality(unread)
  <2>3. BellTyped'
    <3> HIDE DEF c
    <3>1. poll' = [poll EXCEPT !.counted = TRUE, !.badge = c, !.rows = box] BY <2>1 DEF c
    <3>2. c \in Nat BY <2>2 DEF c
    <3>3. poll \in Polls(box) /\ box \in 0..box BY DEF BellTyped
    <3>4. poll' \in Polls(box) BY <3>1, <3>2, <3>3 DEF Polls
    <3> QED BY <2>1, <3>4 DEF BellTyped
  <2>4. CountedRight' BY <2>1, <2>2 DEF BellTyped, Polls, CountedRight
  <2>5. KeptAside' /\ Honest' BY <2>1 DEF KeptAside, Honest
  <2> QED BY <2>3, <2>4, <2>5
<1>3. CASE ReadItems
  <2>1. poll' = [poll EXCEPT !.listed = TRUE, !.items = LatestRows]
        /\ UNCHANGED <<box, unread, bell, mark, known, drawn>>
    BY <1>3 DEF ReadItems
  <2>2. LatestRows \subseteq 1..box BY LatestRowsExist DEF BellTyped, Bells, Polls, Marks
  <2>3. BellTyped' BY <2>1, <2>2 DEF BellTyped, Bells, Polls, Marks
  <2>4. CountedRight' BY <2>1 DEF BellTyped, Polls, CountedRight
  <2>5. KeptAside' /\ Honest' BY <2>1 DEF KeptAside, Honest
  <2> QED BY <2>3, <2>4, <2>5
<1> QED BY <1>1, <1>2, <1>3

LEMMA BellCalls ==
  ASSUME BellIInv, NEW k \in Clicks, MarkAllRead(k) \/ Open(k) \/ MarkedRead(k) \/ MarkFailed(k)
  PROVE  BellIInv'
<1> USE DEF BellIInv
<1>1. CASE MarkAllRead(k)
  <2>1. unread' = {} /\ mark' = [mark EXCEPT ![k].at = "done"] /\ mark[k].at = "asked"
        /\ UNCHANGED <<box, bell, poll, known, drawn>>
    BY <1>1 DEF MarkAllRead
  <2>2. BellTyped' BY <2>1 DEF BellTyped, Bells, Polls, Marks
  <2>3. KeptAside' BY <2>1 DEF BellTyped, Marks, Bells, KeptAside
  <2> QED BY <2>1, <2>2, <2>3 DEF CountedRight, Honest
<1>2. CASE Open(k) /\ bell.badge = 0
  <2>1. /\ bell' = [bell EXCEPT !.open = TRUE] /\ drawn' = drawn \cup bell.items
        /\ UNCHANGED <<box, unread, poll, mark, known>>
    BY <1>2 DEF Open, Draw
  <2>2. BellTyped' BY <2>1 DEF BellTyped, Bells, Polls, Marks
  <2>3. Honest' BY <2>1 DEF BellTyped, Bells, Honest
  <2> QED BY <2>1, <2>2, <2>3 DEF CountedRight, KeptAside
<1>3. CASE Open(k) /\ bell.badge # 0
  <2>1. /\ mark' = [mark EXCEPT ![k] = [at |-> "asked", badge |-> bell.badge,
                                        items |-> bell.items]]
        /\ bell' = [bell EXCEPT !.open = TRUE, !.badge = 0]
        /\ poll' = Silent /\ drawn' = drawn \cup bell.items /\ UNCHANGED <<box, unread, known>>
    BY <1>3 DEF Open, Draw
  <2>2. BellTyped' BY <2>1, AtRestTyped DEF BellTyped, Bells, Marks
  <2>3. mark'[k].at = "asked" /\ mark'[k].badge # 0
    BY <1>3, <2>1 DEF BellTyped, Bells, Polls, Marks
  <2>4. KeptAside' BY <2>1, <2>3 DEF BellTyped, Marks, Bells, KeptAside
  <2> QED BY <2>1, <2>2, <2>3, <2>4 DEF CountedRight, Honest, Silent
<1>4. CASE MarkedRead(k)
  <2>1. /\ mark[k].at = "done" /\ mark' = [mark EXCEPT ![k] = AtRest] /\ poll' = Asked
        /\ UNCHANGED <<box, unread, bell, known, drawn>>
    BY <1>4 DEF MarkedRead
  <2>2. BellTyped' BY <2>1, AtRestTyped DEF BellTyped, Bells, Marks
  <2>3. KeptAside' /\ Honest' BY <2>1 DEF BellTyped, Marks, Bells, KeptAside, Honest, AtRest
  <2> QED BY <2>1, <2>2, <2>3 DEF CountedRight, Asked, Silent
<1>5. CASE MarkFailed(k)
  <2>1. /\ mark[k].at # "idle" /\ mark' = [mark EXCEPT ![k] = AtRest] /\ poll' = Asked
        /\ bell' = [bell EXCEPT !.badge = mark[k].badge, !.items = mark[k].items]
        /\ drawn' \in {drawn, drawn \cup mark[k].items}
        /\ UNCHANGED <<box, unread, known>>
    BY <1>5 DEF MarkFailed, Draw
  <2>2. BellTyped' BY <2>1, AtRestTyped DEF BellTyped, Bells, Marks
  <2>3. bell'.badge # 0 BY <2>1 DEF BellTyped, Marks, Bells, KeptAside
  <2>4. KeptAside' BY <2>1 DEF BellTyped, Marks, Bells, KeptAside, AtRest
  <2> QED BY <2>1, <2>2, <2>3, <2>4 DEF CountedRight, Honest, Asked, Silent
<1> QED BY <1>1, <1>2, <1>3, <1>4, <1>5

LEMMA BellPolls ==
  ASSUME BellIInv, Ask \/ Deliver \/ Shut \/ PollFailed PROVE BellIInv'
<1> USE DEF BellIInv
<1>1. CASE Ask
  <2>1. poll' = Asked /\ UNCHANGED <<box, unread, bell, mark, known, drawn>>
    BY <1>1 DEF Ask
  <2>2. BellTyped' BY <2>1, AtRestTyped DEF BellTyped, Bells, Marks
  <2> QED BY <2>1, <2>2 DEF CountedRight, KeptAside, Honest, Asked, Silent
<1>2. CASE Deliver
  <2>1. /\ poll.counted /\ bell' = [bell EXCEPT !.badge = poll.badge, !.items = poll.items]
        /\ known' = poll.rows /\ poll' = Silent /\ drawn' \in {drawn, drawn \cup poll.items}
        /\ UNCHANGED <<box, unread, mark>>
    BY <1>2 DEF Deliver, Draw
  <2>2. BellTyped' BY <2>1, AtRestTyped DEF BellTyped, Bells, Polls, Marks
  <2>3. Honest' BY <2>1 DEF BellTyped, Bells, Polls, Honest, CountedRight
  <2> QED BY <2>1, <2>2, <2>3 DEF CountedRight, KeptAside, Silent
<1>3. CASE Shut
  <2>1. bell' = [bell EXCEPT !.open = FALSE] /\ UNCHANGED <<box, unread, poll, mark, known, drawn>>
    BY <1>3 DEF Shut
  <2>2. BellTyped' /\ bell'.badge = bell.badge BY <2>1 DEF BellTyped, Bells, Polls, Marks
  <2> QED BY <2>1, <2>2 DEF CountedRight, KeptAside, Honest
<1>4. CASE PollFailed
  <2>1. poll' = Silent /\ UNCHANGED <<box, unread, bell, mark, known, drawn>>
    BY <1>4 DEF PollFailed
  <2>2. BellTyped' BY <2>1, AtRestTyped DEF BellTyped, Bells, Marks
  <2> QED BY <2>1, <2>2 DEF CountedRight, KeptAside, Honest, Silent
<1> QED BY <1>1, <1>2, <1>3, <1>4

LEMMA BellNextIInv == BellIInv /\ [BellNext]_bellVars => BellIInv'
<1> SUFFICES ASSUME BellIInv, [BellNext]_bellVars PROVE BellIInv' OBVIOUS
<1>1. CASE UNCHANGED bellVars
  BY <1>1 DEF bellVars, BellIInv, BellTyped, CountedRight, KeptAside, Honest
<1> QED BY <1>1, BellServer, BellCalls, BellPolls DEF BellNext, Online, Offline

(* An empty badge hides no notice the page has learnt of, unless a call    *)
(* that marks all as read is still out: polls, opened panels and failed    *)
(* calls put the badge right in whatever order they are answered.          *)
THEOREM BellIsHonest == BellSpec => []BadgeNeverHides
<1>1. BellIInv => BadgeNeverHides BY DEF BellIInv, Honest, BadgeNeverHides
<1> QED BY <1>1, BellInitIInv, BellNextIInv, PTL DEF BellSpec
================================================================================
