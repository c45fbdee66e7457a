------------------------------ MODULE Files_proofs ------------------------------
(***************************************************************************)
(* Rows keep their objects, a deal in review or beyond keeps its document  *)
(* and the sweep takes only what no row refers to, for any files, workers  *)
(* and faults, if no upload is under way beside a sweep. The proofs follow *)
(* the keys a sweep has learnt: of every table it has read it knows all    *)
(* keys (InSight), from its last read on all there are.                    *)
(***************************************************************************)
EXTENDS Files, SequenceTheorems, TLAPS

Uploading == {"put", "insert", "submit"}
Sweeping == {"read", "list", "delete"}
Purging == {"purge_object", "purge_row"}

(* Whoever sweeps is the only one to upload, so that the two take turns;   *)
(* purges and conversions overlap all of it. An upload beside a sweep does *)
(* lose its object, as README.md tells; the sweep is a weekly job at       *)
(* night.                                                                  *)
SweepsApart ==
  \A v, w \in Workers : "sweep" \in Duties[v] /\ Duties[w] \cap Tables # {} => v = w

(* A sweep that reads knows every key of the tables it is through with.    *)
InSight(j) ==
  \A t \in Tables \ j.tables :
     Held(t) \subseteq j.kept \cup IF t = "listings" /\ "intakes" \in j.tables
                                   THEN rows["intakes"] ELSE {}

(* What a call knows at each of its steps: an upload stored what it is     *)
(* about to write, a sweep about to list knows every referenced key, a     *)
(* purge holds documents past their retention only.                        *)
JobFacts(w, j) ==
  /\ j.at \in Uploading =>
       /\ Duties[w] \cap Tables # {}
       /\ j.kept \subseteq bucket
       /\ (j.kept \cup j.todo) \cap aged = {}
  /\ j.at \in Sweeping => "sweep" \in Duties[w]
  /\ j.at = "read" => InSight(j)
  /\ j.at \in {"list", "delete"} => Referenced \subseteq j.kept
  /\ j.at = "delete" => j.todo \cap j.kept = {}
  /\ j.at \in Purging => j.kept \cup j.todo \subseteq aged

Jobs == \A w \in Workers : JobFacts(w, job[w])

(* The deal has a document in review or accepted, or is about to.          *)
Decided == {"docs_in_review", "approved", "closed"}
Handed == deal \in Decided \/ \E w \in Workers : job[w].at = "submit"

(* The newest document is there, and no purge is after it.                 *)
LastIsCurrent ==
  Handed =>
    /\ docs # <<>> /\ Last(docs) \in bucket
    /\ \A w \in Workers : job[w].at \in Purging => Last(docs) \notin job[w].kept \cup job[w].todo
    /\ (\E w \in Workers : job[w].at = "submit") => Last(docs) \notin aged

(* Keys still to be stored were taken when the upload began.               *)
Taken == \A w \in Workers : job[w].at = "put" => job[w].todo \subseteq used

IInv == TypeOK /\ Taken /\ Jobs /\ RowsHaveObjects /\ LastIsCurrent

LEMMA SeqGrows ==
  ASSUME NEW S, NEW T, S \subseteq T, NEW s \in Seq(S) PROVE s \in Seq(T)
OBVIOUS

LEMMA TailInSeq ==
  ASSUME NEW S, NEW s \in Seq(S), s # <<>> PROVE Tail(s) \in Seq(S)
OBVIOUS

LEMMA SameHeld ==
  ASSUME UNCHANGED <<rows, docs, agreement>>
  PROVE  /\ \A t : Held(t)' = Held(t)
         /\ Referenced' = Referenced
<1>1. \A t : Held(t)' = Held(t) BY DEF Held
<1> QED BY <1>1 DEF Referenced

LEMMA IdleFacts ==
  /\ Idle \in JobRows /\ Idle.at = "idle"
  /\ \A w : JobFacts(w, Idle)
<1>1. <<>> \in Seq(DOMAIN TableOf) OBVIOUS
<1>2. Idle \in JobRows BY <1>1 DEF Idle, JobRows
<1> QED BY <1>2 DEF Idle, JobFacts, Uploading, Sweeping, Purging

(* A step that moves one call on and writes nothing.                       *)
LEMMA OnlyJob ==
  ASSUME IInv, NEW w \in Workers, NEW j \in JobRows, JobFacts(w, j),
         job' = [job EXCEPT ![w] = j],
         UNCHANGED <<bucket, rows, docs, agreement, deal, aged>>,
         used \subseteq used', used' \subseteq Files,
         j.at = "put" => j.todo \subseteq used',
         j.at # "submit",
         j.at \in Purging /\ Handed => Last(docs) \notin j.kept \cup j.todo
  PROVE  IInv'
<1>1. TypeOK'
  <2>1. docs' \in Seq(used') BY SeqGrows DEF IInv, TypeOK
  <2> QED BY <2>1 DEF IInv, TypeOK
<1>2. Taken' BY DEF IInv, TypeOK, Taken
<1>3. Jobs'
  <2> SUFFICES ASSUME NEW v \in Workers PROVE JobFacts(v, job[v])' BY DEF Jobs
  <2>1. JobFacts(v, job'[v]) BY DEF IInv, Jobs, TypeOK
  <2> QED BY <2>1, SameHeld DEF JobFacts, InSight
<1>4. RowsHaveObjects' BY SameHeld DEF IInv, RowsHaveObjects
<1>5. LastIsCurrent' BY DEF IInv, TypeOK, LastIsCurrent, Handed, Last
<1> QED BY <1>1, <1>2, <1>3, <1>4, <1>5 DEF IInv

LEMMA BeginUploadStep ==
  ASSUME IInv, NEW w \in Workers, NEW files \in SUBSET Files, BeginUpload(w, files)
  PROVE  IInv'
<1>1. PICK t \in Tables \cap Duties[w] : \E into \in Into(t) :
         job' = [job EXCEPT ![w] = [Idle EXCEPT !.at = "put", !.into = into, !.todo = files]]
  BY DEF BeginUpload
<1>2. PICK into \in Into(t) :
         job' = [job EXCEPT ![w] = [Idle EXCEPT !.at = "put", !.into = into, !.todo = files]]
  BY <1>1
<1> DEFINE j == [Idle EXCEPT !.at = "put", !.into = into, !.todo = files]
<1>3. j \in JobRows /\ j.at = "put" /\ j.todo = files /\ j.kept = {}
  <2>1. into \in Tables \cup {"pdf", "scan"} BY DEF Into
  <2> QED BY <2>1, IdleFacts DEF JobRows, Steps, Idle
<1>4. JobFacts(w, j)
  BY <1>3 DEF JobFacts, Uploading, Sweeping, Purging, BeginUpload, IInv, TypeOK
<1> QED BY <1>2, <1>3, <1>4, OnlyJob DEF BeginUpload, Purging, IInv, TypeOK

LEMMA PutStep ==
  ASSUME IInv, NEW w \in Workers, NEW f \in Files, Put(w, f) PROVE IInv'
<1> DEFINE j == [job[w] EXCEPT !.todo = @ \ {f}, !.kept = @ \cup {f},
                               !.at = IF job[w].todo = {f} THEN "insert" ELSE "put"]
<1>0. job[w] \in JobRows /\ job[w].at = "put" /\ f \in job[w].todo /\ f \in used
  BY DEF Put, IInv, TypeOK, Taken
<1>1. job' = [job EXCEPT ![w] = j] BY <1>0 DEF Put, IInv, TypeOK, JobRows
<1>2. /\ j \in JobRows /\ j.at \in {"put", "insert"}
      /\ j.todo = job[w].todo \ {f} /\ j.kept = job[w].kept \cup {f}
  BY <1>0 DEF JobRows, Steps
<1> HIDE DEF j
<1>3. /\ bucket' = bucket \cup {f} /\ UNCHANGED <<used, rows, docs, agreement, deal, aged>>
  BY DEF Put
<1>4. TypeOK' BY <1>0, <1>1, <1>2, <1>3 DEF IInv, TypeOK
<1>5. Taken' BY <1>0, <1>1, <1>2, <1>3 DEF IInv, TypeOK, Taken
<1>6. Jobs'
  <2> SUFFICES ASSUME NEW v \in Workers PROVE JobFacts(v, job[v])' BY DEF Jobs
  <2>1. JobFacts(v, job[v]) /\ JobFacts(w, job[w]) BY DEF IInv, Jobs
  <2>2. CASE v = w
    BY <1>0, <1>1, <1>2, <1>3, <2>1, <2>2 DEF IInv, TypeOK, JobFacts, Uploading, Sweeping, Purging
  <2>3. CASE v # w
    <3>1. job'[v] = job[v] BY <1>1, <2>3 DEF IInv, TypeOK
    <3> QED BY <1>3, <2>1, <3>1, SameHeld DEF JobFacts, InSight
  <2> QED BY <2>2, <2>3
<1>7. RowsHaveObjects' BY <1>3, SameHeld DEF IInv, RowsHaveObjects
<1>8. LastIsCurrent'
  BY <1>1, <1>2, <1>3 DEF IInv, TypeOK, LastIsCurrent, Handed, Last, Purging
<1> QED BY <1>4, <1>5, <1>6, <1>7, <1>8 DEF IInv

(* While a call stores or writes, no sweep is under way.                   *)
LEMMA NobodySweeps ==
  ASSUME SweepsApart, IInv, NEW w \in Workers, job[w].at \in Uploading, NEW v \in Workers
  PROVE  job[v].at \notin Sweeping
BY DEF SweepsApart, IInv, Jobs, JobFacts, Uploading, Sweeping

LEMMA InsertStep ==
  ASSUME SweepsApart, IInv, NEW w \in Workers, Insert(w) PROVE IInv'
<1> DEFINE k == job[w]
<1>1. k \in JobRows /\ k.at = "insert" BY DEF Insert, IInv, TypeOK
<1>2. k.kept \subseteq bucket /\ k.kept \cap aged = {} /\ k.kept \subseteq used
  BY <1>1 DEF IInv, Jobs, JobFacts, Uploading, TypeOK
<1>3. PICK f \in k.kept :
        /\ docs' = IF k.into = "customer_documents" THEN Append(docs, f) ELSE docs
        /\ agreement' = CASE k.into = "pdf" -> [pdf |-> f, scan |-> Null]
                          [] k.into = "scan" -> [agreement EXCEPT !.scan = f]
                          [] OTHER -> agreement
  BY DEF Insert
<1>4. PICK j \in {Idle, [k EXCEPT !.at = "submit"]} :
        /\ job' = [job EXCEPT ![w] = j]
        /\ j.at = "submit" <=> k.into = "customer_documents"
  <2>1. CASE k.into = "customer_documents"
    <3>1. job' = [job EXCEPT ![w] = [k EXCEPT !.at = "submit"]]
      BY <1>1, <2>1 DEF Insert, IInv, TypeOK, JobRows
    <3>2. [k EXCEPT !.at = "submit"].at = "submit" BY <1>1 DEF JobRows
    <3> QED BY <2>1, <3>1, <3>2
  <2>2. CASE k.into # "customer_documents"
    BY <2>2, IdleFacts DEF Insert, Return
  <2> QED BY <2>1, <2>2
<1>5. /\ j \in JobRows /\ j.at \in {"idle", "submit"}
      /\ j.at = "submit" => j.kept = k.kept /\ j.todo = k.todo
  BY <1>1, IdleFacts DEF JobRows, Steps
<1>6. /\ rows' = [t \in PlainTables |-> IF t = k.into THEN rows[t] \cup k.kept ELSE rows[t]]
      /\ UNCHANGED <<bucket, used, deal, aged>>
  BY DEF Insert
<1> HIDE DEF k
<1>7. \A v \in Workers : v # w => job'[v] = job[v] /\ job[v].at \notin Sweeping
  BY <1>1, <1>4, NobodySweeps DEF IInv, TypeOK, k, Uploading
<1>8. job'[w] = j BY <1>4 DEF IInv, TypeOK
<1>9. docs \in Seq(used) /\ f \in used BY <1>2, <1>3 DEF IInv, TypeOK
<1>10. TypeOK'
  <2>1. docs' \in Seq(used) BY <1>3, <1>9
  <2>2. agreement' \in [pdf : used \cup {Null}, scan : used \cup {Null}]
    <3>1. agreement \in [pdf : used \cup {Null}, scan : used \cup {Null}] BY DEF IInv, TypeOK
    <3> QED BY <1>3, <1>9, <3>1
  <2> QED BY <1>2, <1>4, <1>5, <1>6, <2>1, <2>2 DEF IInv, TypeOK
<1>11. Taken' BY <1>5, <1>6, <1>7, <1>8 DEF IInv, Taken
<1>12. Jobs'
  <2> SUFFICES ASSUME NEW v \in Workers PROVE JobFacts(v, job[v])' BY DEF Jobs
  <2>1. JobFacts(v, job[v]) /\ JobFacts(w, k) BY DEF IInv, Jobs, k
  <2> QED
    BY <1>1, <1>5, <1>6, <1>7, <1>8, <2>1 DEF JobFacts, Uploading, Sweeping, Purging
<1>13. RowsHaveObjects'
  <2> SUFFICES ASSUME NEW t \in Tables, NEW x \in Held(t)' PROVE x \in Held(t) \cup k.kept
    BY <1>2, <1>6 DEF IInv, RowsHaveObjects, Referenced
  <2>1. CASE t = "customer_documents"
    <3>1. x \in Range(docs') BY <2>1 DEF Held
    <3>2. Range(Append(docs, f)) = Range(docs) \cup {f} BY <1>9 DEF Range
    <3>3. x \in Range(docs) \cup {f} BY <1>3, <3>1, <3>2
    <3> QED BY <1>3, <2>1, <3>3 DEF Held
  <2>2. CASE t = "agreements"
    <3>1. agreement \in [pdf : used \cup {Null}, scan : used \cup {Null}] BY DEF IInv, TypeOK
    <3>2. agreement' \in [pdf : {agreement.pdf, f}, scan : {agreement.scan, f, Null}]
      BY <1>3, <3>1
    <3> QED BY <1>3, <2>2, <3>2 DEF Held
  <2>3. CASE t \notin {"customer_documents", "agreements"}
    <3>1. t \in PlainTables BY <2>3 DEF Tables, PlainTables
    <3>2. Held(t) = rows[t] /\ Held(t)' = rows'[t] BY <2>3 DEF Held
    <3> QED BY <1>6, <3>1, <3>2
  <2> QED BY <2>1, <2>2, <2>3
<1>14. LastIsCurrent'
  <2>1. CASE k.into = "customer_documents"
    <3>1. docs' = Append(docs, f) BY <1>3, <2>1
    <3>2. docs' # <<>> /\ Last(docs') = f BY <1>9, <3>1 DEF Last
    <3>3. \A v \in Workers : job'[v].at \in Purging => f \notin job'[v].kept \cup job'[v].todo
      BY <1>2, <1>3, <1>5, <1>7, <1>8 DEF IInv, Jobs, JobFacts, Purging
    <3> QED BY <1>2, <1>3, <1>6, <3>2, <3>3 DEF LastIsCurrent, Handed
  <2>2. CASE k.into # "customer_documents"
    <3>1. docs' = docs /\ j.at = "idle" BY <1>3, <1>4, <1>5, <2>2
    <3> QED BY <1>6, <1>7, <1>8, <3>1 DEF IInv, LastIsCurrent, Handed, Last, Purging
  <2> QED BY <2>1, <2>2
<1> QED BY <1>10, <1>11, <1>12, <1>13, <1>14 DEF IInv

LEMMA SubmitStep == ASSUME IInv, NEW w \in Workers, Submit(w) PROVE IInv'
<1>1. /\ deal' \in DealStates
      /\ job' = [job EXCEPT ![w] = Idle] /\ job[w].at = "submit"
      /\ UNCHANGED <<bucket, used, rows, docs, agreement, aged>>
  BY DEF Submit, Return, IInv, TypeOK, DealStates
<1>2. TypeOK' /\ Taken' BY <1>1, IdleFacts DEF IInv, TypeOK, Taken
<1>3. Jobs'
  <2> SUFFICES ASSUME NEW v \in Workers PROVE JobFacts(v, job[v])' BY DEF Jobs
  <2>1. JobFacts(v, job'[v]) BY <1>1, IdleFacts DEF IInv, Jobs, TypeOK
  <2> QED BY <1>1, <2>1, SameHeld DEF JobFacts, InSight
<1>4. RowsHaveObjects' BY <1>1, SameHeld DEF IInv, RowsHaveObjects
<1>5. LastIsCurrent'
  BY <1>1, IdleFacts DEF IInv, TypeOK, LastIsCurrent, Handed, Last, Purging
<1> QED BY <1>2, <1>3, <1>4, <1>5 DEF IInv

LEMMA ConvertIntakeStep ==
  ASSUME IInv, NEW f \in Files, ConvertIntake(f) PROVE IInv'
<1>1. /\ f \in rows["intakes"]
      /\ rows' = [rows EXCEPT !["listings"] = @ \cup {f}]
      /\ UNCHANGED <<bucket, used, docs, agreement, deal, aged, job>>
  BY DEF ConvertIntake
<1>2. \A t \in Tables : Held(t)' = IF t = "listings" THEN Held(t) \cup {f} ELSE Held(t)
  <2> SUFFICES ASSUME NEW t \in Tables
      PROVE Held(t)' = IF t = "listings" THEN Held(t) \cup {f} ELSE Held(t)
    OBVIOUS
  <2>1. CASE t \in {"customer_documents", "agreements"} BY <1>1, <2>1 DEF Held
  <2>2. CASE t \notin {"customer_documents", "agreements"}
    <3>1. t \in PlainTables BY <2>2 DEF Tables, PlainTables
    <3>2. Held(t) = rows[t] /\ Held(t)' = rows'[t] BY <2>2 DEF Held
    <3> QED BY <1>1, <3>1, <3>2 DEF IInv, TypeOK
  <2> QED BY <2>1, <2>2
<1>3. f \in Held("intakes") BY <1>1 DEF Held
<1>4. Referenced' = Referenced BY <1>2, <1>3 DEF Referenced, Tables
<1>5. TypeOK' /\ Taken' BY <1>1 DEF IInv, TypeOK, Taken, PlainTables
<1>6. Jobs'
  <2> SUFFICES ASSUME NEW v \in Workers PROVE JobFacts(v, job[v])' BY DEF Jobs
  <2>1. JobFacts(v, job[v]) /\ job'[v] = job[v] BY <1>1 DEF IInv, Jobs
  <2>2. ASSUME InSight(job[v]) PROVE InSight(job[v])'
    <3>1. rows'["intakes"] = rows["intakes"] BY <1>1 DEF IInv, TypeOK, PlainTables
    <3>2. Held("intakes") = rows["intakes"] BY DEF Held
    <3>3. "intakes" \in Tables BY DEF Tables
    <3> QED BY <1>1, <1>2, <2>1, <2>2, <3>1, <3>2, <3>3 DEF InSight
  <2> QED BY <1>1, <1>4, <2>1, <2>2 DEF JobFacts
<1>7. RowsHaveObjects' BY <1>1, <1>4 DEF IInv, RowsHaveObjects
<1>8. LastIsCurrent' BY <1>1 DEF IInv, LastIsCurrent, Handed, Last
<1> QED BY <1>5, <1>6, <1>7, <1>8 DEF IInv

LEMMA HeldAreFiles == ASSUME TypeOK, NEW t \in Tables PROVE Held(t) \subseteq Files
<1>1. CASE t = "customer_documents" BY <1>1 DEF Held, Range, TypeOK
<1>2. CASE t = "agreements" BY <1>2 DEF Held, TypeOK
<1>3. CASE t \notin {"customer_documents", "agreements"}
  <2>1. t \in PlainTables /\ Held(t) = rows[t] BY <1>3 DEF Held, Tables, PlainTables
  <2> QED BY <2>1 DEF TypeOK
<1> QED BY <1>1, <1>2, <1>3

LEMMA ReadTableStep ==
  ASSUME IInv, NEW w \in Workers, NEW t \in Tables, ReadTable(w, t) PROVE IInv'
<1> DEFINE k == job[w]
           j == [k EXCEPT !.kept = @ \cup Held(t), !.tables = @ \ {t},
                          !.at = IF k.tables = {t} THEN "list" ELSE "read"]
<1>1. k \in JobRows /\ k.at = "read" /\ t \in k.tables BY DEF ReadTable, IInv, TypeOK
<1>2. job' = [job EXCEPT ![w] = j] BY <1>1 DEF ReadTable, IInv, TypeOK, JobRows
<1>3. Held(t) \subseteq Files BY HeldAreFiles DEF IInv
<1>4. /\ j \in JobRows /\ j.at = (IF k.tables = {t} THEN "list" ELSE "read")
      /\ j.kept = k.kept \cup Held(t) /\ j.tables = k.tables \ {t}
  BY <1>1, <1>3 DEF JobRows, Steps
<1>5. JobFacts(w, k) BY DEF IInv, Jobs
<1> HIDE DEF j, k
<1>6. InSight(k) BY <1>1, <1>5 DEF JobFacts
<1>7. Held("intakes") = rows["intakes"] BY DEF Held
<1>8. InSight(j)
  BY <1>1, <1>4, <1>6, <1>7 DEF InSight
<1>9. j.tables = {} => Referenced \subseteq j.kept
  BY <1>8 DEF InSight, Referenced
<1>10. JobFacts(w, j)
  BY <1>1, <1>4, <1>5, <1>8, <1>9 DEF JobFacts, Uploading, Sweeping, Purging
<1> QED BY <1>2, <1>4, <1>10, OnlyJob DEF ReadTable, Purging, IInv, TypeOK

(* A list that fails is a list without keys.                               *)
LEMMA ListedStep ==
  ASSUME IInv, NEW w \in Workers, NEW p, NEW keys \in SUBSET Files, Listed(w, p, keys)
  PROVE  IInv'
<1> DEFINE k == job[w]
           j == [k EXCEPT !.prefixes = Tail(@), !.todo = keys \ k.kept,
                          !.at = IF keys \subseteq k.kept THEN "list" ELSE "delete"]
<1>1. k \in JobRows /\ k.at = "list" /\ k.prefixes # <<>> BY DEF Listed, IInv, TypeOK
<1>2. job' = [job EXCEPT ![w] = j] BY <1>1 DEF Listed, IInv, TypeOK, JobRows
<1>3. Tail(k.prefixes) \in Seq(DOMAIN TableOf)
  <2>1. k.prefixes \in Seq(DOMAIN TableOf) BY <1>1 DEF JobRows
  <2> QED BY <1>1, <2>1, TailInSeq
<1>4. /\ j \in JobRows /\ j.at \in {"list", "delete"}
      /\ j.kept = k.kept /\ j.todo = keys \ k.kept
  BY <1>1, <1>3 DEF JobRows, Steps
<1>5. JobFacts(w, k) BY DEF IInv, Jobs
<1> HIDE DEF j, k
<1>6. JobFacts(w, j)
  BY <1>1, <1>4, <1>5 DEF JobFacts, Uploading, Sweeping, Purging
<1> QED BY <1>2, <1>4, <1>6, OnlyJob DEF Listed, Purging, IInv, TypeOK

(* Whatever is deleted, no row refers to it: the sweep has it from a list  *)
(* without the keys it knows, and knows every key there is.                *)
LEMMA DeletedIsUnreferenced ==
  ASSUME IInv, NEW w \in Workers, NEW f, Deleted(w, f) PROVE f \notin Referenced
BY DEF Deleted, IInv, Jobs, JobFacts

LEMMA LastIsReferenced ==
  ASSUME TypeOK, docs # <<>> PROVE Last(docs) \in Referenced
<1>1. Last(docs) \in Range(docs) BY DEF TypeOK, Last, Range
<1>2. Held("customer_documents") = Range(docs) BY DEF Held
<1> QED BY <1>1, <1>2 DEF Referenced, Tables

LEMMA DeletedStep ==
  ASSUME SweepsApart, IInv, NEW w \in Workers, NEW f, Deleted(w, f),
         bucket' \in {bucket, bucket \ {f}}
  PROVE  IInv'
<1> DEFINE k == job[w]
           j == [k EXCEPT !.todo = @ \ {f}, !.at = IF k.todo = {f} THEN "list" ELSE "delete"]
<1>1. k \in JobRows /\ k.at = "delete" /\ f \in k.todo BY DEF Deleted, IInv, TypeOK
<1>2. job' = [job EXCEPT ![w] = j] BY <1>1 DEF Deleted, IInv, TypeOK, JobRows
<1>3. j \in JobRows /\ j.at \in {"list", "delete"} /\ j.kept = k.kept /\ j.todo = k.todo \ {f}
  BY <1>1 DEF JobRows, Steps
<1>4. JobFacts(w, k) BY DEF IInv, Jobs
<1>5. UNCHANGED <<used, rows, docs, agreement, deal, aged>> BY DEF Deleted
<1>6. f \notin Referenced BY DeletedIsUnreferenced
<1>7. \A v \in Workers : job[v].at \notin Uploading
  BY <1>1, NobodySweeps DEF k, Sweeping
<1> HIDE DEF j, k
<1>8. \A v \in Workers : job'[v] = IF v = w THEN j ELSE job[v]
  BY <1>2 DEF IInv, TypeOK
<1>9. TypeOK' /\ Taken' BY <1>2, <1>3, <1>5, <1>8 DEF IInv, TypeOK, Taken
<1>10. Jobs'
  <2> SUFFICES ASSUME NEW v \in Workers PROVE JobFacts(v, job[v])' BY DEF Jobs
  <2>1. JobFacts(v, job[v]) /\ job[v].at \notin Uploading BY <1>7 DEF IInv, Jobs
  <2>2. CASE v = w
    BY <1>1, <1>3, <1>4, <1>5, <1>8, <2>2, SameHeld
    DEF JobFacts, Uploading, Sweeping, Purging
  <2>3. CASE v # w
    <3>1. job'[v] = job[v] BY <1>8, <2>3
    <3> QED BY <1>5, <2>1, <3>1, SameHeld DEF JobFacts, InSight
  <2> QED BY <2>2, <2>3
<1>11. RowsHaveObjects' BY <1>5, <1>6, SameHeld DEF IInv, RowsHaveObjects
<1>12. LastIsCurrent'
  <2> SUFFICES ASSUME Handed' PROVE LastIsCurrent' BY DEF LastIsCurrent
  <2>1. Handed BY <1>3, <1>5, <1>8 DEF Handed
  <2>2. docs # <<>> /\ Last(docs) # f
    BY <1>6, <2>1, LastIsReferenced DEF IInv, LastIsCurrent
  <2>3. Last(docs') = Last(docs) BY <1>5 DEF Last
  <2> QED BY <1>3, <1>5, <1>8, <2>1, <2>2, <2>3 DEF IInv, LastIsCurrent, Purging
<1> QED BY <1>9, <1>10, <1>11, <1>12 DEF IInv

LEMMA BeginPurgeStep ==
  ASSUME IInv, NEW w \in Workers, BeginPurge(w) PROVE IInv'
<1> DEFINE batch == Range(docs) \cap aged
           j == [Idle EXCEPT !.at = "purge_object", !.todo = batch]
<1>1. /\ deal \in PurgeDealStates /\ job' = [job EXCEPT ![w] = j]
      /\ UNCHANGED <<bucket, used, rows, docs, agreement, deal, aged>>
  BY DEF BeginPurge
<1>2. j \in JobRows /\ j.at = "purge_object" /\ j.kept = {} /\ j.todo = batch
  BY IdleFacts DEF JobRows, Steps, Idle, IInv, TypeOK
<1>3. JobFacts(w, j) BY <1>2 DEF JobFacts, Uploading, Sweeping, Purging
<1>4. Handed => Last(docs) \notin aged
  BY <1>1 DEF IInv, LastIsCurrent, Handed, Decided, PurgeDealStates, DealTerminalStates,
              DealOpenStates
<1> HIDE DEF j
<1> QED BY <1>1, <1>2, <1>3, <1>4, OnlyJob DEF IInv, TypeOK

LEMMA PurgeObjectStep ==
  ASSUME IInv, NEW w \in Workers, NEW f \in Files, PurgeObject(w, f) PROVE IInv'
<1> DEFINE k == job[w]
           j == [k EXCEPT !.at = "purge_row", !.kept = {f}, !.todo = @ \ {f}]
<1>1. k \in JobRows /\ k.at = "purge_object" /\ f \in k.todo
  BY DEF PurgeObject, IInv, TypeOK
<1>2. job' = [job EXCEPT ![w] = j] BY <1>1 DEF PurgeObject, IInv, TypeOK, JobRows
<1>3. j \in JobRows /\ j.at = "purge_row" /\ j.kept = {f} /\ j.todo = k.todo \ {f}
  BY <1>1 DEF JobRows, Steps
<1>4. JobFacts(w, k) BY DEF IInv, Jobs
<1>5. /\ UNCHANGED <<used, rows, docs, agreement, deal, aged>>
      /\ bucket \ {f} \subseteq bucket' /\ bucket' \subseteq bucket
  BY DEF PurgeObject
<1>6. f \in aged /\ (Handed => f # Last(docs))
  BY <1>1, <1>4 DEF JobFacts, Purging, IInv, LastIsCurrent, k
<1>7. Handed => Last(docs) \notin k.todo BY <1>1 DEF Purging, IInv, LastIsCurrent, k
<1> HIDE DEF j, k
<1>8. \A v \in Workers : job'[v] = IF v = w THEN j ELSE job[v]
  BY <1>2 DEF IInv, TypeOK
<1>9. TypeOK' /\ Taken' BY <1>2, <1>3, <1>5, <1>8 DEF IInv, TypeOK, Taken
<1>10. Jobs'
  <2> SUFFICES ASSUME NEW v \in Workers PROVE JobFacts(v, job[v])' BY DEF Jobs
  <2>1. JobFacts(v, job[v]) BY DEF IInv, Jobs
  <2>2. CASE v = w
    BY <1>1, <1>3, <1>4, <1>5, <1>6, <1>8, <2>2 DEF JobFacts, Uploading, Sweeping, Purging
  <2>3. CASE v # w
    <3>1. job'[v] = job[v] BY <1>8, <2>3
    <3> QED BY <1>5, <1>6, <2>1, <3>1, SameHeld DEF JobFacts, InSight
  <2> QED BY <2>2, <2>3
<1>11. RowsHaveObjects' BY <1>5, <1>6, SameHeld DEF IInv, RowsHaveObjects
<1>12. LastIsCurrent'
  <2> SUFFICES ASSUME Handed' PROVE LastIsCurrent' BY DEF LastIsCurrent
  <2>1. Handed BY <1>3, <1>5, <1>8 DEF Handed
  <2>2. Last(docs') = Last(docs) BY <1>5 DEF Last
  <2> QED BY <1>3, <1>5, <1>6, <1>7, <1>8, <2>1, <2>2 DEF IInv, LastIsCurrent, Purging
<1> QED BY <1>9, <1>10, <1>11, <1>12 DEF IInv

(* Taking one row out of a sequence leaves the others in their order.      *)
LEMMA RemovedAt ==
  ASSUME NEW S, NEW s \in Seq(S), NEW i \in DOMAIN s
  PROVE  /\ RemoveAt(s, i) \in Seq(S)
         /\ Range(RemoveAt(s, i)) \subseteq Range(s)
         /\ i # Len(s) => RemoveAt(s, i) # <<>> /\ Last(RemoveAt(s, i)) = Last(s)
<1> DEFINE a == SubSeq(s, 1, i - 1)  b == SubSeq(s, i + 1, Len(s))
<1>1. i \in Nat /\ 1 <= i /\ i <= Len(s) /\ Len(s) \in Nat OBVIOUS
<1>2. a \in Seq(S) /\ Len(a) = i - 1 /\ \A n \in 1 .. i - 1 : a[n] = s[n]
  BY <1>1
<1>3. b \in Seq(S) /\ Len(b) = Len(s) - i /\ \A n \in 1 .. Len(s) - i : b[n] = s[i + n]
  BY <1>1
<1> DEFINE r == a \o b
<1>4. RemoveAt(s, i) = r BY DEF RemoveAt
<1>5. r \in Seq(S) /\ Len(r) = Len(s) - 1 /\ DOMAIN r = 1 .. Len(r)
  <2> HIDE DEF a, b
  <2> QED BY <1>1, <1>2, <1>3
<1>6. ASSUME NEW n \in Nat, 1 <= n, n <= Len(s) - 1
      PROVE  r[n] = IF n < i THEN s[n] ELSE s[n + 1]
  <2> HIDE DEF a, b
  <2>0. n \in 1 .. Len(a) + Len(b) BY <1>1, <1>2, <1>3, <1>6
  <2>1. r[n] = IF n <= Len(a) THEN a[n] ELSE b[n - Len(a)]
    BY <1>2, <1>3, <2>0, ConcatProperties
  <2>2. CASE n < i BY <1>1, <1>2, <1>6, <2>1, <2>2
  <2>3. CASE n >= i
    <3> DEFINE m == n - Len(a)
    <3>1. m \in 1 .. Len(s) - i /\ i + m = n + 1 BY <1>1, <1>2, <1>6, <2>3
    <3>2. ~ (n <= Len(a)) BY <1>1, <1>2, <1>6, <2>3
    <3>3. r[n] = b[m] BY <2>1, <3>2
    <3> HIDE DEF m, r
    <3> QED BY <1>1, <1>3, <1>6, <2>3, <3>1, <3>3
  <2>4. n < i \/ n >= i BY <1>1
  <2> QED BY <2>2, <2>3, <2>4
<1> HIDE DEF a, b, r
<1>7. Range(r) \subseteq Range(s)
  <2> SUFFICES ASSUME NEW n \in DOMAIN r PROVE r[n] \in Range(s) BY DEF Range
  <2>1. n \in Nat /\ 1 <= n /\ n <= Len(s) - 1 BY <1>1, <1>5
  <2>2. n \in DOMAIN s /\ n + 1 \in DOMAIN s BY <1>1, <2>1
  <2> QED BY <1>6, <2>1, <2>2 DEF Range
<1>8. ASSUME i # Len(s) PROVE r # <<>> /\ Last(r) = Last(s)
  <2>1. Len(r) \in Nat /\ 1 <= Len(r) /\ Len(r) >= i /\ Len(r) + 1 = Len(s)
    BY <1>1, <1>5, <1>8
  <2>2. r[Len(r)] = s[Len(s)] BY <1>1, <1>5, <1>6, <2>1
  <2>3. r # <<>> BY <2>1
  <2> QED BY <2>2, <2>3 DEF Last
<1> QED BY <1>4, <1>5, <1>7, <1>8

LEMMA PurgeRowStep ==
  ASSUME IInv, NEW w \in Workers, PurgeRow(w) PROVE IInv'
<1> DEFINE k == job[w]
           found == {i \in DOMAIN docs : docs[i] \in k.kept}
           j == IF k.todo = {} \/ found = {} THEN Idle ELSE [k EXCEPT !.at = "purge_object"]
<1>1. k \in JobRows /\ k.at = "purge_row" BY DEF PurgeRow, IInv, TypeOK
<1>2. /\ job' = [job EXCEPT ![w] = j]
      /\ UNCHANGED <<bucket, used, rows, agreement, deal, aged>>
      /\ IF found = {} THEN docs' = docs ELSE \E i \in found : docs' = RemoveAt(docs, i)
  BY DEF PurgeRow
<1>3. /\ j \in JobRows /\ j.at \in {"idle", "purge_object"}
      /\ j.at = "purge_object" => j.kept = k.kept /\ j.todo = k.todo
  BY <1>1, IdleFacts DEF JobRows, Steps
<1>4. JobFacts(w, k) BY DEF IInv, Jobs
<1>5. docs \in Seq(used) BY DEF IInv, TypeOK
<1>6. Handed => docs # <<>> /\ Last(docs) \notin k.kept \cup k.todo
  BY <1>1 DEF Purging, IInv, LastIsCurrent
<1>7. /\ docs' \in Seq(used) /\ Range(docs') \subseteq Range(docs)
      /\ Handed => docs' # <<>> /\ Last(docs') = Last(docs)
  <2>1. CASE found = {} BY <1>2, <1>5, <1>6, <2>1
  <2>2. CASE found # {}
    <3>1. PICK i \in found : docs' = RemoveAt(docs, i) BY <1>2, <2>2
    <3>2. Handed => i # Len(docs) BY <1>6, <3>1 DEF Last
    <3> QED BY <1>5, <3>1, <3>2, RemovedAt
  <2> QED BY <2>1, <2>2
<1> HIDE DEF j, k, found
<1>8. \A v \in Workers : job'[v] = IF v = w THEN j ELSE job[v]
  BY <1>2 DEF IInv, TypeOK
<1>9. TypeOK' /\ Taken' BY <1>2, <1>3, <1>7, <1>8 DEF IInv, TypeOK, Taken
<1>10. \A t \in Tables : Held(t)' \subseteq Held(t)
  BY <1>2, <1>7, Zenon DEF Held
<1>11. Referenced' \subseteq Referenced BY <1>10 DEF Referenced
<1>12. Jobs'
  <2> SUFFICES ASSUME NEW v \in Workers PROVE JobFacts(v, job[v])' BY DEF Jobs
  <2>1. JobFacts(v, job[v]) BY DEF IInv, Jobs
  <2>2. CASE v = w
    BY <1>1, <1>2, <1>3, <1>4, <1>8, <2>2 DEF JobFacts, Uploading, Sweeping, Purging
  <2>3. CASE v # w
    <3>1. job'[v] = job[v] BY <1>8, <2>3
    <3>2. InSight(job[v]) => InSight(job[v])' BY <1>2, <1>10, <3>1 DEF InSight
    <3> QED BY <1>2, <1>11, <2>1, <3>1, <3>2 DEF JobFacts
  <2> QED BY <2>2, <2>3
<1>13. RowsHaveObjects' BY <1>2, <1>11 DEF IInv, RowsHaveObjects
<1>14. LastIsCurrent'
  <2> SUFFICES ASSUME Handed' PROVE LastIsCurrent' BY DEF LastIsCurrent
  <2>1. Handed BY <1>2, <1>3, <1>8 DEF Handed
  <2> QED BY <1>1, <1>2, <1>3, <1>6, <1>7, <1>8, <2>1 DEF IInv, LastIsCurrent, Purging
<1> QED BY <1>9, <1>12, <1>13, <1>14 DEF IInv

LEMMA TimeStep == ASSUME IInv, Advance \/ NinetyDaysPass PROVE IInv'
<1>1. CASE Advance
  <2>1. /\ deal' \in DealStates /\ (deal' \in Decided => deal \in Decided)
        /\ UNCHANGED <<bucket, used, rows, docs, agreement, aged, job>>
    BY <1>1 DEF Advance, DealTransitions, DealStates, DealOpenStates, Decided
  <2>2. Jobs' BY <2>1, SameHeld DEF IInv, Jobs, JobFacts, InSight
  <2>3. RowsHaveObjects' BY <2>1, SameHeld DEF IInv, RowsHaveObjects
  <2>4. LastIsCurrent' BY <2>1 DEF IInv, LastIsCurrent, Handed, Last
  <2> QED BY <2>1, <2>2, <2>3, <2>4 DEF IInv, TypeOK, Taken
<1>2. CASE NinetyDaysPass
  <2>1. /\ \A w \in Workers : job[w] = Idle
        /\ aged' = aged \cup Range(docs)
        /\ UNCHANGED <<bucket, used, rows, docs, agreement, deal, job>>
    BY <1>2 DEF NinetyDaysPass
  <2>2. TypeOK' /\ Taken' BY <2>1 DEF IInv, TypeOK, Taken, Range
  <2>3. Jobs'
    <3> SUFFICES ASSUME NEW w \in Workers PROVE JobFacts(w, job[w])' BY DEF Jobs
    <3> QED BY <2>1 DEF JobFacts, Idle, Uploading, Sweeping, Purging
  <2>4. RowsHaveObjects' BY <2>1, SameHeld DEF IInv, RowsHaveObjects
  <2>5. LastIsCurrent' BY <2>1 DEF IInv, LastIsCurrent, Handed, Last, Idle
  <2> QED BY <2>2, <2>3, <2>4, <2>5 DEF IInv
<1> QED BY <1>1, <1>2

LEMMA InitIInv == Init => IInv
<1> SUFFICES ASSUME Init PROVE IInv OBVIOUS
<1>1. \A w \in Workers : job[w] = Idle BY DEF Init
<1>2. \A t \in Tables : Held(t) = {}
  <2> SUFFICES ASSUME NEW t \in Tables PROVE Held(t) = {} OBVIOUS
  <2>1. CASE t = "customer_documents" BY <2>1 DEF Held, Init, Range
  <2>2. CASE t = "agreements" BY <2>2 DEF Held, Init
  <2>3. CASE t \notin {"customer_documents", "agreements"}
    <3>1. t \in PlainTables BY <2>3 DEF Tables, PlainTables
    <3>2. Held(t) = rows[t] BY <2>3 DEF Held
    <3> QED BY <3>1, <3>2 DEF Init
  <2> QED BY <2>1, <2>2, <2>3
<1>3. TypeOK
  <2>1. <<>> \in Seq(used) OBVIOUS
  <2> QED BY <2>1, IdleFacts DEF Init, TypeOK, DealStates
<1>4. Taken /\ Jobs BY <1>1, IdleFacts DEF Taken, Jobs
<1>5. RowsHaveObjects BY <1>2 DEF RowsHaveObjects, Referenced
<1>6. LastIsCurrent BY <1>1, IdleFacts DEF LastIsCurrent, Handed, Decided, Init
<1> QED BY <1>3, <1>4, <1>5, <1>6 DEF IInv

LEMMA ReturnStep ==
  ASSUME IInv, NEW w \in Workers, Return(w),
         UNCHANGED <<bucket, used, rows, docs, agreement, deal, aged>>
  PROVE  IInv'
BY IdleFacts, OnlyJob DEF Return, Purging, IInv, TypeOK

LEMMA SweptInSeq == SweptPrefixes \in Seq(DOMAIN TableOf)
<1>1. DOMAIN TableOf = {"photos", "owner_docs", "customer_docs", "agreements",
                        "intake_photos", "intake_docs"}
  BY DEF TableOf
<1> DEFINE S == DOMAIN TableOf
<1>2. /\ "photos" \in S /\ "owner_docs" \in S /\ "customer_docs" \in S
      /\ "agreements" \in S /\ "intake_photos" \in S /\ "intake_docs" \in S
  BY <1>1
<1> HIDE DEF S
<1>3. SweptPrefixes \in Seq(S) BY <1>2 DEF SweptPrefixes
<1> QED BY <1>3 DEF S

LEMMA BeginSweepStep == ASSUME IInv, NEW w \in Workers, BeginSweep(w) PROVE IInv'
<1> DEFINE j == [Idle EXCEPT !.at = "read", !.tables = Tables, !.prefixes = SweptPrefixes]
<1>2. j \in JobRows /\ j.at = "read" /\ j.tables = Tables
  BY SweptInSeq, IdleFacts DEF JobRows, Steps, Idle
<1>3. JobFacts(w, j)
  BY <1>2 DEF JobFacts, Uploading, Sweeping, Purging, InSight, BeginSweep
<1> HIDE DEF j
<1>4. job' = [job EXCEPT ![w] = j] BY DEF BeginSweep, j
<1> QED BY <1>2, <1>3, <1>4, OnlyJob DEF BeginSweep, Purging, IInv, TypeOK

LEMMA NextIInv == SweepsApart /\ IInv /\ [Next]_vars => IInv'
<1> SUFFICES ASSUME SweepsApart, IInv, [Next]_vars PROVE IInv' OBVIOUS
<1>1. ASSUME NEW w \in Workers, Upload(w) PROVE IInv'
  BY <1>1, BeginUploadStep, PutStep, InsertStep, SubmitStep DEF Upload
<1>2. ASSUME NEW w \in Workers, Sweep(w) PROVE IInv'
  <2>1. ASSUME EndSweep(w) PROVE IInv' BY <2>1, ReturnStep DEF EndSweep
  <2>2. ASSUME NEW p, List(w, p) \/ ListFails(w, p) PROVE IInv'
    <3>1. {f \in bucket : PrefixOf[f] = p} \in SUBSET Files /\ {} \in SUBSET Files
      BY DEF IInv, TypeOK
    <3> QED BY <2>2, <3>1, ListedStep DEF List, ListFails
  <2>3. ASSUME NEW f, Delete(w, f) \/ DeleteFails(w, f) PROVE IInv'
    BY <2>3, DeletedStep DEF Delete, DeleteFails
  <2> QED BY <1>2, <2>1, <2>2, <2>3, BeginSweepStep, ReadTableStep DEF Sweep
<1>3. ASSUME NEW w \in Workers, Purge(w) PROVE IInv'
  BY <1>3, BeginPurgeStep, PurgeObjectStep, PurgeRowStep DEF Purge
<1>4. ASSUME NEW w \in Workers, Crash(w) PROVE IInv'
  BY <1>4, ReturnStep DEF Crash
<1>5. CASE UNCHANGED vars
  <2>1. UNCHANGED <<bucket, used, rows, docs, agreement, deal, aged, job>> BY <1>5 DEF vars
  <2>2. Jobs' BY <2>1, SameHeld DEF IInv, Jobs, JobFacts, InSight
  <2>3. RowsHaveObjects' BY <2>1, SameHeld DEF IInv, RowsHaveObjects
  <2>4. LastIsCurrent' BY <2>1 DEF IInv, LastIsCurrent, Handed, Last
  <2> QED BY <2>1, <2>2, <2>3, <2>4 DEF IInv, TypeOK, Taken
<1> QED BY <1>1, <1>2, <1>3, <1>4, <1>5, ConvertIntakeStep, TimeStep DEF Next

LEMMA Invariance == SweepsApart => (Spec => []IInv)
<1> SUFFICES ASSUME SweepsApart PROVE Spec => []IInv OBVIOUS
<1>1. IInv /\ [Next]_vars => IInv' BY NextIInv
<1> QED BY <1>1, InitIInv, PTL DEF Spec

--------------------------------------------------------------------------------
(* Types need no turns: keys still to be stored or written were taken when *)
(* the upload began.                                                       *)
Writing == {"put", "insert"}
KeysTaken(j, keys) == j.at \in Writing => j.kept \cup j.todo \subseteq keys

Typed == TypeOK /\ \A w \in Workers : KeysTaken(job[w], used)

LEMMA TypedStep ==
  ASSUME Typed, NEW w \in Workers, NEW j \in JobRows, job' = [job EXCEPT ![w] = j],
         used \subseteq used', used' \subseteq Files, KeysTaken(j, used'),
         bucket' \subseteq used', rows' \in [PlainTables -> SUBSET used'],
         docs' \in Seq(used'), aged' \subseteq used', deal' \in DealStates,
         agreement' \in [pdf : used' \cup {Null}, scan : used' \cup {Null}]
  PROVE  Typed'
<1>1. \A v \in Workers : job'[v] = IF v = w THEN j ELSE job[v] BY DEF Typed, TypeOK
<1>2. \A v \in Workers : KeysTaken(job[v], used)' BY <1>1 DEF Typed, KeysTaken
<1> QED BY <1>2 DEF Typed, TypeOK

(* A step that leaves the tables alone.                                    *)
LEMMA TypedLook ==
  ASSUME Typed, NEW w \in Workers, NEW j \in JobRows, job' = [job EXCEPT ![w] = j],
         used \subseteq used', used' \subseteq Files, KeysTaken(j, used'),
         bucket' \subseteq bucket, UNCHANGED <<rows, docs, agreement, deal, aged>>
  PROVE  Typed'
<1>1. docs' \in Seq(used') BY SeqGrows DEF Typed, TypeOK
<1>2. /\ rows' \in [PlainTables -> SUBSET used'] /\ bucket' \subseteq used'
      /\ agreement' \in [pdf : used' \cup {Null}, scan : used' \cup {Null}]
      /\ aged' \subseteq used' /\ deal' \in DealStates
  BY DEF Typed, TypeOK
<1> QED BY <1>1, <1>2, TypedStep

LEMMA TypedUpload == ASSUME Typed, NEW w \in Workers, Upload(w) PROVE Typed'
<1> DEFINE k == job[w]
<1>0. k \in JobRows /\ KeysTaken(k, used) BY DEF Typed, TypeOK
<1>1. ASSUME NEW files \in SUBSET Files, BeginUpload(w, files) PROVE Typed'
  <2>1. PICK t \in Tables \cap Duties[w] : \E into \in Into(t) :
           job' = [job EXCEPT ![w] = [Idle EXCEPT !.at = "put", !.into = into, !.todo = files]]
    BY <1>1 DEF BeginUpload
  <2>2. PICK into \in Into(t) :
           job' = [job EXCEPT ![w] = [Idle EXCEPT !.at = "put", !.into = into, !.todo = files]]
    BY <2>1
  <2> DEFINE j == [Idle EXCEPT !.at = "put", !.into = into, !.todo = files]
  <2>3. j \in JobRows /\ j.todo = files /\ j.kept = {}
    <3>1. into \in Tables \cup {"pdf", "scan"} BY DEF Into
    <3> QED BY <3>1, IdleFacts DEF JobRows, Steps, Idle
  <2> HIDE DEF j
  <2>4. /\ used' = used \cup files
        /\ UNCHANGED <<bucket, rows, docs, agreement, deal, aged>>
    BY <1>1 DEF BeginUpload
  <2>5. KeysTaken(j, used') BY <2>3, <2>4 DEF KeysTaken
  <2>6. used' \subseteq Files BY <2>4 DEF Typed, TypeOK
  <2>7. job' = [job EXCEPT ![w] = j] BY <2>2 DEF j
  <2> QED BY <2>3, <2>4, <2>5, <2>6, <2>7, TypedLook
<1>2. ASSUME NEW f \in Files, Put(w, f) PROVE Typed'
  <2> DEFINE j == [k EXCEPT !.todo = @ \ {f}, !.kept = @ \cup {f},
                            !.at = IF k.todo = {f} THEN "insert" ELSE "put"]
  <2>1. k.at = "put" /\ f \in k.todo /\ job' = [job EXCEPT ![w] = j]
    BY <1>0, <1>2 DEF Put, Typed, TypeOK, JobRows
  <2>2. j \in JobRows /\ j.todo = k.todo \ {f} /\ j.kept = k.kept \cup {f}
    BY <1>0 DEF JobRows, Steps
  <2> HIDE DEF j
  <2>3. bucket' = bucket \cup {f} /\ UNCHANGED <<used, rows, docs, agreement, deal, aged>>
    BY <1>2 DEF Put
  <2>4. k.kept \cup k.todo \subseteq used BY <1>0, <2>1 DEF KeysTaken, Writing
  <2>5. KeysTaken(j, used') BY <2>1, <2>2, <2>3, <2>4 DEF KeysTaken
  <2> QED BY <2>1, <2>2, <2>3, <2>4, <2>5, TypedStep DEF Typed, TypeOK
<1>3. ASSUME Insert(w) PROVE Typed'
  <2>1. k.at = "insert" /\ UNCHANGED <<bucket, used, deal, aged>> BY <1>3 DEF Insert
  <2>2. k.kept \subseteq used BY <1>0, <2>1 DEF KeysTaken, Writing
  <2>3. rows' = [t \in PlainTables |-> IF t = k.into THEN rows[t] \cup k.kept ELSE rows[t]]
    BY <1>3 DEF Insert
  <2>4. PICK f \in k.kept :
          /\ docs' = IF k.into = "customer_documents" THEN Append(docs, f) ELSE docs
          /\ agreement' = CASE k.into = "pdf" -> [pdf |-> f, scan |-> Null]
                            [] k.into = "scan" -> [agreement EXCEPT !.scan = f]
                            [] OTHER -> agreement
    BY <1>3 DEF Insert
  <2>5. PICK j \in {Idle, [k EXCEPT !.at = "submit"]} : job' = [job EXCEPT ![w] = j]
    BY <1>3 DEF Insert, Return, Typed, TypeOK
  <2>6. j \in JobRows /\ KeysTaken(j, used')
    <3>1. /\ [k EXCEPT !.at = "submit"] \in JobRows
          /\ [k EXCEPT !.at = "submit"].at = "submit"
      BY <1>0 DEF JobRows, Steps
    <3> QED BY <2>5, <3>1, IdleFacts DEF KeysTaken, Writing
  <2> HIDE DEF k
  <2>7. rows' \in [PlainTables -> SUBSET used'] BY <2>1, <2>2, <2>3 DEF Typed, TypeOK
  <2>8. docs \in Seq(used) /\ f \in used /\ used' = used BY <2>1, <2>2, <2>4 DEF Typed, TypeOK
  <2>9. docs' \in Seq(used') BY <2>4, <2>8
  <2>10. agreement' \in [pdf : used' \cup {Null}, scan : used' \cup {Null}]
    <3>1. agreement \in [pdf : used \cup {Null}, scan : used \cup {Null}] BY DEF Typed, TypeOK
    <3> QED BY <2>4, <2>8, <3>1
  <2> QED BY <2>1, <2>5, <2>6, <2>7, <2>9, <2>10, TypedStep DEF Typed, TypeOK
<1>4. ASSUME Submit(w) PROVE Typed'
  <2>1. /\ deal' \in DealStates /\ job' = [job EXCEPT ![w] = Idle]
        /\ UNCHANGED <<bucket, used, rows, docs, agreement, aged>>
    BY <1>4 DEF Submit, Return, Typed, TypeOK, DealStates
  <2>2. KeysTaken(Idle, used') BY IdleFacts DEF KeysTaken, Writing
  <2> QED BY <2>1, <2>2, IdleFacts, TypedStep DEF Typed, TypeOK
<1> QED BY <1>1, <1>2, <1>3, <1>4 DEF Upload

LEMMA TypedReturn ==
  ASSUME Typed, NEW w \in Workers, Return(w),
         UNCHANGED <<bucket, used, rows, docs, agreement, deal, aged>>
  PROVE  Typed'
<1>1. KeysTaken(Idle, used') BY IdleFacts DEF KeysTaken, Writing
<1> QED BY <1>1, IdleFacts, TypedLook DEF Return, Typed, TypeOK

LEMMA TypedSweep == ASSUME Typed, NEW w \in Workers, Sweep(w) PROVE Typed'
<1> DEFINE k == job[w]
<1>0. k \in JobRows BY DEF Typed, TypeOK
<1>1. ASSUME NEW j \in JobRows, job' = [job EXCEPT ![w] = j], j.at \notin Writing,
             bucket' \subseteq bucket, UNCHANGED <<used, rows, docs, agreement, deal, aged>>
      PROVE  Typed'
  <2>1. KeysTaken(j, used') BY <1>1 DEF KeysTaken
  <2> QED BY <1>1, <2>1, TypedLook DEF Typed, TypeOK
<1>2. ASSUME BeginSweep(w) PROVE Typed'
  <2> DEFINE j == [Idle EXCEPT !.at = "read", !.tables = Tables, !.prefixes = SweptPrefixes]
  <2>1. j \in JobRows /\ j.at = "read"
    BY SweptInSeq, IdleFacts DEF JobRows, Steps, Idle
  <2> HIDE DEF j
  <2>2. job' = [job EXCEPT ![w] = j] BY <1>2 DEF BeginSweep, j
  <2> QED BY <1>1, <1>2, <2>1, <2>2 DEF BeginSweep, Writing
<1>3. ASSUME EndSweep(w) PROVE Typed' BY <1>3, TypedReturn DEF EndSweep
<1>4. ASSUME NEW t \in Tables, ReadTable(w, t) PROVE Typed'
  <2> DEFINE j == [k EXCEPT !.kept = @ \cup Held(t), !.tables = @ \ {t},
                            !.at = IF k.tables = {t} THEN "list" ELSE "read"]
  <2>1. job' = [job EXCEPT ![w] = j] BY <1>0, <1>4 DEF ReadTable, Typed, TypeOK, JobRows
  <2>2. j \in JobRows /\ j.at \in {"list", "read"}
    BY <1>0, HeldAreFiles DEF JobRows, Steps, Typed
  <2> HIDE DEF j
  <2> QED BY <1>1, <1>4, <2>1, <2>2 DEF ReadTable, Writing
<1>5. ASSUME NEW p, NEW keys \in SUBSET Files, Listed(w, p, keys) PROVE Typed'
  <2> DEFINE j == [k EXCEPT !.prefixes = Tail(@), !.todo = keys \ k.kept,
                            !.at = IF keys \subseteq k.kept THEN "list" ELSE "delete"]
  <2>1. job' = [job EXCEPT ![w] = j] /\ k.prefixes # <<>>
    BY <1>0, <1>5 DEF Listed, Typed, TypeOK, JobRows
  <2>2. Tail(k.prefixes) \in Seq(DOMAIN TableOf)
    <3>1. k.prefixes \in Seq(DOMAIN TableOf) BY <1>0 DEF JobRows
    <3> QED BY <2>1, <3>1, TailInSeq
  <2>3. j \in JobRows /\ j.at \in {"list", "delete"} BY <1>0, <2>2 DEF JobRows, Steps
  <2> HIDE DEF j
  <2> QED BY <1>1, <1>5, <2>1, <2>3 DEF Listed, Writing
<1>6. ASSUME NEW f, Deleted(w, f), bucket' \subseteq bucket PROVE Typed'
  <2> DEFINE j == [k EXCEPT !.todo = @ \ {f}, !.at = IF k.todo = {f} THEN "list" ELSE "delete"]
  <2>1. job' = [job EXCEPT ![w] = j] BY <1>0, <1>6 DEF Deleted, Typed, TypeOK, JobRows
  <2>2. j \in JobRows /\ j.at \in {"list", "delete"} BY <1>0 DEF JobRows, Steps
  <2> HIDE DEF j
  <2> QED BY <1>1, <1>6, <2>1, <2>2 DEF Deleted, Writing
<1>7. ASSUME NEW p, List(w, p) \/ ListFails(w, p) PROVE Typed'
  <2>1. {f \in bucket : PrefixOf[f] = p} \in SUBSET Files /\ {} \in SUBSET Files
    BY DEF Typed, TypeOK
  <2> QED BY <1>5, <1>7, <2>1 DEF List, ListFails
<1> QED BY <1>2, <1>3, <1>4, <1>6, <1>7 DEF Sweep, Delete, DeleteFails

LEMMA TypedPurge == ASSUME Typed, NEW w \in Workers, Purge(w) PROVE Typed'
<1> DEFINE k == job[w]
<1>0. k \in JobRows /\ docs \in Seq(used) BY DEF Typed, TypeOK
<1>1. ASSUME BeginPurge(w) PROVE Typed'
  <2> DEFINE batch == IF deal \in PurgeDealStates THEN Range(docs) \cap aged ELSE {}
             j == [Idle EXCEPT !.at = "purge_object", !.todo = batch]
  <2>1. j \in JobRows /\ j.at = "purge_object"
    BY IdleFacts DEF JobRows, Steps, Idle, Typed, TypeOK
  <2>2. job' = [job EXCEPT ![w] = j] BY <1>1 DEF BeginPurge
  <2> HIDE DEF j
  <2>3. KeysTaken(j, used') BY <2>1 DEF KeysTaken, Writing
  <2> QED BY <1>1, <2>1, <2>2, <2>3, TypedLook DEF BeginPurge, Typed, TypeOK
<1>2. ASSUME NEW f \in Files, PurgeObject(w, f) PROVE Typed'
  <2> DEFINE j == [k EXCEPT !.at = "purge_row", !.kept = {f}, !.todo = @ \ {f}]
  <2>1. job' = [job EXCEPT ![w] = j]
    BY <1>0, <1>2 DEF PurgeObject, Typed, TypeOK, JobRows
  <2>2. j \in JobRows /\ j.at = "purge_row" BY <1>0 DEF JobRows, Steps
  <2> HIDE DEF j
  <2>3. KeysTaken(j, used') BY <2>2 DEF KeysTaken, Writing
  <2>4. bucket' \subseteq bucket /\ UNCHANGED <<used, rows, docs, agreement, deal, aged>>
    BY <1>2 DEF PurgeObject
  <2> QED BY <2>1, <2>2, <2>3, <2>4, TypedLook DEF Typed, TypeOK
<1>3. ASSUME PurgeRow(w) PROVE Typed'
  <2> DEFINE found == {i \in DOMAIN docs : docs[i] \in k.kept}
             j == IF k.todo = {} \/ found = {} THEN Idle ELSE [k EXCEPT !.at = "purge_object"]
  <2>1. /\ job' = [job EXCEPT ![w] = j]
        /\ UNCHANGED <<bucket, used, rows, agreement, deal, aged>>
        /\ IF found = {} THEN docs' = docs ELSE \E i \in found : docs' = RemoveAt(docs, i)
    BY <1>3 DEF PurgeRow
  <2>2. j \in JobRows /\ j.at \in {"idle", "purge_object"}
    BY <1>0, IdleFacts DEF JobRows, Steps
  <2> HIDE DEF j
  <2>3. docs' \in Seq(used) BY <1>0, <2>1, RemovedAt
  <2>4. KeysTaken(j, used') BY <2>2 DEF KeysTaken, Writing
  <2> QED BY <2>1, <2>2, <2>3, <2>4, TypedStep DEF Typed, TypeOK
<1> QED BY <1>1, <1>2, <1>3 DEF Purge

LEMMA NextTyped == Typed /\ [Next]_vars => Typed'
<1> SUFFICES ASSUME Typed, [Next]_vars PROVE Typed' OBVIOUS
<1>1. ASSUME NEW w \in Workers, Crash(w) PROVE Typed' BY <1>1, TypedReturn DEF Crash
<1>2. ASSUME job' = job, used' = used, bucket' = bucket, docs' = docs, agreement' = agreement,
             rows' \in [PlainTables -> SUBSET used], deal' \in DealStates, aged' \subseteq used
      PROVE  Typed'
  BY <1>2 DEF Typed, TypeOK, KeysTaken
<1>3. ASSUME NEW f \in Files, ConvertIntake(f) PROVE Typed'
  <2>1. rows' \in [PlainTables -> SUBSET used]
    BY <1>3 DEF ConvertIntake, PlainTables, Typed, TypeOK
  <2> QED BY <1>2, <1>3, <2>1 DEF ConvertIntake, Typed, TypeOK
<1>4. CASE Advance BY <1>2, <1>4 DEF Advance, Typed, TypeOK
<1>5. CASE NinetyDaysPass BY <1>2, <1>5 DEF NinetyDaysPass, Range, Typed, TypeOK
<1>6. CASE UNCHANGED vars BY <1>2, <1>6 DEF vars, Typed, TypeOK
<1> QED BY <1>1, <1>3, <1>4, <1>5, <1>6, TypedUpload, TypedSweep, TypedPurge DEF Next

(* Every variable keeps its type, whatever overlaps and fails: what is     *)
(* stored and referred to was taken as a key before.                       *)
THEOREM TypeCorrect == Spec => []TypeOK
<1>1. Init => Typed
  <2>1. Init => TypeOK BY InitIInv DEF IInv
  <2> QED BY <2>1, IdleFacts DEF Init, Typed, KeysTaken, Writing
<1>2. Typed /\ [Next]_vars => Typed' BY NextTyped
<1>3. Typed => TypeOK BY DEF Typed
<1> QED BY <1>1, <1>2, <1>3, PTL DEF Spec

--------------------------------------------------------------------------------
(* Every row of every table refers to objects that are in the bucket,      *)
(* unless the purge has had time to take them, however uploads, purges and *)
(* conversions overlap and wherever they are cut short.                    *)
THEOREM RowsKeepTheirObjects == SweepsApart => (Spec => []RowsHaveObjects)
<1> SUFFICES ASSUME SweepsApart PROVE Spec => []RowsHaveObjects OBVIOUS
<1>1. IInv => RowsHaveObjects BY DEF IInv
<1>2. Spec => []IInv BY Invariance
<1> QED BY <1>1, <1>2, PTL

(* A deal in review, approved or closed has the document it is about: the  *)
(* purge takes old documents of dead deals only, and one captured again    *)
(* since is not old.                                                       *)
THEOREM ReviewsHaveTheirDocument == SweepsApart => (Spec => []ReviewHasDocument)
<1> SUFFICES ASSUME SweepsApart PROVE Spec => []ReviewHasDocument OBVIOUS
<1>1. IInv => ReviewHasDocument
  BY DEF IInv, LastIsCurrent, Handed, Decided, ReviewHasDocument
<1>2. Spec => []IInv BY Invariance
<1> QED BY <1>1, <1>2, PTL

(* No delete of the sweep takes an object that a row refers to.            *)
THEOREM SweepSparesReferenced == SweepsApart => (Spec => SweptUnreferenced)
<1> SUFFICES ASSUME SweepsApart PROVE Spec => SweptUnreferenced OBVIOUS
<1>1. IInv /\ [Next]_vars =>
        [\A w \in Workers, f \in Files : Delete(w, f) => f \notin Referenced]_vars
  BY DeletedIsUnreferenced DEF Delete
<1>2. Spec => []IInv BY Invariance
<1> QED BY <1>1, <1>2, PTL DEF Spec, SweptUnreferenced
=============================================================================
