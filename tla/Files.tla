--------------------------------- MODULE Files ---------------------------------
(***************************************************************************)
(* The bucket and the rows that refer to it.  Every upload stores its      *)
(* objects first and writes its row afterwards; the weekly sweep deletes   *)
(* the objects no row refers to and the nightly purge the documents of     *)
(* deals that came to nothing.  One deal stands for all; of a file the key *)
(* is known, of a key its prefix.                                          *)
(***************************************************************************)
EXTENDS GuriTables, Sequences, SequencesExt

CONSTANTS Files, PrefixOf, Null,
          Workers, Duties,
          Faults    \* of "crash" (any call is cut short), "crash_upload" (an
                    \* upload is) and "storage" (a list or a delete fails,
                    \* and the code goes on)

Tables == {"listings", "owner_documents", "customer_documents", "agreements", "intakes"}

TableOf ==
  [photos |-> "listings", owner_docs |-> "owner_documents",
   customer_docs |-> "customer_documents", agreements |-> "agreements",
   intake_photos |-> "intakes", intake_docs |-> "intakes"]

SweptPrefixes ==
  <<"photos", "owner_docs", "customer_docs", "agreements", "intake_photos", "intake_docs">>

ASSUME FilesAssumption ==
  /\ PrefixOf \in [Files -> DOMAIN TableOf] /\ Null \notin Files
  /\ Duties \in [Workers -> SUBSET ({"sweep", "purge"} \cup Tables)]
  /\ Faults \subseteq {"crash", "crash_upload", "storage"}

VARIABLES
  bucket,     \* the objects there are
  used,       \* keys taken so far; a key is a fresh uuid
  rows,       \* keys in listings, owner_documents and intakes
  docs,       \* the deal's customer_documents, oldest first
  agreement,  \* its agreement row
  deal,       \* its state
  aged,       \* documents older than the retention period
  job

vars == <<bucket, used, rows, docs, agreement, deal, aged, job>>

PlainTables == {"listings", "owner_documents", "intakes"}

Held(t) ==
  CASE t = "customer_documents" -> Range(docs)
    [] t = "agreements" -> {agreement.pdf, agreement.scan} \ {Null}
    [] OTHER -> rows[t]

Referenced == UNION {Held(t) : t \in Tables}

Steps == {"put", "insert", "submit", "read", "list", "delete", "purge_object", "purge_row"}

(* todo: objects still to be stored, keys still to be looked at, documents *)
(* still to be purged.  kept: the keys an upload writes, or the ones the   *)
(* sweep found referenced.                                                 *)
JobRows == [at : Steps \cup {"idle"}, into : Tables \cup {"pdf", "scan", "none"},
            todo : SUBSET Files, kept : SUBSET Files,
            tables : SUBSET Tables, prefixes : Seq(DOMAIN TableOf)]

Idle == [at |-> "idle", into |-> "none", todo |-> {}, kept |-> {},
         tables |-> {}, prefixes |-> <<>>]

TypeOK ==
  /\ used \subseteq Files /\ bucket \subseteq used
  /\ rows \in [PlainTables -> SUBSET used]
  /\ docs \in Seq(used) /\ aged \subseteq used
  /\ agreement \in [pdf : used \cup {Null}, scan : used \cup {Null}]
  /\ deal \in DealStates
  /\ job \in [Workers -> JobRows]

Init ==
  /\ bucket = {} /\ used = {} /\ aged = {} /\ docs = <<>>
  /\ rows = [t \in PlainTables |-> {}]
  /\ agreement = [pdf |-> Null, scan |-> Null]
  /\ deal = "awaiting_docs"
  /\ job = [w \in Workers |-> Idle]

Return(w) == job' = [job EXCEPT ![w] = Idle]

--------------------------------------------------------------------------------
(* UPLOADS                                                                 *)

(* What the handlers ask for before they store anything.                   *)
Admits(into) ==
  CASE into = "customer_documents" -> deal \in {"awaiting_docs", "docs_rejected"}
    [] into = "pdf" -> deal = "approved"
    [] into = "scan" -> agreement.pdf # Null
    [] OTHER -> TRUE

Into(table) == IF table = "agreements" THEN {"pdf", "scan"} ELSE {table}

BeginUpload(w, files) ==
  /\ job[w] = Idle /\ files # {} /\ files \cap used = {}
  /\ \E t \in Tables \cap Duties[w] : \E into \in Into(t) :
        /\ \A f \in files : TableOf[PrefixOf[f]] = t
        /\ t \notin {"listings", "intakes"} => \A f, g \in files : f = g
        /\ Admits(into)
        /\ job' = [job EXCEPT ![w] = [Idle EXCEPT !.at = "put", !.into = into, !.todo = files]]
  /\ used' = used \cup files
  /\ UNCHANGED <<bucket, rows, docs, agreement, deal, aged>>

Put(w, f) ==
  /\ job[w].at = "put" /\ f \in job[w].todo
  /\ bucket' = bucket \cup {f}
  /\ job' = [job EXCEPT ![w].todo = @ \ {f}, ![w].kept = @ \cup {f},
                        ![w].at = IF job[w].todo = {f} THEN "insert" ELSE "put"]
  /\ UNCHANGED <<used, rows, docs, agreement, deal, aged>>

(* A new agreement takes the place of the old one and of its scan.         *)
Insert(w) ==
  LET j == job[w] IN
  /\ j.at = "insert"
  /\ rows' = [t \in PlainTables |-> IF t = j.into THEN rows[t] \cup j.kept ELSE rows[t]]
  /\ \E f \in j.kept :
        /\ docs' = IF j.into = "customer_documents" THEN Append(docs, f) ELSE docs
        /\ agreement' = CASE j.into = "pdf" -> [pdf |-> f, scan |-> Null]
                          [] j.into = "scan" -> [agreement EXCEPT !.scan = f]
                          [] OTHER -> agreement
  /\ IF j.into = "customer_documents"
     THEN job' = [job EXCEPT ![w].at = "submit"] ELSE Return(w)
  /\ UNCHANGED <<bucket, used, deal, aged>>

(* The document in place, the deal moves on; if it may no longer, the call *)
(* fails and the document stays.                                           *)
Submit(w) ==
  /\ job[w].at = "submit"
  /\ deal' = IF deal \in {"awaiting_docs", "docs_rejected"} THEN "docs_in_review" ELSE deal
  /\ Return(w)
  /\ UNCHANGED <<bucket, used, rows, docs, agreement, aged>>

(* convert() gives the new listing the photo keys of its intake.           *)
ConvertIntake(f) ==
  /\ f \in rows["intakes"] \ rows["listings"] /\ PrefixOf[f] = "intake_photos"
  /\ rows' = [rows EXCEPT !["listings"] = @ \cup {f}]
  /\ UNCHANGED <<bucket, used, docs, agreement, deal, aged, job>>

--------------------------------------------------------------------------------
(* THE WEEKLY SWEEP                                                        *)

BeginSweep(w) ==
  /\ job[w] = Idle /\ "sweep" \in Duties[w]
  /\ job' = [job EXCEPT ![w] = [Idle EXCEPT !.at = "read", !.tables = Tables,
                                            !.prefixes = SweptPrefixes]]
  /\ UNCHANGED <<bucket, used, rows, docs, agreement, deal, aged>>

(* Mutant: the intakes are read for the photos that became a listing's.    *)
ReadTable_ListedOnly(w, t) ==
  /\ job[w].at = "read" /\ t \in job[w].tables
  /\ job' = [job EXCEPT ![w].kept = @ \cup (IF t = "intakes" THEN rows["listings"] ELSE Held(t)),
                        ![w].tables = @ \ {t},
                        ![w].at = IF job[w].tables = {t} THEN "list" ELSE "read"]
  /\ UNCHANGED <<bucket, used, rows, docs, agreement, deal, aged>>

(* The five queries run side by side, each sees its table at a moment of   *)
(* its own.                                                                *)
ReadTable(w, t) ==
  /\ job[w].at = "read" /\ t \in job[w].tables
  /\ job' = [job EXCEPT ![w].kept = @ \cup Held(t), ![w].tables = @ \ {t},
                        ![w].at = IF job[w].tables = {t} THEN "list" ELSE "read"]
  /\ UNCHANGED <<bucket, used, rows, docs, agreement, deal, aged>>

Listed(w, p, keys) ==
  /\ job[w].at = "list" /\ job[w].prefixes # <<>> /\ p = Head(job[w].prefixes)
  /\ job' = [job EXCEPT ![w].prefixes = Tail(@), ![w].todo = keys \ job[w].kept,
                        ![w].at = IF keys \subseteq job[w].kept THEN "list" ELSE "delete"]
  /\ UNCHANGED <<bucket, used, rows, docs, agreement, deal, aged>>

List(w, p) == Listed(w, p, {f \in bucket : PrefixOf[f] = p})

ListFails(w, p) == "storage" \in Faults /\ Listed(w, p, {})

Deleted(w, f) ==
  /\ job[w].at = "delete" /\ f \in job[w].todo
  /\ job' = [job EXCEPT ![w].todo = @ \ {f},
                        ![w].at = IF job[w].todo = {f} THEN "list" ELSE "delete"]
  /\ UNCHANGED <<used, rows, docs, agreement, deal, aged>>

Delete(w, f) == Deleted(w, f) /\ bucket' = bucket \ {f}

DeleteFails(w, f) == "storage" \in Faults /\ Deleted(w, f) /\ bucket' = bucket

EndSweep(w) ==
  /\ job[w].at = "list" /\ job[w].prefixes = <<>>
  /\ Return(w)
  /\ UNCHANGED <<bucket, used, rows, docs, agreement, deal, aged>>

--------------------------------------------------------------------------------
(* THE NIGHTLY PURGE                                                       *)

(* Mutant: whatever is not closed is purged.                               *)
BeginPurge_NotClosed(w) ==
  LET batch == IF deal # "closed" THEN Range(docs) \cap aged ELSE {} IN
  /\ job[w] = Idle /\ "purge" \in Duties[w] /\ batch # {}
  /\ job' = [job EXCEPT ![w] = [Idle EXCEPT !.at = "purge_object", !.todo = batch]]
  /\ UNCHANGED <<bucket, used, rows, docs, agreement, deal, aged>>

BeginPurge(w) ==
  LET batch == IF deal \in PurgeDealStates THEN Range(docs) \cap aged ELSE {} IN
  /\ job[w] = Idle /\ "purge" \in Duties[w] /\ batch # {}
  /\ job' = [job EXCEPT ![w] = [Idle EXCEPT !.at = "purge_object", !.todo = batch]]
  /\ UNCHANGED <<bucket, used, rows, docs, agreement, deal, aged>>

PurgeObject(w, f) ==
  /\ job[w].at = "purge_object" /\ f \in job[w].todo
  /\ \/ bucket' = bucket \ {f}
     \/ "storage" \in Faults /\ bucket' = bucket
  /\ job' = [job EXCEPT ![w].at = "purge_row", ![w].kept = {f}, ![w].todo = @ \ {f}]
  /\ UNCHANGED <<used, rows, docs, agreement, deal, aged>>

(* Deleting a row that has gone throws, and the rest of the batch waits    *)
(* for the next night.                                                     *)
PurgeRow(w) ==
  LET j == job[w]
      found == {i \in DOMAIN docs : docs[i] \in j.kept}
  IN
  /\ j.at = "purge_row"
  /\ IF found = {} THEN docs' = docs ELSE \E i \in found : docs' = RemoveAt(docs, i)
  /\ job' = [job EXCEPT ![w] = IF j.todo = {} \/ found = {} THEN Idle
                               ELSE [j EXCEPT !.at = "purge_object"]]
  /\ UNCHANGED <<bucket, used, rows, agreement, deal, aged>>

--------------------------------------------------------------------------------
Crash(w) ==
  /\ \/ "crash" \in Faults /\ job[w] # Idle
     \/ "crash_upload" \in Faults /\ job[w].at \in {"put", "insert", "submit"}
  /\ Return(w)
  /\ UNCHANGED <<bucket, used, rows, docs, agreement, deal, aged>>

(* Everything else that happens to the deal, and ninety days, which no     *)
(* call takes.                                                             *)
Advance ==
  /\ \E action \in {t[2] : t \in DealTransitions} \ {"submit_documents", "resubmit_documents"},
        to \in DealStates :
        /\ <<deal, action, to>> \in DealTransitions
        /\ deal' = to
  /\ UNCHANGED <<bucket, used, rows, docs, agreement, aged, job>>

NinetyDaysPass ==
  /\ \A w \in Workers : job[w] = Idle
  /\ aged' = aged \cup Range(docs) /\ aged' # aged
  /\ UNCHANGED <<bucket, used, rows, docs, agreement, deal, job>>

Upload(w) ==
  \/ \E files \in SUBSET Files : BeginUpload(w, files)
  \/ \E f \in Files : Put(w, f)
  \/ Insert(w) \/ Submit(w)

Sweep(w) ==
  \/ BeginSweep(w) \/ EndSweep(w)
  \/ \E t \in Tables : ReadTable(w, t)
  \/ \E p \in DOMAIN TableOf : List(w, p) \/ ListFails(w, p)
  \/ \E f \in Files : Delete(w, f) \/ DeleteFails(w, f)

Purge(w) ==
  \/ BeginPurge(w) \/ PurgeRow(w)
  \/ \E f \in Files : PurgeObject(w, f)

Next ==
  \/ \E w \in Workers : Upload(w) \/ Sweep(w) \/ Purge(w) \/ Crash(w)
  \/ \E f \in Files : ConvertIntake(f)
  \/ Advance \/ NinetyDaysPass

Spec == Init /\ [][Next]_vars

(* The week comes round, the sweep goes on (one cut short every week would *)
(* never get through), and no list or delete fails every time.             *)
FairSpec ==
  /\ Spec
  /\ \A w \in Workers :
        /\ SF_vars(BeginSweep(w)) /\ WF_vars(Sweep(w)) /\ WF_vars(Upload(w)) /\ WF_vars(Purge(w))
        /\ \A p \in DOMAIN TableOf : SF_vars(List(w, p))
        /\ \A f \in Files : SF_vars(Delete(w, f))

--------------------------------------------------------------------------------
(* PROPERTIES                                                              *)

(* A row's object is there, unless it is a document old enough for the     *)
(* purge to have begun with.                                               *)
RowsHaveObjects == Referenced \ aged \subseteq bucket

(* jobs.service.ts:284: the sweep deletes bucket objects no row refers to. *)
SweptUnreferenced ==
  [][\A w \in Workers, f \in Files : Delete(w, f) => f \notin Referenced]_vars

(* A deal in review, approved or closed has the document it is about,      *)
(* however purges, sweeps in turn and re-captures follow each other.       *)
ReviewHasDocument ==
  deal \in {"docs_in_review", "approved", "closed"} =>
     docs # <<>> /\ Last(docs) \in bucket

(* Nothing leaks: an object no row and no upload in flight knows of, left  *)
(* by an upload that was cut short or an agreement that was replaced, goes *)
(* some week.                                                              *)
Orphan(f) ==
  /\ f \in bucket \ Referenced
  /\ \A w \in Workers : f \notin job[w].kept \cup job[w].todo

OrphansGo == \A f \in Files : Orphan(f) ~> f \notin bucket
================================================================================
