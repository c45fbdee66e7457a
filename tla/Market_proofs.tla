------------------------------ MODULE Market_proofs ------------------------------
(***************************************************************************)
(* Theorems about the market, for any number of listings, images, workers, *)
(* applications, agencies and admins: the listing editor, the founding of  *)
(* agencies, that the market they are put together in does to each of them *)
(* only what it does alone, the shopper's list and the pages of the market *)
(* on top of it; and, for any payments, the figures of the books.          *)
(***************************************************************************)
EXTENDS Consoles, Books, SequenceTheorems, FiniteSetTheorems, TLAPS

--------------------------------------------------------------------------------
(* THE LISTING EDITOR.  The thumbnails of a hand-made draft match its      *)
(* photos because both arrays are only ever extended by the same keys in   *)
(* one write.                                                              *)

LEMMA UploadsAreSequences ==
  ASSUME NEW limit \in Nat, owned \subseteq Images, NEW keys \in Uploads(limit)
  PROVE  keys \in Seq(Images) /\ Range(keys) \subseteq Images
<1>1. PICK n \in 1 .. limit : keys \in [1 .. n -> Images \ owned] BY DEF Uploads
<1>2. n \in Nat /\ keys \in [1 .. n -> Images] BY <1>1
<1>3. keys \in Seq(Images) BY <1>2
<1>4. Range(keys) \subseteq Images BY <1>2 DEF Range
<1> QED BY <1>3, <1>4

(* A call in flight is about a listing that is there.                      *)
JobsScoped == \A w \in Workers : job[w] # Idle => job[w].listing \in exists

EditorIInv == TypeOK /\ JobsScoped /\ ThumbsComplete

LEMMA EditorInitIInv == Init => EditorIInv
<1>1. <<>> \in Seq(Images) OBVIOUS
<1> QED BY <1>1, ListingsAssumption DEF Init, EditorIInv, TypeOK, JobsScoped, ThumbsComplete, JobRows, Idle

(* The two ways a listing comes to have photos.                            *)
LEMMA ConvertDraftKeeps == ASSUME EditorIInv, NEW l \in Listings, ConvertDraft(l) PROVE EditorIInv'
<1>1. PICK keys \in Uploads(MAX_PHOTOS) :
         photos' = [photos EXCEPT ![l] = keys] /\ owned' = owned \cup Range(keys)
  BY DEF ConvertDraft
<1>2. keys \in Seq(Images) /\ Range(keys) \subseteq Images
  BY <1>1, UploadsAreSequences, ListingsAssumption DEF EditorIInv, TypeOK
<1>3. TypeOK'
  BY <1>1, <1>2 DEF EditorIInv, TypeOK, ConvertDraft
<1>4. JobsScoped' /\ ThumbsComplete'
  BY <1>1 DEF EditorIInv, TypeOK, JobsScoped, ThumbsComplete, ConvertDraft
<1> QED BY <1>3, <1>4 DEF EditorIInv

LEMMA PushKeeps == ASSUME EditorIInv, NEW w \in Workers, Push(w) PROVE EditorIInv'
<1> DEFINE l == job[w].listing  keys == job[w].keys
<1>1. job[w] \in JobRows /\ job[w].at = "push"
  BY DEF EditorIInv, TypeOK, Push
<1>2. l \in Listings /\ keys \in Seq(Images)
  BY <1>1 DEF JobRows, Idle
<1>3. /\ photos' = [photos EXCEPT ![l] = photos[l] \o keys]
      /\ thumbs' = [thumbs EXCEPT ![l] = thumbs[l] \o keys]
      /\ job' = [job EXCEPT ![w] = Idle]
      /\ UNCHANGED <<exists, verified, published, owned>>
  BY DEF Push
<1> HIDE DEF l, keys
<1>4. photos[l] \o keys \in Seq(Images) /\ thumbs[l] \o keys \in Seq(Images)
  BY <1>2 DEF EditorIInv, TypeOK
<1>5. Idle \in JobRows BY DEF JobRows
<1>6. TypeOK'
  BY <1>2, <1>3, <1>4, <1>5 DEF EditorIInv, TypeOK
<1>7. JobsScoped' /\ ThumbsComplete'
  BY <1>2, <1>3 DEF EditorIInv, TypeOK, JobsScoped, ThumbsComplete
<1> QED BY <1>6, <1>7 DEF EditorIInv

LEMMA BeginAddKeeps ==
  ASSUME EditorIInv, NEW w \in Workers, NEW l \in Listings, BeginAdd(w, l) PROVE EditorIInv'
<1>1. PICK keys \in Uploads(MAX_PHOTOS) :
         /\ job' = [job EXCEPT ![w] = [at |-> "push", listing |-> l, keys |-> keys]]
         /\ owned' = owned \cup Range(keys)
  BY DEF BeginAdd
<1>2. keys \in Seq(Images) /\ Range(keys) \subseteq Images
  BY <1>1, UploadsAreSequences, ListingsAssumption DEF EditorIInv, TypeOK
<1>3. [at |-> "push", listing |-> l, keys |-> keys] \in JobRows
  BY <1>2 DEF JobRows
<1>4. TypeOK'
  BY <1>1, <1>2, <1>3 DEF EditorIInv, TypeOK, BeginAdd
<1>5. JobsScoped'
  BY <1>1 DEF EditorIInv, TypeOK, JobsScoped, BeginAdd
<1> QED BY <1>4, <1>5 DEF EditorIInv, ThumbsComplete, BeginAdd

LEMMA EditorNextIInv == EditorIInv /\ [Next]_vars => EditorIInv'
<1> SUFFICES ASSUME EditorIInv, [Next]_vars PROVE EditorIInv' OBVIOUS
<1>1. Idle \in JobRows BY DEF JobRows
<1>2. ASSUME NEW l \in Listings, Create(l) PROVE EditorIInv'
  BY <1>2 DEF EditorIInv, TypeOK, JobsScoped, ThumbsComplete, Create
<1>3. ASSUME NEW w \in Workers, NEW l \in Listings, Update(w, l) PROVE EditorIInv'
  BY <1>3 DEF EditorIInv, TypeOK, JobsScoped, ThumbsComplete, Update
<1>4. ASSUME NEW w \in Workers, NEW l \in Listings, BeginPublish(w, l) PROVE EditorIInv'
  BY <1>4 DEF EditorIInv, TypeOK, JobsScoped, ThumbsComplete, BeginPublish, Publishable, JobRows
<1>5. ASSUME NEW w \in Workers, Publish(w) PROVE EditorIInv'
  <2>1. job[w].listing \in exists
    BY <1>5 DEF EditorIInv, JobsScoped, Publish, Idle
  <2> QED BY <2>1, <1>1, <1>5 DEF EditorIInv, TypeOK, JobsScoped, ThumbsComplete, Publish
<1>6. ASSUME NEW w \in Workers, Crash(w) PROVE EditorIInv'
  BY <1>1, <1>6 DEF EditorIInv, TypeOK, JobsScoped, ThumbsComplete, Crash
<1>7. CASE UNCHANGED vars
  BY <1>7 DEF vars, EditorIInv, TypeOK, JobsScoped, ThumbsComplete
<1> QED
  BY <1>2, <1>3, <1>4, <1>5, <1>6, <1>7, ConvertDraftKeeps, PushKeeps, BeginAddKeeps DEF Next

LEMMA EditorInvariance == Spec => []EditorIInv
BY EditorInitIInv, EditorNextIInv, PTL DEF Spec

(* Every variable of the listing editor keeps its type.                    *)
THEOREM EditorTypeCorrect == Spec => []TypeOK
<1>1. EditorIInv => TypeOK BY DEF EditorIInv
<1> QED BY <1>1, EditorInvariance, PTL

(* addPhotos() keeps one thumbnail per photo, in order, for every draft    *)
(* made by hand, however uploads overlap and wherever they are cut short.  *)
THEOREM ThumbsAlwaysComplete == Spec => []ThumbsComplete
<1>1. EditorIInv => ThumbsComplete BY DEF EditorIInv
<1> QED BY <1>1, EditorInvariance, PTL

--------------------------------------------------------------------------------
(* THE LIMIT OF PHOTOS                                                     *)

(* Photos are added from one desk at a time: the limit is looked at before *)
(* the images are stored and the row is written after, so two desks at     *)
(* once may pass it.                                                       *)
OneUploader ==
  \A v, w \in Workers : "add" \in Duties[v] /\ "add" \in Duties[w] => v = w

(* An upload under way has room for what it brings.                        *)
HasRoom ==
  \A w \in Workers : job[w].at = "push" =>
    /\ "add" \in Duties[w]
    /\ Len(photos[job[w].listing]) + Len(job[w].keys) <= MAX_PHOTOS

RoomIInv == EditorIInv /\ HasRoom /\ PhotoLimit

(* What the worker at a push has in hand.                                  *)
LEMMA PushInHand ==
  ASSUME EditorIInv, NEW w \in Workers, job[w].at = "push"
  PROVE  job[w].listing \in exists /\ job[w].listing \in Listings /\ job[w].keys \in Seq(Images)
<1>1. job[w] \in JobRows /\ job[w] # Idle BY DEF EditorIInv, TypeOK, Idle
<1>2. job[w].listing \in exists BY <1>1 DEF EditorIInv, JobsScoped
<1>3. job[w].keys \in Seq(Images) BY <1>1 DEF JobRows, Idle
<1> QED BY <1>2, <1>3 DEF EditorIInv, TypeOK

(* Jobs change elsewhere, photos nowhere.                                  *)
LEMMA RoomStays ==
  ASSUME RoomIInv, UNCHANGED photos,
         \A w \in Workers : job'[w] = job[w] \/ job'[w].at # "push"
  PROVE  HasRoom' /\ PhotoLimit'
BY DEF RoomIInv, HasRoom, PhotoLimit

LEMMA BeginAddRoom ==
  ASSUME RoomIInv, NEW w \in Workers, NEW l \in Listings, BeginAdd(w, l)
  PROVE  HasRoom' /\ PhotoLimit'
<1>1. PICK keys \in Uploads(MAX_PHOTOS) :
        /\ Len(photos[l]) + Len(keys) <= MAX_PHOTOS
        /\ job' = [job EXCEPT ![w] = [at |-> "push", listing |-> l, keys |-> keys]]
  BY DEF BeginAdd
<1>2. "add" \in Duties[w] /\ UNCHANGED photos BY DEF BeginAdd
<1>3. \A v \in Workers : job'[v] = IF v = w THEN [at |-> "push", listing |-> l, keys |-> keys]
                                   ELSE job[v]
  BY <1>1 DEF RoomIInv, EditorIInv, TypeOK
<1>4. ASSUME NEW v \in Workers, job'[v].at = "push"
      PROVE  /\ "add" \in Duties[v]
             /\ Len(photos'[job'[v].listing]) + Len(job'[v].keys) <= MAX_PHOTOS
  <2>1. CASE v = w
    <3>1. job'[v].listing = l /\ job'[v].keys = keys BY <1>3, <2>1
    <3> QED BY <1>1, <1>2, <2>1, <3>1
  <2>2. CASE v # w
    <3>1. job'[v] = job[v] BY <1>3, <2>2
    <3> QED BY <1>2, <1>4, <3>1 DEF RoomIInv, HasRoom
  <2> QED BY <2>1, <2>2
<1>5. HasRoom' BY <1>4 DEF HasRoom
<1> QED BY <1>2, <1>5 DEF RoomIInv, PhotoLimit

LEMMA PushRoom ==
  ASSUME OneUploader, RoomIInv, NEW w \in Workers, Push(w)
  PROVE  HasRoom' /\ PhotoLimit'
<1> DEFINE l == job[w].listing  keys == job[w].keys
<1>1. /\ job[w].at = "push" /\ photos' = [photos EXCEPT ![l] = photos[l] \o keys]
      /\ job' = [job EXCEPT ![w] = Idle]
  BY DEF Push
<1>2. l \in Listings /\ keys \in Seq(Images) BY <1>1, PushInHand DEF RoomIInv
<1>3. "add" \in Duties[w] /\ Len(photos[l]) + Len(keys) <= MAX_PHOTOS
  BY <1>1 DEF RoomIInv, HasRoom
<1>4. \A v \in Workers : job'[v].at # "push"
  <2>1. ASSUME NEW v \in Workers, job'[v].at = "push" PROVE FALSE
    <3>1. v # w BY <1>1, <2>1 DEF RoomIInv, EditorIInv, TypeOK, Idle
    <3>2. job'[v] = job[v] BY <1>1, <3>1 DEF RoomIInv, EditorIInv, TypeOK
    <3>3. "add" \in Duties[v] BY <2>1, <3>2 DEF RoomIInv, HasRoom
    <3> QED BY <1>3, <3>1, <3>3 DEF OneUploader
  <2> QED BY <2>1
<1> HIDE DEF l, keys
<1>5. photos \in [Listings -> Seq(Images)] BY DEF RoomIInv, EditorIInv, TypeOK
<1>6. photos[l] \o keys \in Seq(Images) /\ Len(photos[l] \o keys) = Len(photos[l]) + Len(keys)
  BY <1>2, <1>5
<1>7. PhotoLimit'
  BY <1>1, <1>2, <1>3, <1>5, <1>6 DEF RoomIInv, PhotoLimit
<1> QED BY <1>4, <1>7 DEF HasRoom

(* A draft that comes from an intake is not there yet, so no upload is     *)
(* under way for it.                                                       *)
LEMMA ConvertDraftRoom ==
  ASSUME RoomIInv, NEW l \in Listings, ConvertDraft(l)
  PROVE  HasRoom' /\ PhotoLimit'
<1>1. PICK keys \in Uploads(MAX_PHOTOS) : photos' = [photos EXCEPT ![l] = keys]
  BY DEF ConvertDraft
<1>2. l \notin exists /\ UNCHANGED job BY DEF ConvertDraft
<1>3. Len(keys) <= MAX_PHOTOS
  <2>1. PICK n \in 1 .. MAX_PHOTOS : keys \in [1 .. n -> Images \ owned]
    BY <1>1 DEF Uploads
  <2>2. Len(keys) = n /\ n <= MAX_PHOTOS BY <2>1, ListingsAssumption
  <2> QED BY <2>2
<1>4. PhotoLimit'
  BY <1>1, <1>3 DEF RoomIInv, EditorIInv, TypeOK, PhotoLimit
<1>5. \A w \in Workers : job[w].at = "push" => photos'[job[w].listing] = photos[job[w].listing]
  BY <1>1, <1>2, PushInHand DEF RoomIInv, EditorIInv, TypeOK
<1>6. HasRoom' BY <1>2, <1>5 DEF RoomIInv, HasRoom
<1> QED BY <1>4, <1>6

LEMMA NextRoom == OneUploader /\ RoomIInv /\ [Next]_vars => RoomIInv'
<1> SUFFICES ASSUME OneUploader, RoomIInv, [Next]_vars PROVE RoomIInv' OBVIOUS
<1>1. EditorIInv' BY EditorNextIInv DEF RoomIInv
<1>2. ASSUME NEW l \in Listings, Create(l) PROVE HasRoom' /\ PhotoLimit'
  BY <1>2, RoomStays DEF Create
<1>3. ASSUME NEW w \in Workers, NEW l \in Listings, Update(w, l) \/ BeginPublish(w, l)
      PROVE  HasRoom' /\ PhotoLimit'
  <2>1. UNCHANGED photos BY <1>3 DEF Update, BeginPublish
  <2>2. \A v \in Workers : job'[v] = job[v] \/ job'[v].at # "push"
    BY <1>3 DEF Update, BeginPublish, RoomIInv, EditorIInv, TypeOK
  <2> QED BY <2>1, <2>2, RoomStays
<1>4. ASSUME NEW w \in Workers, Publish(w) \/ Crash(w) PROVE HasRoom' /\ PhotoLimit'
  <2>1. UNCHANGED photos /\ job' = [job EXCEPT ![w] = Idle] BY <1>4 DEF Publish, Crash
  <2>2. \A v \in Workers : job'[v] = job[v] \/ job'[v].at # "push"
    BY <2>1 DEF RoomIInv, EditorIInv, TypeOK, Idle
  <2> QED BY <2>1, <2>2, RoomStays
<1>5. ASSUME UNCHANGED vars PROVE HasRoom' /\ PhotoLimit' BY <1>5, RoomStays DEF vars
<1>6. HasRoom' /\ PhotoLimit'
  BY <1>2, <1>3, <1>4, <1>5, BeginAddRoom, PushRoom, ConvertDraftRoom DEF Next
<1> QED BY <1>1, <1>6 DEF RoomIInv

LEMMA InitRoom == Init => RoomIInv
<1> SUFFICES ASSUME Init PROVE RoomIInv OBVIOUS
<1>1. HasRoom BY DEF Init, HasRoom, Idle
<1>2. PhotoLimit
  <2>1. Len(<<>>) = 0 OBVIOUS
  <2> QED BY <2>1, ListingsAssumption DEF Init, PhotoLimit
<1> QED BY <1>1, <1>2, EditorInitIInv DEF RoomIInv

(* addPhotos() looks at the limit, stores the images and then writes the   *)
(* row: with uploads from one desk a listing never has more photos than    *)
(* MAX_LISTING_PHOTOS, whatever the other desks do meanwhile and wherever  *)
(* calls are cut short.                                                    *)
THEOREM PhotosWithinLimit == OneUploader => (Spec => []PhotoLimit)
<1> SUFFICES ASSUME OneUploader PROVE Spec => []PhotoLimit OBVIOUS
<1>1. RoomIInv => PhotoLimit BY DEF RoomIInv
<1> QED BY <1>1, InitRoom, NextRoom, PTL DEF Spec

--------------------------------------------------------------------------------
(* ONE DESK THAT ATTESTS AND PUBLISHES.  publish() looks at the            *)
(* attestation and writes later (listings.service.ts:452); update() can    *)
(* take the attestation back in between, unless one desk does both.        *)

OneAttester ==
  \A v, w \in Workers :
     Duties[v] \cap {"update", "publish"} # {} /\ Duties[w] \cap {"update", "publish"} # {} => v = w

Attested ==
  \A w \in Workers : job[w].at = "publish" =>
     /\ "publish" \in Duties[w]
     /\ job[w].listing \in verified /\ photos[job[w].listing] # <<>>

AttestationStands == \A l \in published' \ published : l \in verified /\ photos[l] # <<>>

(* Photos are only ever added.                                             *)
LEMMA PushKeepsPhotos ==
  ASSUME EditorIInv, NEW w \in Workers, Push(w), NEW l \in Listings, photos[l] # <<>>
  PROVE  photos'[l] # <<>>
<1>1. job[w].listing \in Listings /\ job[w].keys \in Seq(Images)
  BY DEF Push, EditorIInv, TypeOK, JobRows, Idle
<1>2. photos[l] \in Seq(Images) /\ photos \in [Listings -> Seq(Images)]
  BY DEF EditorIInv, TypeOK
<1>3. CASE l = job[w].listing
  <2>1. photos'[l] = photos[l] \o job[w].keys
    BY <1>2, <1>3 DEF Push
  <2>2. Len(photos[l]) # 0
    BY <1>2
  <2>3. Len(photos[l] \o job[w].keys) = Len(photos[l]) + Len(job[w].keys)
    BY <1>1, <1>2
  <2>4. Len(photos'[l]) # 0
    BY <1>1, <1>2, <2>1, <2>2, <2>3
  <2>5. QED BY <2>4
<1>4. CASE l # job[w].listing
  BY <1>2, <1>4 DEF Push
<1>5. QED BY <1>3, <1>4

LEMMA NextAttested ==
  ASSUME OneAttester, EditorIInv, Attested, [Next]_vars
  PROVE  Attested' /\ AttestationStands
<1>1. TypeOK /\ JobsScoped
  BY DEF EditorIInv
<1>2. ASSUME NEW v \in Workers, job[v].at = "publish"
      PROVE  job[v].listing \in exists
  BY <1>1, <1>2 DEF JobsScoped, Idle
<1>3. ASSUME NEW l \in Listings, Create(l) \/ ConvertDraft(l)
      PROVE  Attested' /\ AttestationStands
  <2>1. UNCHANGED <<job, verified, published>> /\ l \notin exists
    BY <1>3 DEF Create, ConvertDraft
  <2>2. \A k \in exists : photos'[k] = photos[k]
    BY <1>1, <1>3 DEF Create, ConvertDraft, TypeOK
  <2>3. QED BY <1>2, <2>1, <2>2 DEF Attested, AttestationStands
<1>4. ASSUME NEW w \in Workers, NEW l \in Listings, BeginAdd(w, l) \/ BeginPublish(w, l)
      PROVE  Attested' /\ AttestationStands
  <2>1. UNCHANGED <<photos, verified, published>> /\ \A v \in Workers \ {w} : job'[v] = job[v]
    BY <1>1, <1>4 DEF BeginAdd, BeginPublish, TypeOK
  <2>2. job'[w].at = "publish" =>
           "publish" \in Duties[w] /\ job'[w].listing \in verified /\ photos[job'[w].listing] # <<>>
    BY <1>1, <1>4 DEF BeginAdd, BeginPublish, Publishable, TypeOK
  <2>3. QED BY <2>1, <2>2 DEF Attested, AttestationStands
<1>5. ASSUME NEW w \in Workers, NEW l \in Listings, Update(w, l)
      PROVE  Attested' /\ AttestationStands
  <2>1. \A v \in Workers : job[v].at # "publish"
    BY <1>5, ListingsAssumption DEF OneAttester, Attested, Update, Idle
  <2>2. QED BY <1>5, <2>1 DEF Attested, AttestationStands, Update
<1>6. ASSUME NEW w \in Workers, Push(w) PROVE Attested' /\ AttestationStands
  <2>1. /\ UNCHANGED <<verified, published>> /\ job'[w].at # "publish"
        /\ \A v \in Workers \ {w} : job'[v] = job[v]
    BY <1>1, <1>6 DEF Push, TypeOK, Idle
  <2>2. ASSUME NEW v \in Workers \ {w}, job[v].at = "publish"
        PROVE  photos'[job[v].listing] # <<>>
    BY <1>1, <1>2, <1>6, <2>2, PushKeepsPhotos DEF TypeOK, Attested
  <2>3. QED BY <2>1, <2>2 DEF Attested, AttestationStands
<1>7. ASSUME NEW w \in Workers, Publish(w) \/ Crash(w) PROVE Attested' /\ AttestationStands
  <2>1. /\ UNCHANGED <<photos, verified>> /\ job'[w].at # "publish"
        /\ \A v \in Workers \ {w} : job'[v] = job[v]
    BY <1>1, <1>7 DEF Publish, Crash, TypeOK, Idle
  <2>2. AttestationStands
    BY <1>7 DEF Publish, Crash, Attested, AttestationStands
  <2>3. QED BY <2>1, <2>2 DEF Attested
<1>8. ASSUME UNCHANGED vars PROVE Attested' /\ AttestationStands
  BY <1>8 DEF vars, Attested, AttestationStands
<1>9. QED BY <1>3, <1>4, <1>5, <1>6, <1>7, <1>8 DEF Next

LEMMA InitAttested == Init => Attested
BY DEF Init, Attested, Idle

(* With one desk for both, a listing goes public on an attestation that    *)
(* stands and with a photo to show (SPEC.md:90), whatever is uploaded      *)
(* meanwhile and wherever calls are cut short.                             *)
THEOREM PublicOnAttestation == ASSUME OneAttester PROVE Spec => PublishedOnAttestation
<1>1. EditorIInv /\ Attested /\ [Next]_vars => Attested' /\ [AttestationStands]_vars
  BY NextAttested
<1>2. [AttestationStands]_vars
        => [\A l \in published' \ published : l \in verified /\ photos[l] # <<>>]_vars
  BY DEF AttestationStands
<1>3. QED
  BY <1>1, <1>2, InitAttested, EditorInitIInv, EditorNextIInv, PTL DEF Spec, PublishedOnAttestation

--------------------------------------------------------------------------------
(* THE FOUNDING OF AGENCIES                                                *)

(* What a review that is about to stamp has in hand.                       *)
StampInHand ==
  \A p \in Admins : console[p].at # "idle" =>
    /\ console[p].app \in Applications
    /\ console[p].at = "stamp" =>
         /\ console[p].agency \in MadeFrom(console[p].app)
         /\ agency[console[p].agency].founder = EmailOf[console[p].app]

(* ApprovedHasAgency is not inductive alone: the stamp writes the agency   *)
(* its console remembers.                                                  *)
OnboardingIInv == OnboardingTypeOK /\ StampInHand /\ ApprovedHasAgency

(* Nothing is made or approved to begin with.                              *)
LEMMA OnboardingInitIInv == OnboardingInit => OnboardingIInv
<1> USE OnboardingAssumption
<1> SUFFICES ASSUME OnboardingInit PROVE OnboardingIInv
  OBVIOUS
<1>1. OnboardingTypeOK
  BY DEF OnboardingInit, OnboardingTypeOK, AppRows, Statuses, IdleConsole
<1>2. StampInHand /\ ApprovedHasAgency
  BY DEF OnboardingInit, StampInHand, ApprovedHasAgency, IdleConsole
<1> QED BY <1>1, <1>2 DEF OnboardingIInv

(* An agency row keeps its founder and its application, so what is known   *)
(* of it stays known while agencies are only made and patched.             *)
Keeps ==
  \A g \in Agencies : agency[g] # Null =>
    /\ agency'[g] # Null
    /\ agency'[g].from = agency[g].from
    /\ agency'[g].founder = agency[g].founder

LEMMA MadeStays ==
  ASSUME Keeps, NEW a \in Applications, NEW g \in MadeFrom(a)
  PROVE  g \in MadeFrom(a)' /\ agency'[g].founder = agency[g].founder
BY DEF Keeps, MadeFrom, Made

(* Provision makes a row where there was none.                             *)
LEMMA ProvisionKeeps ==
  ASSUME OnboardingTypeOK, NEW g \in Agencies, NEW email, NEW from, Provision(g, email, from)
  PROVE  Keeps
BY DEF Provision, Keeps, OnboardingTypeOK

(* A step that leaves applications and consoles alone keeps the rest.      *)
LEMMA OnlyAgencies ==
  ASSUME OnboardingIInv, Keeps, UNCHANGED <<app, console>>
  PROVE  StampInHand' /\ ApprovedHasAgency'
<1>1. ASSUME NEW a \in Applications, NEW g \in MadeFrom(a)
      PROVE  g \in MadeFrom(a)' /\ agency'[g].founder = agency[g].founder
  BY <1>1, MadeStays
<1>2. StampInHand'
  BY <1>1 DEF OnboardingIInv, StampInHand
<1>3. ApprovedHasAgency'
  BY <1>1 DEF OnboardingIInv, ApprovedHasAgency
<1> QED BY <1>2, <1>3

(* Every step preserves it.                                                *)
LEMMA OnboardingNextIInv == OnboardingIInv /\ [OnboardingNext]_onboardingVars => OnboardingIInv'
<1> USE OnboardingAssumption
<1> SUFFICES ASSUME OnboardingIInv, [OnboardingNext]_onboardingVars PROVE OnboardingIInv'
  OBVIOUS
<1>0. OnboardingTypeOK /\ StampInHand /\ ApprovedHasAgency
  BY DEF OnboardingIInv
<1>1. ASSUME NEW a \in Applications, Apply(a) PROVE OnboardingIInv'
  <2>1. OnboardingTypeOK'
    BY <1>0, <1>1 DEF Apply, OnboardingTypeOK, AppRows, Statuses
  <2>2. StampInHand'
    BY <1>0, <1>1 DEF Apply, StampInHand, MadeFrom, Made
  <2>3. ApprovedHasAgency'
    BY <1>0, <1>1 DEF Apply, ApprovedHasAgency, MadeFrom, Made, OnboardingTypeOK, AppRows
  <2> QED BY <2>1, <2>2, <2>3 DEF OnboardingIInv
<1>2. ASSUME NEW p \in Admins, NEW a \in Applications, NEW step \in {"provision", "decline"},
             console' = [console EXCEPT ![p] = [IdleConsole EXCEPT !.at = step, !.app = a]],
             UNCHANGED <<app, agency>>
      PROVE  OnboardingIInv'
  <2>1. OnboardingTypeOK'
    BY <1>0, <1>2 DEF OnboardingTypeOK, IdleConsole
  <2>2. StampInHand'
    BY <1>0, <1>2 DEF StampInHand, MadeFrom, Made, OnboardingTypeOK, IdleConsole
  <2>3. ApprovedHasAgency'
    BY <1>0, <1>2 DEF ApprovedHasAgency, MadeFrom, Made
  <2> QED BY <2>1, <2>2, <2>3 DEF OnboardingIInv
<1>3. ASSUME NEW p \in Admins, NEW a \in Applications, BeginApprove(p, a) PROVE OnboardingIInv'
  BY <1>2, <1>3 DEF BeginApprove
<1>4. ASSUME NEW p \in Admins, NEW a \in Applications, BeginDecline(p, a) PROVE OnboardingIInv'
  BY <1>2, <1>4 DEF BeginDecline
<1>5. ASSUME NEW p \in Admins, ProvisionFor(p) PROVE OnboardingIInv'
  <2>1. PICK a \in Applications : a = console[p].app
    BY <1>0, <1>5 DEF ProvisionFor, StampInHand
  <2>2. PICK g \in Agencies : /\ Provision(g, EmailOf[a], a)
                              /\ console' = [console EXCEPT ![p].at = "stamp", ![p].agency = g]
    BY <1>5, <2>1 DEF ProvisionFor
  <2>3. app' = app
    BY <1>5 DEF ProvisionFor
  <2>4. agency' \in [Agencies -> AgencyRows \cup {Null}]
    <3>1. [status |-> "active", founder |-> EmailOf[a], from |-> a] \in AgencyRows
      BY DEF AgencyRows
    <3> QED BY <1>0, <2>2, <3>1 DEF OnboardingTypeOK, Provision
  <2>5. console' \in [Admins -> [at : {"idle", "provision", "stamp", "decline"},
                                 app : Applications \cup {Null},
                                 agency : Agencies \cup {Null}]]
    BY <1>0, <2>2, ZenonT(60) DEF OnboardingTypeOK
  <2>6. OnboardingTypeOK'
    BY <1>0, <2>3, <2>4, <2>5 DEF OnboardingTypeOK
  <2>7. Keeps
    BY <1>0, <2>2, ProvisionKeeps
  <2>8. ASSUME NEW b \in Applications, NEW h \in MadeFrom(b)
        PROVE  h \in MadeFrom(b)' /\ agency'[h].founder = agency[h].founder
    BY <2>7, <2>8, MadeStays
  <2>9. agency'[g] = [status |-> "active", founder |-> EmailOf[a], from |-> a]
    BY <1>0, <2>2 DEF Provision, OnboardingTypeOK
  <2>10. g \in MadeFrom(a)' /\ agency'[g].founder = EmailOf[a]
    <3>1. agency'[g] # Null
      BY <2>9 DEF AgencyRows
    <3> QED BY <2>9, <3>1 DEF MadeFrom, Made
  <2>11. StampInHand'
    BY <1>0, <2>1, <2>2, <2>8, <2>10 DEF StampInHand, OnboardingTypeOK
  <2>12. ApprovedHasAgency'
    BY <1>0, <2>3, <2>8 DEF ApprovedHasAgency
  <2> QED BY <2>6, <2>11, <2>12 DEF OnboardingIInv
<1>6. ASSUME NEW p \in Admins, Stamp(p) PROVE OnboardingIInv'
  <2>1. console[p].app \in Applications /\ console[p].agency \in MadeFrom(console[p].app)
        /\ agency[console[p].agency].founder = EmailOf[console[p].app]
    BY <1>0, <1>6 DEF Stamp, StampInHand
  <2>2. OnboardingTypeOK'
    BY <1>0, <1>6, <2>1 DEF Stamp, Return, OnboardingTypeOK, AppRows, Statuses, IdleConsole, MadeFrom, Made
  <2>3. StampInHand'
    BY <1>0, <1>6 DEF Stamp, Return, StampInHand, MadeFrom, Made, OnboardingTypeOK, IdleConsole
  <2>4. ApprovedHasAgency'
    BY <1>0, <1>6, <2>1 DEF Stamp, ApprovedHasAgency, MadeFrom, Made, OnboardingTypeOK
  <2> QED BY <2>2, <2>3, <2>4 DEF OnboardingIInv
<1>7. ASSUME NEW p \in Admins, Decline(p) PROVE OnboardingIInv'
  <2>1. console[p].app \in Applications
    BY <1>0, <1>7 DEF Decline, StampInHand
  <2>2. OnboardingTypeOK'
    BY <1>0, <1>7, <2>1 DEF Decline, Return, OnboardingTypeOK, AppRows, Statuses, IdleConsole
  <2>3. StampInHand'
    BY <1>0, <1>7 DEF Decline, Return, StampInHand, MadeFrom, Made, OnboardingTypeOK, IdleConsole
  <2>4. ApprovedHasAgency'
    BY <1>0, <1>7, <2>1 DEF Decline, ApprovedHasAgency, MadeFrom, Made, OnboardingTypeOK, AppRows
  <2> QED BY <2>2, <2>3, <2>4 DEF OnboardingIInv
<1>8. ASSUME NEW p \in Admins, NEW email \in Emails, CreateAgency(p, email) PROVE OnboardingIInv'
  <2>1. PICK g \in Agencies : Provision(g, email, Null)
    BY <1>8 DEF CreateAgency
  <2>2. OnboardingTypeOK'
    BY <1>0, <1>8, <2>1 DEF CreateAgency, OnboardingTypeOK, Provision, AgencyRows
  <2>3. Keeps
    BY <1>0, <2>1, ProvisionKeeps
  <2>4. StampInHand' /\ ApprovedHasAgency'
    BY <1>8, <2>3, OnlyAgencies DEF CreateAgency
  <2> QED BY <2>2, <2>4 DEF OnboardingIInv
<1>9. ASSUME NEW p \in Admins, NEW g \in Agencies, NEW status \in {"active", "suspended"},
             PatchAgency(p, g, status)
      PROVE  OnboardingIInv'
  <2>1. agency[g] \in AgencyRows /\ agency' = [agency EXCEPT ![g].status = status]
    BY <1>0, <1>9 DEF PatchAgency, Made, OnboardingTypeOK
  <2>5. [agency[g] EXCEPT !.status = status] \in AgencyRows
    BY <2>1 DEF AgencyRows
  <2>2. OnboardingTypeOK'
    BY <1>0, <1>9, <2>1, <2>5 DEF PatchAgency, OnboardingTypeOK
  <2>3. Keeps
    <3>1. agency'[g] = [agency[g] EXCEPT !.status = status]
      BY <1>0, <2>1 DEF OnboardingTypeOK
    <3>2. agency'[g] # Null /\ agency'[g].from = agency[g].from
          /\ agency'[g].founder = agency[g].founder
      BY <2>1, <2>5, <3>1 DEF AgencyRows
    <3> QED BY <1>0, <2>1, <3>2 DEF Keeps, OnboardingTypeOK
  <2>4. StampInHand' /\ ApprovedHasAgency'
    BY <1>9, <2>3, OnlyAgencies DEF PatchAgency
  <2> QED BY <2>2, <2>4 DEF OnboardingIInv
<1>10. ASSUME NEW p \in Admins, CrashConsole(p) PROVE OnboardingIInv'
  <2>1. OnboardingTypeOK'
    BY <1>0, <1>10 DEF CrashConsole, Return, OnboardingTypeOK, IdleConsole
  <2>2. StampInHand'
    BY <1>0, <1>10 DEF CrashConsole, Return, StampInHand, MadeFrom, Made, OnboardingTypeOK, IdleConsole
  <2>3. ApprovedHasAgency'
    BY <1>0, <1>10 DEF CrashConsole, ApprovedHasAgency, MadeFrom, Made
  <2> QED BY <2>1, <2>2, <2>3 DEF OnboardingIInv
<1>11. CASE UNCHANGED onboardingVars
  BY <1>0, <1>11 DEF onboardingVars, OnboardingIInv, OnboardingTypeOK, StampInHand, ApprovedHasAgency, MadeFrom, Made
<1> QED
  BY <1>1, <1>3, <1>4, <1>5, <1>6, <1>7, <1>8, <1>9, <1>10, <1>11 DEF OnboardingNext, Founding

LEMMA OnboardingInvariance == OnboardingSpec => []OnboardingIInv
<1>1. OnboardingInit => OnboardingIInv
  BY OnboardingInitIInv
<1>2. OnboardingIInv /\ [OnboardingNext]_onboardingVars => OnboardingIInv'
  BY OnboardingNextIInv
<1> QED BY <1>1, <1>2, PTL DEF OnboardingSpec

(* Rows stay of their type.                                                *)
THEOREM OnboardingTypeCorrect == OnboardingSpec => []OnboardingTypeOK
<1>1. OnboardingIInv => OnboardingTypeOK
  BY DEF OnboardingIInv
<1> QED BY <1>1, OnboardingInvariance, PTL

(* An approved application names the agency made from it, whatever reviews *)
(* overlap or are cut short (approve's stamp, agency-applications:61-69).  *)
THEOREM ApprovedNamesAgency == OnboardingSpec => []ApprovedHasAgency
<1>1. OnboardingIInv => ApprovedHasAgency
  BY DEF OnboardingIInv
<1> QED BY <1>1, OnboardingInvariance, PTL

(* ONE CONSOLE.  A review writes by id, on the strength of an earlier read *)
(* (agency-applications.service.ts:59); with one admin at work what it has *)
(* read is still so when it writes.                                        *)
OneConsole == \A p, q \in Admins : p = q

UnderReview == \A p \in Admins : console[p].at # "idle" => app[console[p].app].status = "pending"

Verdicts ==
  \A a \in Applications : app[a].status \in {"approved", "declined"} => app'[a] = app[a]

(* The steps that write an application are reviews of a pending one.       *)
LEMMA OneConsoleReviews ==
  ASSUME OneConsole, OnboardingIInv, UnderReview, [OnboardingNext]_onboardingVars
  PROVE  UnderReview' /\ Verdicts
<1>1. OnboardingTypeOK /\ StampInHand
  BY DEF OnboardingIInv
<1>2. ASSUME NEW a \in Applications, Apply(a) PROVE UnderReview' /\ Verdicts
  <2>1. /\ console' = console /\ app[a].status = "none"
        /\ \A b \in Applications \ {a} : app'[b] = app[b]
    BY <1>1, <1>2 DEF Apply, OnboardingTypeOK
  <2>2. Verdicts
    BY <2>1 DEF Verdicts
  <2>3. UnderReview'
    BY <1>1, <2>1 DEF UnderReview, StampInHand
  <2>4. QED BY <2>2, <2>3
<1>3. ASSUME NEW p \in Admins, NEW a \in Applications, BeginApprove(p, a) \/ BeginDecline(p, a)
      PROVE  UnderReview' /\ Verdicts
  <2>1. app' = app /\ app[a].status = "pending" /\ console'[p].app = a
    BY <1>1, <1>3 DEF BeginApprove, BeginDecline, IdleConsole, OnboardingTypeOK
  <2>2. QED BY <2>1 DEF OneConsole, UnderReview, Verdicts
<1>4. ASSUME NEW p \in Admins, ProvisionFor(p) PROVE UnderReview' /\ Verdicts
  <2>1. app' = app /\ app[console[p].app].status = "pending"
    BY <1>4 DEF ProvisionFor, UnderReview
  <2>2. console'[p].app = console[p].app
    BY <1>1, <1>4 DEF ProvisionFor, OnboardingTypeOK
  <2>3. QED BY <2>1, <2>2 DEF OneConsole, UnderReview, Verdicts
<1>5. ASSUME NEW p \in Admins, Stamp(p) \/ Decline(p) PROVE UnderReview' /\ Verdicts
  <2>1. /\ console[p].app \in Applications /\ app[console[p].app].status = "pending"
    BY <1>1, <1>5 DEF Stamp, Decline, StampInHand, UnderReview
  <2>2. \A b \in Applications \ {console[p].app} : app'[b] = app[b]
    BY <1>1, <1>5 DEF Stamp, Decline, OnboardingTypeOK
  <2>3. console'[p] = IdleConsole
    BY <1>1, <1>5 DEF Stamp, Decline, Return, OnboardingTypeOK
  <2>4. QED BY <2>1, <2>2, <2>3 DEF OneConsole, UnderReview, Verdicts, IdleConsole
<1>6. ASSUME NEW p \in Admins, CrashConsole(p) PROVE UnderReview' /\ Verdicts
  <2>1. app' = app /\ console'[p] = IdleConsole
    BY <1>1, <1>6 DEF CrashConsole, Return, OnboardingTypeOK
  <2>2. QED BY <2>1 DEF OneConsole, UnderReview, Verdicts, IdleConsole
<1>7. ASSUME UNCHANGED <<app, console>> PROVE UnderReview' /\ Verdicts
  BY <1>7 DEF UnderReview, Verdicts
<1>8. QED
  BY <1>2, <1>3, <1>4, <1>5, <1>6, <1>7
     DEF OnboardingNext, Founding, CreateAgency, PatchAgency, onboardingVars

LEMMA InitUnderReview == OnboardingInit => UnderReview
BY DEF OnboardingInit, UnderReview, IdleConsole

(* With one admin at work a review is final (SPEC.md:508), though reviews  *)
(* are cut short.                                                          *)
THEOREM ReviewsAreFinal == ASSUME OneConsole PROVE OnboardingSpec => ReviewedOnce
<1>1. OnboardingIInv /\ UnderReview /\ [OnboardingNext]_onboardingVars
        => UnderReview' /\ [Verdicts]_onboardingVars
  BY OneConsoleReviews
<1>2. [Verdicts]_onboardingVars
        => [\A a \in Applications : app[a].status \in {"approved", "declined"}
              => app'[a] = app[a]]_onboardingVars
  BY DEF Verdicts
<1>3. QED
  BY <1>1, <1>2, InitUnderReview, OnboardingInvariance, PTL DEF OnboardingSpec, ReviewedOnce

(* When reviews are not cut short either, the agency made from an          *)
(* application is the one its approval names, or is about to.              *)
Sole == \A a \in Applications : \A g, h \in MadeFrom(a) : g = h

FoundedInv == UnderReview /\ NoAgencyUnapproved /\ Sole

(* A step that makes no agency from an application, and leaves approved    *)
(* applications and stamps as they are.                                    *)
LEMMA NothingFounded ==
  ASSUME NoAgencyUnapproved, Sole,
         \A a \in Applications : MadeFrom(a)' = MadeFrom(a),
         \A a \in Applications : app[a].status = "approved" => app'[a].status = "approved",
         \A p \in Admins : console[p].at = "stamp" =>
            console'[p] = console[p] \/ app'[console[p].app].status = "approved"
  PROVE  NoAgencyUnapproved' /\ Sole'
<1>1. Sole'
  BY DEF Sole
<1>2. ASSUME NEW a \in Applications, MadeFrom(a)' # {}
      PROVE  app'[a].status = "approved" \/ \E p \in Admins : console'[p].app = a /\ console'[p].at = "stamp"
  <2>1. MadeFrom(a) # {}
    BY <1>2
  <2>2. QED BY <2>1 DEF NoAgencyUnapproved
<1>3. QED BY <1>1, <1>2 DEF NoAgencyUnapproved

LEMMA NextFounded ==
  ASSUME OneConsole, ~AdminsMayCrash, OnboardingIInv, FoundedInv,
         [OnboardingNext]_onboardingVars
  PROVE  FoundedInv'
<1> USE OnboardingAssumption
<1>1. OnboardingTypeOK /\ StampInHand
  BY DEF OnboardingIInv
<1>2. UnderReview /\ NoAgencyUnapproved /\ Sole /\ UnderReview' /\ Verdicts
  BY OneConsoleReviews DEF FoundedInv
<1>3. ASSUME NEW p \in Admins, ProvisionFor(p) PROVE FoundedInv'
  <2>1. PICK a \in Applications : a = console[p].app
    BY <1>1, <1>3 DEF ProvisionFor, StampInHand
  <2>2. PICK g \in Agencies :
           /\ Provision(g, EmailOf[a], a)
           /\ console' = [console EXCEPT ![p].at = "stamp", ![p].agency = g]
    BY <1>3, <2>1 DEF ProvisionFor
  <2>3. console'[p].at = "stamp" /\ console'[p].app = a /\ app' = app
    BY <1>1, <1>3, <2>1, <2>2 DEF ProvisionFor, OnboardingTypeOK
  <2>4. app[a].status = "pending" /\ \A q \in Admins : console[q].at # "stamp"
    BY <1>2, <1>3, <2>1 DEF ProvisionFor, UnderReview, OneConsole
  <2>5. MadeFrom(a) = {}
    BY <1>2, <2>4 DEF NoAgencyUnapproved
  <2>6. /\ agency[g] = Null /\ agency'[g].from = a
        /\ \A h \in Agencies \ {g} : agency'[h] = agency[h]
    BY <1>1, <2>2 DEF Provision, OnboardingTypeOK
  <2>7. MadeFrom(a)' \subseteq {g}
    BY <2>5, <2>6 DEF MadeFrom, Made
  <2>8. ASSUME NEW b \in Applications, b # a PROVE MadeFrom(b)' \subseteq MadeFrom(b)
    BY <2>6, <2>8 DEF MadeFrom, Made
  <2>9. Sole'
    <3> SUFFICES ASSUME NEW b \in Applications, NEW k \in MadeFrom(b)', NEW h \in MadeFrom(b)'
                 PROVE  k = h
      BY DEF Sole
    <3>1. QED BY <1>2, <2>7, <2>8 DEF Sole
  <2>10. NoAgencyUnapproved'
    <3> SUFFICES ASSUME NEW b \in Applications, MadeFrom(b)' # {}
                 PROVE  \/ app'[b].status = "approved"
                        \/ \E q \in Admins : console'[q].app = b /\ console'[q].at = "stamp"
      BY DEF NoAgencyUnapproved
    <3>1. CASE b = a
      BY <2>3, <3>1
    <3>2. CASE b # a
      BY <1>2, <2>3, <2>4, <2>8, <3>2 DEF NoAgencyUnapproved
    <3>3. QED BY <3>1, <3>2
  <2>11. QED BY <1>2, <2>9, <2>10 DEF FoundedInv
<1>4. ASSUME NEW p \in Admins, Stamp(p) PROVE FoundedInv'
  <2>1. console[p].app \in Applications /\ \A a \in Applications : MadeFrom(a)' = MadeFrom(a)
    BY <1>1, <1>4 DEF Stamp, StampInHand, MadeFrom, Made
  <2>2. app'[console[p].app].status = "approved"
    BY <1>1, <1>4, <2>1 DEF Stamp, OnboardingTypeOK
  <2>3. \A q \in Admins \ {p} : console'[q] = console[q]
    BY DEF OneConsole
  <2>4. QED BY <1>2, <2>1, <2>2, <2>3, NothingFounded DEF FoundedInv, Verdicts
<1>5. ASSUME UNCHANGED agency,
             \A a \in Applications : app[a].status = "approved" => app'[a] = app[a],
             \A p \in Admins : console[p].at = "stamp" => console'[p] = console[p]
      PROVE  FoundedInv'
  BY <1>2, <1>5, NothingFounded DEF FoundedInv, MadeFrom, Made
<1>6. ASSUME NEW p \in Admins,
             Decline(p) \/ CrashConsole(p)
             \/ \E a \in Applications : Apply(a) \/ BeginApprove(p, a) \/ BeginDecline(p, a)
      PROVE  FoundedInv'
  <2>1. UNCHANGED agency
    BY <1>6 DEF Decline, CrashConsole, Apply, BeginApprove, BeginDecline
  <2>2. \A q \in Admins : console[q].at = "stamp" => console'[q] = console[q]
    BY <1>6 DEF Decline, CrashConsole, Apply, BeginApprove, BeginDecline, OneConsole
  <2>3. QED BY <1>2, <1>5, <2>1, <2>2 DEF Verdicts
<1>7. ASSUME UNCHANGED <<app, console>>, \A a \in Applications : MadeFrom(a)' = MadeFrom(a)
      PROVE  FoundedInv'
  BY <1>2, <1>7, NothingFounded DEF FoundedInv
<1>8. ASSUME NEW p \in Admins, NEW email \in Emails, CreateAgency(p, email) PROVE FoundedInv'
  <2>1. PICK g \in Agencies : Provision(g, email, Null)
    BY <1>8 DEF CreateAgency
  <2>2. /\ agency[g] = Null /\ agency'[g].from = Null
        /\ \A h \in Agencies \ {g} : agency'[h] = agency[h]
    BY <1>1, <2>1 DEF Provision, OnboardingTypeOK
  <2>3. \A a \in Applications : MadeFrom(a)' = MadeFrom(a)
    BY <2>2 DEF MadeFrom, Made
  <2>4. QED BY <1>7, <1>8, <2>3 DEF CreateAgency
<1>9. ASSUME NEW p \in Admins, NEW g \in Agencies, NEW status \in {"active", "suspended"},
             PatchAgency(p, g, status)
      PROVE  FoundedInv'
  <2>1. agency[g] \in AgencyRows /\ agency' = [agency EXCEPT ![g].status = status]
    BY <1>1, <1>9 DEF PatchAgency, Made, OnboardingTypeOK
  <2>2. agency'[g] \in AgencyRows /\ agency'[g].from = agency[g].from
    BY <1>1, <2>1 DEF AgencyRows, OnboardingTypeOK
  <2>3. \A h \in Agencies \ {g} : agency'[h] = agency[h]
    BY <1>1, <2>1 DEF OnboardingTypeOK
  <2>4. \A a \in Applications : MadeFrom(a)' = MadeFrom(a)
    BY <2>1, <2>2, <2>3 DEF MadeFrom, Made
  <2>5. QED BY <1>7, <1>9, <2>4 DEF PatchAgency
<1>10. CASE UNCHANGED onboardingVars
  BY <1>5, <1>10 DEF onboardingVars
<1>11. ASSUME NEW a \in Applications, Apply(a) PROVE FoundedInv'
  <2>1. UNCHANGED <<agency, console>>
    BY <1>11 DEF Apply
  <2>2. QED BY <1>2, <1>5, <2>1 DEF Verdicts
<1>12. QED
  BY <1>3, <1>4, <1>6, <1>8, <1>9, <1>10, <1>11 DEF OnboardingNext, Founding

(* One admin, no review cut short: an application makes one agency, and    *)
(* every agency made from one is backed by its approval (SPEC.md:508).     *)
THEOREM ApplicationsMakeOneAgency ==
  ASSUME OneConsole, ~AdminsMayCrash
  PROVE  OnboardingSpec => [](NoAgencyUnapproved /\ OneAgencyEach)
<1>1. OnboardingInit => FoundedInv
  <2> SUFFICES ASSUME OnboardingInit PROVE FoundedInv
    OBVIOUS
  <2>1. \A a \in Applications : MadeFrom(a) = {}
    BY DEF OnboardingInit, MadeFrom, Made
  <2>2. QED BY <2>1, InitUnderReview DEF FoundedInv, NoAgencyUnapproved, Sole
<1>2. OnboardingIInv /\ FoundedInv /\ [OnboardingNext]_onboardingVars => FoundedInv'
  BY NextFounded
<1>3. FoundedInv => NoAgencyUnapproved /\ OneAgencyEach
  <2> SUFFICES ASSUME FoundedInv, NEW a \in Applications PROVE Cardinality(MadeFrom(a)) <= 1
    BY DEF FoundedInv, OneAgencyEach
  <2>1. CASE MadeFrom(a) = {}
    BY <2>1, FS_EmptySet
  <2>2. CASE MadeFrom(a) # {}
    <3>1. PICK g \in MadeFrom(a) : MadeFrom(a) = {g}
      BY <2>2 DEF FoundedInv, Sole
    <3>2. Cardinality({g}) = 1
      BY FS_Singleton
    <3>3. QED BY <3>1, <3>2
  <2>3. QED BY <2>1, <2>2
<1>4. QED BY <1>1, <1>2, <1>3, OnboardingInvariance, PTL DEF OnboardingSpec

--------------------------------------------------------------------------------
(* THE MARKET                                                              *)

(* What the street does touches neither the editor nor the agencies.       *)
LEMMA StreetIsOutside == Street => UNCHANGED vars /\ UNCHANGED onboardingVars
BY DEF Street, Look, LoadMore, Let, Free, Reprice

(* Publishing is a step of the editor, suspending one of the admins.       *)
LEMMA MovesAreSteps ==
  Moves => \/ Next /\ UNCHANGED onboardingVars
           \/ OnboardingNext /\ UNCHANGED vars
<1>1. ASSUME NEW w \in Workers, GoPublic(w) PROVE Next /\ UNCHANGED onboardingVars
  BY <1>1 DEF GoPublic, Next
<1>2. ASSUME NEW p \in Admins, NEW g \in Agencies, Suspend(p, g) \/ Reactivate(p, g)
      PROVE  OnboardingNext /\ UNCHANGED vars
  BY <1>2 DEF Suspend, Reactivate, OnboardingNext
<1> QED BY <1>1, <1>2 DEF Moves

LEMMA CallsAreSteps ==
  EditorCalls \/ PublishCalls => Next /\ UNCHANGED onboardingVars
<1>1. EditorCalls => Next BY DEF EditorCalls, Next
<1>2. PublishCalls => Next BY DEF PublishCalls, Next
<1> QED BY <1>1, <1>2 DEF EditorCalls, PublishCalls

LEMMA MarketSteps ==
  [MarketNext]_marketVars => [Next]_vars /\ [OnboardingNext]_onboardingVars
<1> SUFFICES ASSUME [MarketNext]_marketVars PROVE [Next]_vars /\ [OnboardingNext]_onboardingVars
  OBVIOUS
<1>1. CASE UNCHANGED marketVars BY <1>1 DEF marketVars
<1>2. CASE Founding /\ UNCHANGED <<vars, street>> BY <1>2 DEF OnboardingNext
<1> QED BY <1>1, <1>2, StreetIsOutside, MovesAreSteps, CallsAreSteps DEF MarketNext

(* The market implements its parts: every step of it is a step of the      *)
(* listing editor or leaves it alone, and the same for the founding of     *)
(* agencies (AgencyGuard only ever withholds calls).                       *)
THEOREM MarketImplementsParts == MarketSpec => Spec /\ OnboardingSpec
BY MarketSteps, PTL DEF MarketSpec, Spec, OnboardingSpec

(* So what holds of the parts holds of the market, suspensions included.   *)
THEOREM MarketKeepsParts ==
  /\ MarketSpec => []ThumbsComplete
  /\ MarketSpec => []ApprovedHasAgency
  /\ OneUploader => (MarketSpec => []PhotoLimit)
  /\ OneAttester => (MarketSpec => PublishedOnAttestation)
  /\ OneConsole => (MarketSpec => ReviewedOnce)
BY MarketImplementsParts, ThumbsAlwaysComplete, ApprovedNamesAgency, PhotosWithinLimit,
   PublicOnAttestation, ReviewsAreFinal

--------------------------------------------------------------------------------
(* PAGING THROUGH A LIST.  Rows are ordered by a key, a table of integers, *)
(* and by id among equal keys; what counts of a row is how many come       *)
(* before it.                                                              *)

Ordered(key, k, l) ==
  \/ key[k] < key[l]
  \/ key[k] = key[l] /\ IdOf[k] < IdOf[l]
Ahead(key, W, l) == {k \in W : Ordered(key, k, l)}

(* The rows of W, each once, in their order.                               *)
Keyed(key, W) == W \subseteq Listings /\ IsFiniteSet(W) /\ \A k \in W : key[k] \in Int
Sorted(q, key, W) == /\ q \in [1 .. Cardinality(W) -> W]
                     /\ \A i, j \in DOMAIN q : i < j => Ordered(key, q[i], q[j])

(* The row at i has i - 1 rows before it, and every home has its row.      *)
LEMMA Ranked ==
  ASSUME NEW W, NEW key, Keyed(key, W), NEW q, Sorted(q, key, W)
  PROVE  /\ q \in Seq(W) /\ Len(q) = Cardinality(W) /\ Cardinality(W) \in Nat
         /\ \A i, j \in DOMAIN q : q[i] = q[j] => i = j
         /\ \A l \in W : \E i \in DOMAIN q : q[i] = l
         /\ \A i \in DOMAIN q : Cardinality(Ahead(key, W, q[i])) = i - 1
<1> DEFINE n == Cardinality(W)
<1>0. /\ W \subseteq Listings /\ IsFiniteSet(W) /\ \A k \in W : key[k] \in Int
      /\ q \in [1 .. n -> W]
      /\ \A i, j \in DOMAIN q : i < j => Ordered(key, q[i], q[j])
  BY DEF Keyed, Sorted
<1>1. n \in Nat BY <1>0, FS_CardinalityType
<1>2. q \in Seq(W) /\ Len(q) = n /\ DOMAIN q = 1 .. n BY <1>0, <1>1
<1>3. \A k, l \in W : Ordered(key, k, l) => k # l /\ ~Ordered(key, l, k)
  <2>1. \A k \in W : IdOf[k] \in Nat BY <1>0, MarketAssumption
  <2> QED BY <1>0, <2>1 DEF Ordered
<1> HIDE DEF n
<1>4. \A i, j \in 1 .. n : i < j => Ordered(key, q[i], q[j]) BY <1>0, <1>2
<1>5. \A i, j \in 1 .. n : q[i] = q[j] => i = j
  <2> SUFFICES ASSUME NEW i \in 1 .. n, NEW j \in 1 .. n, q[i] = q[j], i # j PROVE FALSE
    OBVIOUS
  <2>1. q[i] \in W /\ q[j] \in W BY <1>0, <1>2
  <2>2. CASE i < j BY <1>3, <1>4, <2>1, <2>2
  <2>3. CASE j < i BY <1>3, <1>4, <2>1, <2>3
  <2> QED BY <1>1, <2>2, <2>3
<1>6. \A l \in W : \E i \in 1 .. n : q[i] = l
  <2>1. q \in Injection(1 .. n, W) BY <1>0, <1>2, <1>5 DEF Injection, IsInjective, n
  <2>2. Cardinality(1 .. n) = n BY <1>1, FS_Interval
  <2>3. q \in Surjection(1 .. n, W) BY <1>0, <2>1, <2>2, FS_Injection DEF n
  <2> QED BY <2>3 DEF Surjection
<1>7. ASSUME NEW i \in 1 .. n PROVE Cardinality(Ahead(key, W, q[i])) = i - 1
  <2> DEFINE A == Ahead(key, W, q[i])  f == [j \in 1 .. i - 1 |-> q[j]]
  <2>1. \A j \in 1 .. n : q[j] \in A <=> j < i
    <3> SUFFICES ASSUME NEW j \in 1 .. n PROVE q[j] \in A <=> j < i OBVIOUS
    <3>1. q[j] \in W /\ q[i] \in W BY <1>0, <1>2
    <3>2. CASE j < i BY <1>4, <3>1, <3>2 DEF Ahead
    <3>3. CASE j = i BY <1>3, <3>1, <3>3 DEF Ahead
    <3>4. CASE i < j BY <1>1, <1>3, <1>4, <3>1, <3>4 DEF Ahead
    <3> QED BY <1>1, <3>2, <3>3, <3>4
  <2>2. i - 1 \in Nat /\ 1 .. i - 1 \subseteq 1 .. n BY <1>1
  <2>3. f \in [1 .. i - 1 -> A]
    <3>1. \A j \in 1 .. i - 1 : q[j] \in A BY <1>1, <2>1, <2>2
    <3> HIDE DEF A
    <3> QED BY <3>1
  <2>4. A \subseteq W BY DEF Ahead
  <2>5. \A l \in A : \E j \in 1 .. i - 1 : f[j] = l
    <3> SUFFICES ASSUME NEW l \in A PROVE \E j \in 1 .. i - 1 : f[j] = l OBVIOUS
    <3>1. PICK j \in 1 .. n : q[j] = l BY <1>6, <2>4
    <3>2. j \in 1 .. i - 1 BY <1>1, <2>1, <3>1
    <3> QED BY <3>1, <3>2
  <2>6. \A a, b \in 1 .. i - 1 : f[a] = f[b] => a = b BY <1>5, <2>2
  <2> HIDE DEF A, f
  <2>7. f \in Surjection(1 .. i - 1, A) BY <2>3, <2>5 DEF Surjection
  <2>8. f \in Injection(1 .. i - 1, A) BY <2>3, <2>6 DEF Injection, IsInjective
  <2>9. IsFiniteSet(1 .. i - 1) /\ Cardinality(1 .. i - 1) = i - 1 BY <2>2, FS_Interval
  <2>10. Cardinality(A) = Cardinality(1 .. i - 1) BY <2>7, <2>8, <2>9, FS_Surjection
  <2> QED BY <2>9, <2>10 DEF A
<1> QED BY <1>1, <1>2, <1>5, <1>6, <1>7 DEF n

(* What publicList cuts from the list for one page: the rows from n + 1 to *)
(* n + size that there are; there are more when the list goes on.          *)
PageOf(q, n, size) ==
  LET rows == SubSeq(q, n + 1, Min({n + 1 + size, Len(q)}))
  IN IF Len(rows) > size THEN Front(rows) ELSE rows
GoesOn(q, n, size) == Len(SubSeq(q, n + 1, Min({n + 1 + size, Len(q)}))) > size

LEMMA MinOfTwo ==
  ASSUME NEW a \in Int, NEW b \in Int
  PROVE  Min({a, b}) = IF a <= b THEN a ELSE b
<1> DEFINE m == IF a <= b THEN a ELSE b
<1>1. m \in {a, b} /\ \A y \in {a, b} : m <= y OBVIOUS
<1>2. \A x \in {a, b} : (\A y \in {a, b} : x <= y) => x = m OBVIOUS
<1> HIDE DEF m
<1>3. Min({a, b}) = m BY <1>1, <1>2, Zenon DEF Min
<1> QED BY <1>3 DEF m

LEMMA PageRows ==
  ASSUME NEW S, NEW q \in Seq(S), NEW n \in Nat, NEW size \in Nat \ {0}
  PROVE  LET page == PageOf(q, n, size) IN
         /\ page \in Seq(S)
         /\ \A i \in DOMAIN page : n + i \in DOMAIN q /\ i <= size /\ page[i] = q[n + i]
         /\ \A k \in DOMAIN q : n < k /\ k <= n + size => k - n \in DOMAIN page
         /\ ~GoesOn(q, n, size) => Len(q) <= n + size
<1> DEFINE e == Min({n + 1 + size, Len(q)})  rows == SubSeq(q, n + 1, e)
<1>1. Len(q) \in Nat /\ DOMAIN q = 1 .. Len(q) OBVIOUS
<1>2. e = IF n + 1 + size <= Len(q) THEN n + 1 + size ELSE Len(q) BY <1>1, MinOfTwo
<1> HIDE DEF e
<1>3. e \in Int /\ \A i \in (n + 1) .. e : q[i] \in S
  <2>0. n \in Int /\ size \in Int /\ size > 0 /\ Len(q) \in Int OBVIOUS
  <2>1. e \in Int /\ e <= Len(q) BY <1>2, <2>0
  <2>2. \A i \in 1 .. Len(q) : q[i] \in S OBVIOUS
  <2>3. \A i \in (n + 1) .. e : i \in 1 .. Len(q) BY <2>1
  <2> QED BY <2>1, <2>2, <2>3
<1>4. /\ rows \in Seq(S)
      /\ Len(rows) = IF n + 1 <= e THEN e - n ELSE 0
      /\ \A i \in 1 .. e - n : rows[i] = q[n + i]
  <2>1. n + 1 \in Int OBVIOUS
  <2>2. /\ SubSeq(q, n + 1, e) \in Seq(S)
        /\ Len(SubSeq(q, n + 1, e)) = IF n + 1 <= e THEN e - (n + 1) + 1 ELSE 0
        /\ \A i \in 1 .. e - (n + 1) + 1 : SubSeq(q, n + 1, e)[i] = q[(n + 1) + i - 1]
    BY <1>3, <2>1, SubSeqProperties
  <2>3. \A i \in 1 .. e - n : i \in 1 .. e - (n + 1) + 1 /\ (n + 1) + i - 1 = n + i BY <1>3
  <2>4. e - (n + 1) + 1 = e - n BY <1>3
  <2>5. \A i \in 1 .. e - n : rows[i] = q[n + i] BY <2>2, <2>3
  <2>6. rows \in Seq(S) /\ Len(rows) = IF n + 1 <= e THEN e - n ELSE 0 BY <2>2, <2>4
  <2> HIDE DEF rows
  <2> QED BY <2>5, <2>6
<1> HIDE DEF rows
<1> DEFINE page == IF Len(rows) > size THEN Front(rows) ELSE rows
<1>5. page = PageOf(q, n, size) BY DEF PageOf, rows, e
<1>6. GoesOn(q, n, size) <=> Len(rows) > size BY DEF GoesOn, rows, e
<1>7. CASE Len(rows) > size
  <2>1. n + 1 + size <= Len(q) /\ e = n + 1 + size /\ Len(rows) = size + 1
    <3>1. e - n > size BY <1>3, <1>4, <1>7
    <3>2. e > n + size BY <1>3, <3>1
    <3>3. n + 1 + size <= Len(q)
      <4> SUFFICES ASSUME ~(n + 1 + size <= Len(q)) PROVE FALSE OBVIOUS
      <4>1. e = Len(q) BY <1>2
      <4>2. n + size \in Int /\ Len(q) \in Int BY <1>1
      <4>3. Len(q) <= n + size BY <4>2
      <4> QED BY <3>2, <4>1, <4>2, <4>3
    <3>4. e = n + 1 + size BY <1>2, <3>3
    <3> QED BY <1>4, <3>3, <3>4
  <2>2. /\ page \in Seq(S) /\ Len(page) = size
        /\ \A i \in 1 .. size : page[i] = rows[i]
    <3>1. page = SubSeq(rows, 1, size) BY <1>7, <2>1 DEF Front
    <3>2. \A i \in 1 .. size : rows[i] \in S BY <1>4, <2>1
    <3> HIDE DEF page
    <3>3. /\ page \in Seq(S) /\ Len(page) = IF 1 <= size THEN size - 1 + 1 ELSE 0
          /\ \A i \in 1 .. size - 1 + 1 : page[i] = rows[1 + i - 1]
      BY <3>1, <3>2, SubSeqProperties
    <3>4. \A i \in 1 .. size : i \in 1 .. size - 1 + 1 /\ 1 + i - 1 = i OBVIOUS
    <3> QED BY <3>3, <3>4
  <2>3. \A i \in 1 .. size : page[i] = q[n + i] /\ n + i \in DOMAIN q
    BY <1>1, <1>4, <2>1, <2>2
  <2> HIDE DEF page
  <2>4. DOMAIN page = 1 .. size BY <2>2
  <2>5. \A k \in DOMAIN q : n < k /\ k <= n + size => k - n \in DOMAIN page BY <1>1, <2>4
  <2> QED BY <1>5, <1>6, <1>7, <2>2, <2>3, <2>4, <2>5
<1>8. CASE ~(Len(rows) > size)
  <2>1. page = rows BY <1>8
  <2>2. Len(q) <= n + size /\ e = Len(q)
    <3>1. ~(n + 1 + size <= Len(q))
      <4> SUFFICES ASSUME n + 1 + size <= Len(q) PROVE FALSE OBVIOUS
      <4>1. e = n + 1 + size BY <1>2
      <4>2. Len(rows) = size + 1 BY <1>4, <4>1
      <4> QED BY <1>8, <4>2
    <3> QED BY <1>1, <1>2, <3>1
  <2>3. DOMAIN rows = 1 .. Len(rows) BY <1>4
  <2>4. \A i \in DOMAIN rows : n + i \in DOMAIN q /\ i <= size /\ rows[i] = q[n + i]
    <3> SUFFICES ASSUME NEW i \in 1 .. Len(rows)
        PROVE  n + i \in DOMAIN q /\ i <= size /\ rows[i] = q[n + i]
      BY <2>3
    <3>1. rows[i] = q[n + i] BY <1>4
    <3>2. i <= size BY <1>4, <1>8
    <3>3. n + i \in DOMAIN q
      <4>1. Len(rows) <= Len(q) - n \/ Len(rows) = 0
        <5>1. Len(rows) = IF n + 1 <= e THEN e - n ELSE 0 BY <1>4
        <5>2. Len(rows) = IF n + 1 <= Len(q) THEN Len(q) - n ELSE 0 BY <2>2, <5>1
        <5> HIDE DEF rows
        <5>3. Len(q) - n \in Int BY <1>1
        <5> QED BY <5>2, <5>3
      <4>2. i \in Int /\ 1 <= i /\ i <= Len(rows) /\ Len(rows) \in Int BY <1>4
      <4> HIDE DEF rows
      <4>3. n + i \in Int /\ 1 <= n + i /\ n + i <= Len(q) BY <1>1, <4>1, <4>2
      <4> QED BY <1>1, <4>3
    <3> QED BY <3>1, <3>2, <3>3
  <2>5. \A k \in DOMAIN q : n < k => k - n \in DOMAIN rows
    <3> SUFFICES ASSUME NEW k \in DOMAIN q, n < k PROVE k - n \in DOMAIN rows OBVIOUS
    <3>1. k \in Int /\ k <= e BY <1>1, <2>2
    <3>2. Len(rows) = e - n BY <1>3, <1>4, <3>1
    <3> QED BY <1>3, <2>3, <3>1, <3>2
  <2> HIDE DEF page
  <2> QED BY <1>4, <1>5, <1>6, <1>8, <2>1, <2>2, <2>4, <2>5
<1> QED BY <1>7, <1>8

(* What a shopper s has, who pages through W ordered by key: while no home *)
(* has left, what he began with is there and is shown or comes after the   *)
(* pages he has; while none has come, no card is there twice, and what is  *)
(* shown and still there does not come after those pages.                  *)
NothingSkipped(s, W, key) ==
  s.left = {} =>
    /\ s.start \subseteq W
    /\ \A l \in s.start : \/ l \in Range(s.shown)
                          \/ s.pages * BROWSE_PAGE_SIZE <= Cardinality(Ahead(key, W, l))
    /\ s.pages > 0 /\ ~s.more => s.start \subseteq Range(s.shown)

NothingTwice(s, W, key) ==
  s.came = {} =>
    /\ IsInjective(s.shown)
    /\ \A l \in Range(s.shown) \cap W :
         Cardinality(Ahead(key, W, l)) < s.pages * BROWSE_PAGE_SIZE

(* The card at i of two lists put together.                                *)
LEMMA Joined ==
  ASSUME NEW S, NEW a \in Seq(S), NEW b \in Seq(S)
  PROVE  /\ a \o b \in Seq(S)
         /\ DOMAIN (a \o b) = 1 .. Len(a) + Len(b)
         /\ \A i \in DOMAIN a : i \in DOMAIN (a \o b) /\ (a \o b)[i] = a[i]
         /\ \A i \in DOMAIN b : Len(a) + i \in DOMAIN (a \o b) /\ (a \o b)[Len(a) + i] = b[i]
         /\ \A i \in DOMAIN (a \o b) : i \in DOMAIN a \/ i - Len(a) \in DOMAIN b
         /\ Range(a \o b) = Range(a) \cup Range(b)
<1> DEFINE c == a \o b
<1>1. Len(a) \in Nat /\ Len(b) \in Nat /\ DOMAIN a = 1 .. Len(a) /\ DOMAIN b = 1 .. Len(b)
  OBVIOUS
<1>2. /\ c \in Seq(S) /\ Len(c) = Len(a) + Len(b)
      /\ \A i \in 1 .. Len(a) + Len(b) : c[i] = IF i <= Len(a) THEN a[i] ELSE b[i - Len(a)]
  BY ConcatProperties
<1> HIDE DEF c
<1>3. DOMAIN c = 1 .. Len(a) + Len(b) BY <1>1, <1>2
<1>4. \A i \in DOMAIN a : i \in DOMAIN c /\ c[i] = a[i] BY <1>1, <1>2, <1>3
<1>5. ASSUME NEW i \in DOMAIN b PROVE Len(a) + i \in DOMAIN c /\ c[Len(a) + i] = b[i]
  <2>1. Len(a) + i \in 1 .. Len(a) + Len(b) /\ ~(Len(a) + i <= Len(a)) /\ Len(a) + i - Len(a) = i
    BY <1>1
  <2> QED BY <1>2, <1>3, <2>1
<1>6. \A i \in DOMAIN c : i \in DOMAIN a \/ i - Len(a) \in DOMAIN b BY <1>1, <1>3
<1>7. Range(c) = Range(a) \cup Range(b)
  <2>1. ASSUME NEW i \in DOMAIN c PROVE c[i] \in Range(a) \cup Range(b)
    <3>1. CASE i \in DOMAIN a BY <1>4, <3>1 DEF Range
    <3>2. CASE i - Len(a) \in DOMAIN b
      <4> DEFINE j == i - Len(a)
      <4>1. Len(a) + j = i BY <1>1, <1>3
      <4>2. c[i] = b[j] BY <1>5, <3>2, <4>1
      <4> QED BY <3>2, <4>2 DEF Range
    <3> QED BY <1>6, <3>1, <3>2
  <2>2. Range(c) \subseteq Range(a) \cup Range(b) BY <2>1 DEF Range
  <2>3. Range(a) \subseteq Range(c) BY <1>4 DEF Range
  <2>4. Range(b) \subseteq Range(c) BY <1>5 DEF Range
  <2> QED BY <2>2, <2>3, <2>4
<1> QED BY <1>2, <1>3, <1>4, <1>5, <1>6, <1>7 DEF c

LEMMA JoinedInjective ==
  ASSUME NEW S, NEW a \in Seq(S), NEW b \in Seq(S),
         IsInjective(a), IsInjective(b), Range(a) \cap Range(b) = {}
  PROVE  IsInjective(a \o b)
<1> DEFINE c == a \o b
<1>1. /\ \A i \in DOMAIN a : i \in DOMAIN c /\ c[i] = a[i]
      /\ \A i \in DOMAIN b : Len(a) + i \in DOMAIN c /\ c[Len(a) + i] = b[i]
      /\ \A i \in DOMAIN c : i \in DOMAIN a \/ i - Len(a) \in DOMAIN b
      /\ DOMAIN c = 1 .. Len(a) + Len(b)
  BY Joined
<1>2. Len(a) \in Nat /\ Len(b) \in Nat OBVIOUS
<1> HIDE DEF c
<1>3. \A i \in DOMAIN c : i \in Int BY <1>1, <1>2
<1>4. ASSUME NEW i \in DOMAIN c
      PROVE  \/ i \in DOMAIN a /\ c[i] = a[i]
             \/ i - Len(a) \in DOMAIN b /\ c[i] = b[i - Len(a)]
  <2>1. CASE i \in DOMAIN a BY <1>1, <2>1
  <2>2. CASE i - Len(a) \in DOMAIN b
    <3>1. Len(a) + (i - Len(a)) = i BY <1>2, <1>3
    <3> QED BY <1>1, <2>2, <3>1
  <2> QED BY <1>1, <2>1, <2>2
<1>5. SUFFICES ASSUME NEW i \in DOMAIN c, NEW j \in DOMAIN c, c[i] = c[j] PROVE i = j
  BY DEF IsInjective, c
<1>6. CASE i \in DOMAIN a /\ c[i] = a[i] /\ j \in DOMAIN a /\ c[j] = a[j]
  BY <1>5, <1>6 DEF IsInjective
<1>7. CASE /\ i - Len(a) \in DOMAIN b /\ c[i] = b[i - Len(a)]
           /\ j - Len(a) \in DOMAIN b /\ c[j] = b[j - Len(a)]
  <2>1. i - Len(a) = j - Len(a) BY <1>5, <1>7 DEF IsInjective
  <2> QED BY <1>2, <1>3, <2>1
<1>8. CASE /\ i \in DOMAIN a /\ c[i] = a[i]
           /\ j - Len(a) \in DOMAIN b /\ c[j] = b[j - Len(a)]
  BY <1>5, <1>8 DEF Range
<1>9. CASE /\ j \in DOMAIN a /\ c[j] = a[j]
           /\ i - Len(a) \in DOMAIN b /\ c[i] = b[i - Len(a)]
  BY <1>5, <1>9 DEF Range
<1> QED BY <1>4, <1>6, <1>7, <1>8, <1>9

(* The next page keeps both.                                               *)
LEMMA Paged ==
  ASSUME NEW W, NEW key, Keyed(key, W), NEW q, Sorted(q, key, W),
         NEW s, s.pages \in Nat, s.shown \in Seq(Listings),
         NothingSkipped(s, W, key), NothingTwice(s, W, key),
         NEW t, t.pages = s.pages + 1, t.start = s.start, t.came = s.came, t.left = s.left,
         t.more = GoesOn(q, s.pages * BROWSE_PAGE_SIZE, BROWSE_PAGE_SIZE),
         t.shown = s.shown \o PageOf(q, s.pages * BROWSE_PAGE_SIZE, BROWSE_PAGE_SIZE)
  PROVE  t.shown \in Seq(Listings) /\ NothingSkipped(t, W, key) /\ NothingTwice(t, W, key)
<1> DEFINE size == BROWSE_PAGE_SIZE  n == s.pages * size  page == PageOf(q, n, size)
           a == s.shown
<1>0. W \subseteq Listings /\ IsFiniteSet(W) BY DEF Keyed
<1>1. size \in Nat \ {0} BY MarketAssumption
<1>2. n \in Nat BY <1>1
<1>3. t.pages * size = n + size BY <1>1
<1>4. /\ q \in Seq(W) /\ Len(q) = Cardinality(W)
      /\ \A i, j \in DOMAIN q : q[i] = q[j] => i = j
      /\ \A l \in W : \E i \in DOMAIN q : q[i] = l
      /\ \A i \in DOMAIN q : Cardinality(Ahead(key, W, q[i])) = i - 1
  BY Ranked
<1>5. \A i \in DOMAIN q : i \in Int /\ i <= Len(q) BY <1>4
<1> HIDE DEF size, n
<1>6. q \in Seq(Listings) BY <1>0, <1>4
<1>7. /\ page \in Seq(Listings)
      /\ \A i \in DOMAIN page : n + i \in DOMAIN q /\ i <= size /\ page[i] = q[n + i]
      /\ \A k \in DOMAIN q : n < k /\ k <= n + size => k - n \in DOMAIN page
      /\ ~GoesOn(q, n, size) => Len(q) <= n + size
  BY <1>1, <1>2, <1>6, PageRows
<1>8. t.shown = a \o page /\ t.more = GoesOn(q, n, size) BY DEF n, size
<1>9. \A i \in DOMAIN page : i \in Int /\ i >= 1 BY <1>7
<1> HIDE DEF page, a
<1>10. a \in Seq(Listings) BY DEF a
<1>11. Range(t.shown) = Range(a) \cup Range(page) /\ t.shown \in Seq(Listings)
  <2>1. page \in Seq(Listings) BY <1>7
  <2>2. Range(a \o page) = Range(a) \cup Range(page) /\ a \o page \in Seq(Listings)
    BY <1>10, <2>1, Joined
  <2> QED BY <1>8, <2>2
(* A row of the page.                                                      *)
<1>12. ASSUME NEW i \in DOMAIN page
       PROVE  /\ page[i] \in W
              /\ Cardinality(Ahead(key, W, page[i])) = (n + i) - 1
              /\ n <= Cardinality(Ahead(key, W, page[i]))
              /\ Cardinality(Ahead(key, W, page[i])) < n + size
  <2>1. n + i \in DOMAIN q /\ i <= size /\ page[i] = q[n + i] BY <1>7
  <2>2. page[i] \in W BY <1>4, <2>1
  <2>3. Cardinality(Ahead(key, W, page[i])) = (n + i) - 1
    <3>1. \A k \in DOMAIN q : Cardinality(Ahead(key, W, q[k])) = k - 1 BY <1>4
    <3>2. Cardinality(Ahead(key, W, q[n + i])) = (n + i) - 1 BY <2>1, <3>1
    <3> QED BY <2>1, <3>2
  <2> QED BY <1>1, <1>2, <1>9, <2>1, <2>2, <2>3
<1>13. NothingSkipped(t, W, key)
  <2> SUFFICES ASSUME s.left = {}
               PROVE  /\ s.start \subseteq W
                      /\ \A l \in s.start : \/ l \in Range(t.shown)
                                            \/ n + size <= Cardinality(Ahead(key, W, l))
                      /\ ~t.more => s.start \subseteq Range(t.shown)
    BY <1>3 DEF NothingSkipped, size
  <2>1. s.start \subseteq W BY DEF NothingSkipped
  <2>2. ASSUME NEW l \in s.start, l \notin Range(t.shown)
        PROVE  /\ n + size <= Cardinality(Ahead(key, W, l))
               /\ t.more
    <3>1. n <= Cardinality(Ahead(key, W, l)) BY <1>11, <2>2 DEF NothingSkipped, a, n, size
    <3>2. PICK k \in DOMAIN q : q[k] = l BY <1>4, <2>1
    <3>3. Cardinality(Ahead(key, W, l)) = k - 1 BY <1>4, <3>2
    <3>4. ASSUME k <= n + size PROVE FALSE
      <4> DEFINE i == k - n
      <4>1. n < k BY <1>2, <1>5, <3>1, <3>3
      <4>2. i \in DOMAIN page BY <1>7, <3>4, <4>1
      <4>3. n + i = k BY <1>2, <1>5
      <4>4. page[i] = l BY <1>7, <3>2, <4>2, <4>3
      <4> QED BY <1>11, <2>2, <4>2, <4>4 DEF Range
    <3>5. k > n + size BY <1>1, <1>2, <1>5, <3>4
    <3>6. n + size <= k - 1 BY <1>1, <1>2, <1>5, <3>5
    <3>7. GoesOn(q, n, size) BY <1>1, <1>2, <1>4, <1>5, <1>7, <3>5
    <3> QED BY <1>8, <3>3, <3>6, <3>7
  <2> QED BY <2>1, <2>2
<1>14. NothingTwice(t, W, key)
  <2> SUFFICES ASSUME s.came = {}
               PROVE  /\ IsInjective(t.shown)
                      /\ \A l \in Range(t.shown) \cap W : Cardinality(Ahead(key, W, l)) < n + size
    BY <1>3 DEF NothingTwice, size
  <2>1. IsInjective(a) /\ \A l \in Range(a) \cap W : Cardinality(Ahead(key, W, l)) < n
    BY DEF NothingTwice, a, n, size
  <2>2. \A l \in Range(page) : l \in W /\ n <= Cardinality(Ahead(key, W, l))
                                       /\ Cardinality(Ahead(key, W, l)) < n + size
    BY <1>12 DEF Range
  <2>3. \A i, j \in DOMAIN page : page[i] = page[j] => i = j
    <3> SUFFICES ASSUME NEW i \in DOMAIN page, NEW j \in DOMAIN page, page[i] = page[j]
                 PROVE  i = j
      OBVIOUS
    <3>1. (n + i) - 1 = (n + j) - 1 BY <1>12
    <3> QED BY <1>2, <1>9, <3>1
  <2>4. \A l \in W : Cardinality(Ahead(key, W, l)) \in Int
    <3> SUFFICES ASSUME NEW l \in W PROVE Cardinality(Ahead(key, W, l)) \in Int OBVIOUS
    <3>1. Ahead(key, W, l) \in SUBSET W BY DEF Ahead
    <3> QED BY <1>0, <3>1, FS_Subset, FS_CardinalityType
  <2>5. Range(a) \cap Range(page) = {} BY <1>2, <2>1, <2>2, <2>4
  <2>6. IsInjective(t.shown)
    <3>1. IsInjective(page) BY <2>3 DEF IsInjective
    <3>2. page \in Seq(Listings) BY <1>7
    <3> QED BY <1>8, <1>10, <2>1, <2>5, <3>1, <3>2, JoinedInjective
  <2>7. \A l \in Range(t.shown) \cap W : Cardinality(Ahead(key, W, l)) < n + size
    BY <1>1, <1>2, <1>11, <2>1, <2>2, <2>4
  <2> QED BY <2>6, <2>7
<1> QED BY <1>11, <1>13, <1>14

(* The list changes under him: as long as what he has noted of homes that  *)
(* left or came is true, both stay.                                        *)
LEMMA Shifted ==
  ASSUME NEW W, NEW V, W \subseteq Listings, V \subseteq Listings,
         NEW key, NEW k2, NEW s, NEW t,
         t.pages = s.pages, t.more = s.more, t.shown = s.shown, t.start = s.start,
         s.left \subseteq t.left, s.came \subseteq t.came, s.pages \in Nat,
         t.left = {} => W \subseteq V /\ \A k \in W : k2[k] = key[k],
         t.came = {} => V \subseteq W /\ \A k \in V : k2[k] = key[k],
         NothingSkipped(s, W, key), NothingTwice(s, W, key)
  PROVE  NothingSkipped(t, V, k2) /\ NothingTwice(t, V, k2)
<1>1. \A S \in SUBSET Listings : IsFiniteSet(S) /\ Cardinality(S) \in Nat
  BY MarketAssumption, FS_Subset, FS_CardinalityType
<1>2. \A S, T \in SUBSET Listings : S \subseteq T => Cardinality(S) <= Cardinality(T)
  <2> SUFFICES ASSUME NEW S \in SUBSET Listings, NEW T \in SUBSET Listings, S \subseteq T
               PROVE  Cardinality(S) <= Cardinality(T)
    OBVIOUS
  <2> QED BY <1>1, FS_Subset
<1>3. s.pages * BROWSE_PAGE_SIZE \in Nat BY MarketAssumption
<1> DEFINE n == s.pages * BROWSE_PAGE_SIZE
<1>4. t.pages * BROWSE_PAGE_SIZE = n OBVIOUS
<1> HIDE DEF n
<1>5. NothingSkipped(t, V, k2)
  <2> SUFFICES ASSUME t.left = {}
               PROVE  /\ s.start \subseteq V
                      /\ \A l \in s.start : \/ l \in Range(s.shown)
                                            \/ n <= Cardinality(Ahead(k2, V, l))
                      /\ s.pages > 0 /\ ~s.more => s.start \subseteq Range(s.shown)
    BY <1>4 DEF NothingSkipped
  <2>1. s.left = {} /\ W \subseteq V /\ \A k \in W : k2[k] = key[k] OBVIOUS
  <2>2. /\ s.start \subseteq W
        /\ \A l \in s.start : l \in Range(s.shown) \/ n <= Cardinality(Ahead(key, W, l))
        /\ s.pages > 0 /\ ~s.more => s.start \subseteq Range(s.shown)
    BY <2>1 DEF NothingSkipped, n
  <2>3. ASSUME NEW l \in s.start, n <= Cardinality(Ahead(key, W, l))
        PROVE  n <= Cardinality(Ahead(k2, V, l))
    <3>1. Ahead(key, W, l) \subseteq Ahead(k2, V, l) BY <2>1, <2>2, <2>3 DEF Ahead, Ordered
    <3>2. Ahead(key, W, l) \in SUBSET Listings /\ Ahead(k2, V, l) \in SUBSET Listings
      BY DEF Ahead
    <3> QED BY <1>1, <1>2, <1>3, <2>3, <3>1, <3>2 DEF n
  <2> QED BY <2>1, <2>2, <2>3
<1>6. NothingTwice(t, V, k2)
  <2> SUFFICES ASSUME t.came = {}
               PROVE  /\ IsInjective(s.shown)
                      /\ \A l \in Range(s.shown) \cap V : Cardinality(Ahead(k2, V, l)) < n
    BY <1>4 DEF NothingTwice
  <2>1. s.came = {} /\ V \subseteq W /\ \A k \in V : k2[k] = key[k] OBVIOUS
  <2>2. /\ IsInjective(s.shown)
        /\ \A l \in Range(s.shown) \cap W : Cardinality(Ahead(key, W, l)) < n
    BY <2>1 DEF NothingTwice, n
  <2>3. ASSUME NEW l \in Range(s.shown) \cap V PROVE Cardinality(Ahead(k2, V, l)) < n
    <3>1. Ahead(k2, V, l) \subseteq Ahead(key, W, l) BY <2>1, <2>3 DEF Ahead, Ordered
    <3>2. Ahead(key, W, l) \in SUBSET Listings /\ Ahead(k2, V, l) \in SUBSET Listings
      BY DEF Ahead
    <3>3. Cardinality(Ahead(key, W, l)) < n BY <2>1, <2>2, <2>3
    <3> QED BY <1>1, <1>2, <1>3, <3>1, <3>2, <3>3 DEF n
  <2> QED BY <2>2, <2>3
<1> QED BY <1>5, <1>6

--------------------------------------------------------------------------------
(* THE SHOPPER                                                             *)

ShopperRows == [pages : Nat, more : BOOLEAN, shown : Seq(Listings), sort : Sorts,
                filter : {Away.filter} \cup Filters, start : SUBSET Listings,
                came : SUBSET Listings, left : SUBSET Listings]

MarketTypeOK ==
  /\ rent \in [Listings -> Rents]
  /\ let \subseteq Listings
  /\ news \in Seq(Listings) /\ IsInjective(news) /\ Range(news) = published
  /\ shopper \in ShopperRows

(* A home that is public, or about to be, has an agency: none is provided  *)
(* under it later.                                                         *)
AgenciesBehind ==
  /\ \A l \in published : agency[AgencyOf[l]] # Null
  /\ \A w \in Workers : job[w].at = "publish" => agency[AgencyOf[job[w].listing]] # Null

(* His list as it is now, and what orders it.                              *)
HisList == Window(shopper.filter)
KeyOf(sort) == [l \in published |-> SortKey(sort, l)]
HisKey == KeyOf(shopper.sort)

Honest == NothingSkipped(shopper, HisList, HisKey) /\ NothingTwice(shopper, HisList, HisKey)

StreetIInv == EditorIInv /\ OnboardingIInv /\ MarketTypeOK /\ AgenciesBehind /\ Honest

(* What StreetIInv says beyond its two parts.                              *)
LEMMA StreetIInvGivesScroll == StreetIInv => ScrollIsComplete
BY DEF StreetIInv, Honest, NothingSkipped, NothingTwice, MarketTypeOK, ShopperRows, ScrollIsComplete

LEMMA WindowInPublished == ASSUME NEW f PROVE Window(f) \subseteq published
BY DEF Window, OnShow

LEMMA KeysAreTyped ==
  ASSUME MarketTypeOK, published \subseteq Listings, NEW sort \in Sorts, NEW f
  PROVE  Keyed(KeyOf(sort), Window(f))
<1>1. Window(f) \subseteq Listings BY WindowInPublished
<1>2. IsFiniteSet(Window(f)) BY <1>1, MarketAssumption, FS_Subset
<1>3. ASSUME NEW l \in published PROVE SortKey(sort, l) \in Int
  <2>1. rent[l] \in Int
    <3>1. l \in Listings /\ Rents \subseteq Int BY MarketAssumption
    <3> QED BY <3>1 DEF MarketTypeOK
  <2>2. PICK i \in DOMAIN news : news[i] = l BY DEF MarketTypeOK, Range
  <2>3. DOMAIN news \subseteq Int BY DEF MarketTypeOK
  <2>4. (CHOOSE j \in DOMAIN news : news[j] = l) \in Int BY <2>2, <2>3
  <2> QED BY <2>1, <2>4 DEF SortKey, Sorts
<1>4. \A l \in Window(f) : KeyOf(sort)[l] \in Int BY <1>3, WindowInPublished DEF KeyOf
<1> QED BY <1>1, <1>2, <1>4 DEF Keyed

LEMMA OrdersAreSorted ==
  ASSUME NEW sort, NEW f, NEW q \in Orders(sort, Window(f))
  PROVE  Sorted(q, KeyOf(sort), Window(f))
<1> DEFINE W == Window(f)
<1>1. /\ q \in [1 .. Cardinality(W) -> W]
      /\ \A i, j \in DOMAIN q : i < j => Before(sort, q[i], q[j])
  BY DEF Orders
<1>2. \A l \in W : KeyOf(sort)[l] = SortKey(sort, l) BY WindowInPublished DEF KeyOf
<1> HIDE DEF W
<1>3. ASSUME NEW i \in DOMAIN q, NEW j \in DOMAIN q, i < j
      PROVE  Ordered(KeyOf(sort), q[i], q[j])
  <2>1. q[i] \in W /\ q[j] \in W BY <1>1
  <2>2. Before(sort, q[i], q[j]) BY <1>1, <1>3
  <2>3. /\ KeyOf(sort)[q[i]] = SortKey(sort, q[i])
        /\ KeyOf(sort)[q[j]] = SortKey(sort, q[j])
    BY <1>2, <2>1
  <2> QED BY <2>2, <2>3, Zenon DEF Before, Ordered
<1> QED BY <1>1, <1>3 DEF Sorted, W

(* His page by offset, and the rest of the list his next call asks for.    *)
LEMMA LoadKeeps ==
  ASSUME MarketTypeOK, published \subseteq Listings,
         NEW sort \in Sorts, NEW f \in {Away.filter} \cup Filters,
         NEW s \in ShopperRows, s.sort = sort, s.filter = f,
         NothingSkipped(s, Window(f), KeyOf(sort)), NothingTwice(s, Window(f), KeyOf(sort)),
         Load(sort, f, s.pages + 1, s)
  PROVE  /\ shopper' \in ShopperRows
         /\ shopper'.sort = sort /\ shopper'.filter = f
         /\ NothingSkipped(shopper', Window(f), KeyOf(sort))
         /\ NothingTwice(shopper', Window(f), KeyOf(sort))
<1> DEFINE W == Window(f)  key == KeyOf(sort)  size == BROWSE_PAGE_SIZE  n == s.pages * size
<1>1. PICK q \in Orders(sort, W) :
        LET first == ((s.pages + 1) - 1) * size + 1
            rows  == SubSeq(q, first, Min({first + size, Len(q)}))
            more  == Len(rows) > size
        IN shopper' = [s EXCEPT !.pages = s.pages + 1, !.more = more,
                                !.shown = s.shown \o (IF more THEN Front(rows) ELSE rows)]
  BY DEF Load
<1>2. s.pages \in Nat /\ s.shown \in Seq(Listings) /\ size \in Nat \ {0}
  BY MarketAssumption DEF ShopperRows
<1>3. ((s.pages + 1) - 1) * size + 1 = n + 1
  <2>1. (s.pages + 1) - 1 = s.pages BY <1>2
  <2> QED BY <2>1
<1>4. shopper' = [s EXCEPT !.pages = s.pages + 1, !.more = GoesOn(q, n, size),
                           !.shown = s.shown \o PageOf(q, n, size)]
  BY <1>1, <1>3 DEF GoesOn, PageOf
<1>5. Keyed(key, W) BY KeysAreTyped
<1>6. Sorted(q, key, W) BY OrdersAreSorted
<1> DEFINE t == shopper'  more == GoesOn(q, n, size)  shown == s.shown \o PageOf(q, n, size)
<1>7. /\ t.pages = s.pages + 1 /\ t.more = more /\ t.shown = shown
      /\ t.start = s.start /\ t.came = s.came /\ t.left = s.left
      /\ t.sort = s.sort /\ t.filter = s.filter
  <2> HIDE DEF more, shown
  <2> QED BY <1>4 DEF ShopperRows, more, shown
<1>8. t.shown \in Seq(Listings) /\ NothingSkipped(t, W, key) /\ NothingTwice(t, W, key)
  <2> HIDE DEF t, W, key
  <2> QED BY <1>2, <1>5, <1>6, <1>7, Paged DEF W, key
<1>9. t \in ShopperRows
  <2>1. more \in BOOLEAN BY DEF GoesOn
  <2>2. shown \in Seq(Listings) BY <1>7, <1>8
  <2>3. s.pages + 1 \in Nat BY <1>2
  <2>4. t = [s EXCEPT !.pages = s.pages + 1, !.more = more, !.shown = shown] BY <1>4
  <2> HIDE DEF more, shown, t
  <2> QED BY <2>1, <2>2, <2>3, <2>4, ZenonT(60) DEF ShopperRows
<1> QED BY <1>7, <1>8, <1>9

LEMMA LookKeeps ==
  ASSUME MarketTypeOK, published \subseteq Listings,
         NEW sort \in Sorts, NEW f \in Filters, Look(sort, f)
  PROVE  /\ shopper' \in ShopperRows
         /\ shopper'.sort = sort /\ shopper'.filter = f
         /\ NothingSkipped(shopper', Window(f), KeyOf(sort))
         /\ NothingTwice(shopper', Window(f), KeyOf(sort))
<1> DEFINE W == Window(f)  key == KeyOf(sort)
           s == [Away EXCEPT !.sort = sort, !.filter = f, !.start = W]
<1>1. W \subseteq Listings BY WindowInPublished
<1>2. /\ s.pages = 0 /\ s.more = FALSE /\ s.shown = <<>> /\ s.start = W /\ s.came = {}
      /\ s.left = {} /\ s.sort = sort /\ s.filter = f
      /\ s \in ShopperRows
  <2> DEFINE any == Away.filter
  <2>1. <<>> \in Seq(Listings) OBVIOUS
  <2>2. ShopperRows = [pages : Nat, more : BOOLEAN, shown : Seq(Listings), sort : Sorts,
                       filter : {any} \cup Filters, start : SUBSET Listings,
                       came : SUBSET Listings, left : SUBSET Listings]
    BY DEF ShopperRows
  <2>3. /\ Away = [pages |-> 0, more |-> FALSE, shown |-> <<>>, sort |-> "newest",
                   filter |-> any, start |-> {}, came |-> {}, left |-> {}]
    BY DEF Away
  <2> HIDE DEF W, any
  <2>4. Away \in ShopperRows BY <2>1, <2>2, <2>3 DEF Sorts
  <2>5. s \in ShopperRows BY <1>1, <2>2, <2>4, Zenon
  <2>6. /\ s.pages = Away.pages /\ s.more = Away.more /\ s.shown = Away.shown
        /\ s.start = W /\ s.came = Away.came /\ s.left = Away.left
        /\ s.sort = sort /\ s.filter = f
    BY <2>2, <2>4
  <2>7. /\ Away.pages = 0 /\ Away.more = FALSE /\ Away.shown = <<>>
        /\ Away.came = {} /\ Away.left = {}
    BY <2>3
  <2> QED BY <2>5, <2>6, <2>7
<1>3. Load(sort, f, 1, s) BY DEF Look
<1> HIDE DEF s
<1>4. Range(s.shown) = {} /\ IsInjective(s.shown) BY <1>2 DEF Range, IsInjective
<1>5. NothingSkipped(s, W, key)
  <2>1. ASSUME NEW l \in W PROVE 0 <= Cardinality(Ahead(key, W, l))
    <3>1. IsFiniteSet(Ahead(key, W, l)) BY <1>1, MarketAssumption, FS_Subset DEF Ahead
    <3>2. Cardinality(Ahead(key, W, l)) \in Nat BY <3>1, FS_CardinalityType
    <3> QED BY <3>2
  <2>2. s.pages * BROWSE_PAGE_SIZE = 0 BY <1>2, MarketAssumption
  <2> HIDE DEF W, key
  <2> QED BY <1>2, <2>1, <2>2 DEF NothingSkipped
<1>6. NothingTwice(s, W, key) BY <1>4 DEF NothingTwice
<1>7. Load(sort, f, s.pages + 1, s) BY <1>2, <1>3
<1> QED BY <1>2, <1>5, <1>6, <1>7, LoadKeeps

--------------------------------------------------------------------------------
(* THE MARKET BESIDE HIM                                                   *)

(* What makes a home part of a list.                                       *)
Open(l) == l \in published /\ l \notin let /\ DeskOpen(l)
Fits(l, f) == f.min <= rent[l] /\ (f.max = NoLimit \/ rent[l] <= f.max)

LEMMA InWindow == ASSUME NEW f PROVE Window(f) = {l \in published : Open(l) /\ Fits(l, f)}
BY DEF Window, OnShow, Open, Fits

(* A step that changes the list but not the keys of homes that stay, and   *)
(* that he notes, keeps what holds of him.                                 *)
LEMMA NotedKeeps ==
  ASSUME StreetIInv, published' \subseteq Listings, shopper' \in ShopperRows,
         shopper'.pages = shopper.pages, shopper'.more = shopper.more,
         shopper'.shown = shopper.shown, shopper'.start = shopper.start,
         shopper.left \subseteq shopper'.left, shopper.came \subseteq shopper'.came,
         shopper'.left = {} => /\ HisList \subseteq HisList'
                               /\ \A k \in HisList : HisKey'[k] = HisKey[k],
         shopper'.came = {} => /\ HisList' \subseteq HisList
                               /\ \A k \in HisList' : HisKey'[k] = HisKey[k]
  PROVE  Honest'
<1> DEFINE W == HisList  V == HisList'  key == HisKey  k2 == HisKey'  s == shopper  t == shopper'
<1>1. W \subseteq Listings BY WindowInPublished DEF StreetIInv, EditorIInv, TypeOK, HisList
<1>2. V \subseteq Listings BY InWindow DEF HisList, Window, OnShow
<1>3. s.pages \in Nat BY DEF StreetIInv, MarketTypeOK, ShopperRows
<1>4. NothingSkipped(s, W, key) /\ NothingTwice(s, W, key) BY DEF StreetIInv, Honest
<1> HIDE DEF W, V, key, k2, s, t
<1>5. NothingSkipped(t, V, k2) /\ NothingTwice(t, V, k2)
  BY <1>1, <1>2, <1>3, <1>4, Shifted DEF W, V, key, k2, s, t
<1> QED BY <1>5 DEF Honest, V, k2, t, NothingSkipped, NothingTwice

(* Homes stay in his list, or out of it, as they stay open to the street.  *)
LEMMA ListMoves ==
  ASSUME shopper'.filter = shopper.filter, UNCHANGED rent
  PROVE  /\ (\A k \in HisList : Open(k)') => HisList \subseteq HisList'
         /\ (\A k \in HisList' : Open(k)) => HisList' \subseteq HisList
<1>1. HisList = {l \in published : Open(l) /\ Fits(l, shopper.filter)}
  BY InWindow DEF HisList
<1>2. HisList' = {l \in published' : Open(l)' /\ Fits(l, shopper.filter)'}
  BY DEF HisList, Window, OnShow, Open, Fits
<1>3. \A l : Fits(l, shopper.filter)' <=> Fits(l, shopper.filter) BY DEF Fits
<1>4. \A l : (Open(l) => l \in published) /\ (Open(l)' => l \in published') BY DEF Open
<1> QED BY <1>1, <1>2, <1>3, <1>4

(* Where every home has its one place.                                     *)
LEMMA PlaceOf ==
  ASSUME NEW s, IsInjective(s), NEW i \in DOMAIN s
  PROVE  (CHOOSE j \in DOMAIN s : s[j] = s[i]) = i
BY DEF IsInjective

LEMMA KeysStay ==
  ASSUME MarketTypeOK, shopper'.sort = shopper.sort, UNCHANGED <<rent, news>>
  PROVE  \A k \in published \cap published' : HisKey'[k] = HisKey[k]
<1>1. shopper.sort \in Sorts BY DEF MarketTypeOK, ShopperRows
<1> QED BY <1>1 DEF HisKey, KeyOf, SortKey, Sorts

(* A list that stays as it is.                                             *)
LEMMA NothingMoves ==
  ASSUME StreetIInv, UNCHANGED <<published, street>>,
         \A l \in published : DeskOpen(l)' <=> DeskOpen(l)
  PROVE  MarketTypeOK' /\ Honest'
<1>1. UNCHANGED <<rent, let, news, shopper>> BY DEF street
<1>2. MarketTypeOK' BY <1>1 DEF StreetIInv, MarketTypeOK
<1>3. HisList \subseteq HisList' /\ HisList' \subseteq HisList
  <2>1. \A k \in HisList : Open(k) BY InWindow DEF HisList
  <2>2. \A k \in HisList' : Open(k)' BY DEF HisList, Window, OnShow, Open
  <2>3. \A k : Open(k) <=> Open(k)' BY <1>1 DEF Open
  <2> QED BY <1>1, <2>1, <2>2, <2>3, ListMoves
<1>4. \A k \in published : HisKey'[k] = HisKey[k] BY <1>1, KeysStay DEF StreetIInv
<1>5. HisList \subseteq published BY WindowInPublished DEF HisList
<1>6. published' \subseteq Listings BY DEF StreetIInv, EditorIInv, TypeOK
<1>7. shopper' \in ShopperRows BY <1>2 DEF MarketTypeOK
<1> QED BY <1>1, <1>2, <1>3, <1>4, <1>5, <1>6, <1>7, NotedKeeps

(* Agencies are never unmade, and stay as they are while others are made.  *)
LEMMA AgenciesStay ==
  ASSUME OnboardingTypeOK, [OnboardingNext]_onboardingVars, NEW g \in Agencies, agency[g] # Null
  PROVE  agency'[g] # Null
<1>1. CASE UNCHANGED onboardingVars BY <1>1 DEF onboardingVars
<1>2. ASSUME NEW p \in Admins, NEW h \in Agencies, NEW status \in {"active", "suspended"},
             PatchAgency(p, h, status)
      PROVE  agency'[g] # Null
  <2>1. agency' = [agency EXCEPT ![h].status = status] BY <1>2 DEF PatchAgency
  <2>2. agency[g] \in AgencyRows BY DEF OnboardingTypeOK
  <2>3. [agency[g] EXCEPT !.status = status] \in AgencyRows BY <2>2 DEF AgencyRows
  <2>4. agency'[g] \in AgencyRows
    <3>1. CASE g = h
      <4>1. agency'[g] = [agency[g] EXCEPT !.status = status]
        BY <2>1, <3>1 DEF OnboardingTypeOK
      <4> QED BY <2>3, <4>1
    <3>2. CASE g # h BY <2>1, <2>2, <3>2 DEF OnboardingTypeOK
    <3> QED BY <3>1, <3>2
  <2> QED BY <2>4, OnboardingAssumption
<1>3. ASSUME NEW h \in Agencies, NEW email, NEW from, Provision(h, email, from)
      PROVE  agency'[g] # Null
  BY <1>3 DEF Provision, OnboardingTypeOK
<1>4. CASE Founding
  BY <1>3, <1>4 DEF Founding, Apply, BeginApprove, BeginDecline, ProvisionFor, Stamp, Decline,
                    CreateAgency, CrashConsole
<1> QED BY <1>1, <1>2, <1>4 DEF OnboardingNext

LEMMA FoundingStays ==
  ASSUME OnboardingTypeOK, Founding, NEW g \in Agencies, agency[g] # Null
  PROVE  agency'[g] = agency[g]
<1>1. ASSUME NEW h \in Agencies, NEW email, NEW from, Provision(h, email, from)
      PROVE  agency'[g] = agency[g]
  BY <1>1 DEF Provision, OnboardingTypeOK
<1> QED
  BY <1>1 DEF Founding, Apply, BeginApprove, BeginDecline, ProvisionFor, Stamp, Decline,
              CreateAgency, CrashConsole

LEMMA FoundingKeeps ==
  ASSUME StreetIInv, Founding, UNCHANGED <<vars, street>>
  PROVE  MarketTypeOK' /\ Honest'
<1>1. UNCHANGED published BY DEF vars
<1>2. OnboardingTypeOK BY DEF StreetIInv, OnboardingIInv
<1>3. ASSUME NEW l \in published PROVE agency'[AgencyOf[l]] = agency[AgencyOf[l]]
  <2>1. AgencyOf[l] \in Agencies
    BY MarketAssumption DEF StreetIInv, EditorIInv, TypeOK
  <2>2. agency[AgencyOf[l]] # Null BY DEF StreetIInv, AgenciesBehind
  <2> QED BY <1>2, <2>1, <2>2, FoundingStays
<1> QED BY <1>1, <1>3, NothingMoves DEF DeskOpen

LEMMA CallsKeep ==
  ASSUME StreetIInv, EditorCalls \/ PublishCalls
  PROVE  MarketTypeOK' /\ Honest'
<1>1. UNCHANGED <<onboardingVars, street>> BY DEF EditorCalls, PublishCalls
<1>2. UNCHANGED published
  BY DEF EditorCalls, PublishCalls, Create, ConvertDraft, BeginAdd, Update, Push, Crash, BeginPublish
<1>3. UNCHANGED agency BY <1>1 DEF onboardingVars
<1> QED BY <1>1, <1>2, <1>3, NothingMoves DEF DeskOpen

(* Nobody publishes for an agency that is not there.                       *)
LEMMA AgenciesBehindKeeps ==
  ASSUME StreetIInv, [MarketNext]_marketVars PROVE AgenciesBehind'
<1>1. OnboardingTypeOK /\ TypeOK /\ AgenciesBehind /\ EditorIInv
  BY DEF StreetIInv, OnboardingIInv, EditorIInv
<1>2. \A g \in Agencies : agency[g] # Null => agency'[g] # Null
  BY <1>1, MarketSteps, AgenciesStay
<1>3. \A l \in published : AgencyOf[l] \in Agencies BY <1>1, MarketAssumption DEF TypeOK
<1>4. ASSUME UNCHANGED published,
             \A w \in Workers : job'[w] = job[w] \/ job'[w].at # "publish"
      PROVE  AgenciesBehind'
  <2>1. \A w \in Workers : job[w].at = "publish" => job[w].listing \in Listings
    BY <1>1 DEF TypeOK, EditorIInv, JobsScoped, Idle
  <2>2. \A w \in Workers : job[w].at = "publish" => AgencyOf[job[w].listing] \in Agencies
    BY <2>1, MarketAssumption
  <2>3. \A l \in published' : agency'[AgencyOf[l]] # Null
    BY <1>1, <1>2, <1>3, <1>4 DEF AgenciesBehind
  <2>4. \A w \in Workers : job'[w].at = "publish" => agency'[AgencyOf[job'[w].listing]] # Null
    BY <1>1, <1>2, <1>4, <2>2 DEF AgenciesBehind
  <2> QED BY <2>3, <2>4 DEF AgenciesBehind
<1>5. ASSUME UNCHANGED vars PROVE AgenciesBehind' BY <1>4, <1>5 DEF vars
<1>6. CASE EditorCalls
  <2>1. UNCHANGED published
    BY <1>6 DEF EditorCalls, Create, ConvertDraft, BeginAdd, Update, Push, Crash
  <2>2. \A w \in Workers : job'[w] = job[w] \/ job'[w].at # "publish"
    <3>1. ASSUME NEW w \in Workers, Push(w) \/ Crash(w)
          PROVE  \A v \in Workers : job'[v] = job[v] \/ job'[v].at # "publish"
      <4>1. job' = [job EXCEPT ![w] = Idle] BY <3>1 DEF Push, Crash
      <4> QED BY <1>1, <4>1 DEF TypeOK, Idle
    <3>2. ASSUME NEW w \in Workers, NEW l \in Listings, BeginAdd(w, l)
          PROVE  \A v \in Workers : job'[v] = job[v] \/ job'[v].at # "publish"
      <4>1. PICK keys \in Uploads(MAX_PHOTOS) :
              job' = [job EXCEPT ![w] = [at |-> "push", listing |-> l, keys |-> keys]]
        BY <3>2 DEF BeginAdd
      <4> QED BY <1>1, <4>1 DEF TypeOK
    <3> QED BY <1>6, <3>1, <3>2 DEF EditorCalls, Create, ConvertDraft, Update
  <2> QED BY <1>4, <2>1, <2>2
<1>7. CASE PublishCalls
  <2>1. PICK w \in Workers, l \in Listings : DeskOpen(l) /\ BeginPublish(w, l)
    BY <1>7 DEF PublishCalls
  <2>2. UNCHANGED <<published, agency>> BY <1>7, <2>1 DEF PublishCalls, BeginPublish, onboardingVars
  <2>3. \A v \in Workers : job'[v] = IF v = w THEN [at |-> "publish", listing |-> l] ELSE job[v]
    BY <1>1, <2>1 DEF BeginPublish, TypeOK
  <2>4. ASSUME NEW v \in Workers, job'[v].at = "publish"
        PROVE  agency'[AgencyOf[job'[v].listing]] # Null
    <3>1. CASE v = w
      <4>1. job'[v].listing = l BY <2>3, <3>1
      <4> QED BY <2>1, <2>2, <4>1 DEF DeskOpen
    <3>2. CASE v # w BY <1>1, <2>2, <2>3, <2>4, <3>2 DEF AgenciesBehind
    <3> QED BY <3>1, <3>2
  <2> QED BY <1>1, <2>2, <2>4 DEF AgenciesBehind
<1>8. ASSUME NEW w \in Workers, GoPublic(w) PROVE AgenciesBehind'
  <2>1. /\ job[w].at = "publish" /\ published' = published \cup {job[w].listing}
        /\ job' = [job EXCEPT ![w] = Idle] /\ UNCHANGED agency
    BY <1>8 DEF GoPublic, Publish, onboardingVars
  <2>2. \A v \in Workers : job'[v] = job[v] \/ job'[v].at # "publish"
    BY <1>1, <2>1 DEF TypeOK, Idle
  <2> QED BY <1>1, <2>1, <2>2 DEF AgenciesBehind
<1>9. CASE Moves
  BY <1>5, <1>8, <1>9 DEF Moves, Suspend, Reactivate
<1> QED BY <1>5, <1>6, <1>7, <1>9, StreetIsOutside DEF MarketNext, marketVars

(* Rows put at the end of a list without repeats, and taken out of it.     *)
LEMMA AppendedApart ==
  ASSUME NEW S, NEW s \in Seq(S), IsInjective(s), NEW x \in S, x \notin Range(s)
  PROVE  /\ Append(s, x) \in Seq(S) /\ IsInjective(Append(s, x))
         /\ Range(Append(s, x)) = Range(s) \cup {x}
         /\ \A i \in DOMAIN s : i \in DOMAIN Append(s, x) /\ Append(s, x)[i] = s[i]
<1> DEFINE t == Append(s, x)  n == Len(s)
<1>1. n \in Nat /\ DOMAIN s = 1 .. n OBVIOUS
<1>2. /\ t \in Seq(S) /\ Len(t) = n + 1 /\ t[n + 1] = x
      /\ \A i \in 1 .. n : t[i] = s[i]
  BY AppendProperties
<1> HIDE DEF t, n
<1>3. DOMAIN t = 1 .. n + 1 BY <1>1, <1>2
<1>4. \A i \in DOMAIN t : i = n + 1 \/ i \in DOMAIN s BY <1>1, <1>3
<1>5. n + 1 \in DOMAIN t /\ \A i \in DOMAIN s : i \in DOMAIN t /\ t[i] = s[i]
  BY <1>1, <1>2, <1>3
<1>6. Range(t) = Range(s) \cup {x} BY <1>2, <1>4, <1>5 DEF Range
<1>7. IsInjective(t)
  <2> SUFFICES ASSUME NEW i \in DOMAIN t, NEW j \in DOMAIN t, t[i] = t[j] PROVE i = j
    BY DEF IsInjective
  <2>1. CASE i \in DOMAIN s /\ j \in DOMAIN s BY <1>5, <2>1 DEF IsInjective
  <2>2. CASE i \in DOMAIN s /\ j = n + 1 BY <1>2, <1>5, <2>2 DEF Range
  <2>3. CASE j \in DOMAIN s /\ i = n + 1 BY <1>2, <1>5, <2>3 DEF Range
  <2> QED BY <1>4, <2>1, <2>2, <2>3
<1> QED BY <1>2, <1>5, <1>6, <1>7 DEF t

LEMMA TakenOut ==
  ASSUME NEW S, NEW s \in Seq(S), IsInjective(s), NEW i \in DOMAIN s
  PROVE  /\ RemoveAt(s, i) \in Seq(S) /\ IsInjective(RemoveAt(s, i))
         /\ Range(RemoveAt(s, i)) = Range(s) \ {s[i]}
<1> DEFINE a == SubSeq(s, 1, i - 1)  b == SubSeq(s, i + 1, Len(s))
<1>1. i \in Nat /\ 1 <= i /\ i <= Len(s) /\ Len(s) \in Nat /\ DOMAIN s = 1 .. Len(s) OBVIOUS
<1>2. a \in Seq(S) /\ Len(a) = i - 1 /\ \A n \in 1 .. i - 1 : a[n] = s[n]
  BY <1>1
<1>3. b \in Seq(S) /\ Len(b) = Len(s) - i /\ \A n \in 1 .. Len(s) - i : b[n] = s[i + n]
  BY <1>1
<1>4. RemoveAt(s, i) = a \o b BY DEF RemoveAt
<1> HIDE DEF a, b
<1>5. DOMAIN a = 1 .. i - 1 /\ DOMAIN b = 1 .. Len(s) - i BY <1>1, <1>2, <1>3
<1>6. \A n \in DOMAIN a : n \in DOMAIN s /\ n # i /\ a[n] = s[n] BY <1>1, <1>2, <1>5
<1>7. \A n \in DOMAIN b : i + n \in DOMAIN s /\ i + n # i /\ b[n] = s[i + n] /\ n \in Int
  BY <1>1, <1>3, <1>5
<1>8. IsInjective(a) BY <1>6 DEF IsInjective
<1>9. IsInjective(b)
  <2> SUFFICES ASSUME NEW m \in DOMAIN b, NEW n \in DOMAIN b, b[m] = b[n] PROVE m = n
    BY DEF IsInjective
  <2>1. i + m = i + n BY <1>7 DEF IsInjective
  <2> QED BY <1>1, <1>7, <2>1
<1>10. Range(a) \cap Range(b) = {}
  <2> SUFFICES ASSUME NEW m \in DOMAIN a, NEW n \in DOMAIN b, a[m] = b[n] PROVE FALSE
    BY DEF Range
  <2>1. m = i + n BY <1>6, <1>7 DEF IsInjective
  <2> QED BY <1>1, <1>5, <2>1
<1>11. Range(a) \cup Range(b) = Range(s) \ {s[i]}
  <2>1. Range(a) \cup Range(b) \subseteq Range(s) \ {s[i]}
    BY <1>6, <1>7 DEF Range, IsInjective
  <2>2. ASSUME NEW n \in DOMAIN s, s[n] # s[i] PROVE s[n] \in Range(a) \cup Range(b)
    <3>1. CASE n < i
      <4>1. n \in DOMAIN a BY <1>1, <1>5, <3>1
      <4> QED BY <1>6, <4>1 DEF Range
    <3>2. CASE i < n
      <4> DEFINE k == n - i
      <4>1. k \in DOMAIN b /\ i + k = n BY <1>1, <1>5, <3>2
      <4> QED BY <1>7, <4>1 DEF Range
    <3> QED BY <1>1, <2>2, <3>1, <3>2
  <2> QED BY <2>1, <2>2 DEF Range
<1> QED BY <1>2, <1>3, <1>4, <1>8, <1>9, <1>10, <1>11, Joined, JoinedInjective

(* What he notes changes nothing else of what he has.                      *)
LEMMA Noted ==
  ASSUME shopper \in ShopperRows, NEW C \in SUBSET Listings, NEW L \in SUBSET Listings,
         shopper' = [shopper EXCEPT !.came = @ \cup C, !.left = @ \cup L]
  PROVE  /\ shopper' \in ShopperRows
         /\ shopper'.pages = shopper.pages /\ shopper'.more = shopper.more
         /\ shopper'.shown = shopper.shown /\ shopper'.start = shopper.start
         /\ shopper'.sort = shopper.sort /\ shopper'.filter = shopper.filter
         /\ shopper'.came = shopper.came \cup C
         /\ shopper'.left = shopper.left \cup L
<1> DEFINE came == shopper.came \cup C  left == shopper.left \cup L
<1>1. came \in SUBSET Listings /\ left \in SUBSET Listings BY DEF ShopperRows
<1>2. shopper' = [shopper EXCEPT !.came = came, !.left = left] OBVIOUS
<1> HIDE DEF came, left
<1>3. shopper' \in ShopperRows BY <1>1, <1>2, ZenonT(60) DEF ShopperRows
<1>4. /\ shopper'.pages = shopper.pages /\ shopper'.more = shopper.more
      /\ shopper'.shown = shopper.shown /\ shopper'.start = shopper.start
      /\ shopper'.sort = shopper.sort /\ shopper'.filter = shopper.filter
      /\ shopper'.came = came /\ shopper'.left = left
  BY <1>2 DEF ShopperRows
<1> QED BY <1>3, <1>4 DEF came, left

LEMMA NoneCame ==
  ASSUME shopper \in ShopperRows, NEW L, shopper' = [shopper EXCEPT !.left = @ \cup L]
  PROVE  shopper' = [shopper EXCEPT !.came = @ \cup {}, !.left = @ \cup L]
BY DEF ShopperRows

LEMMA NoneLeft ==
  ASSUME shopper \in ShopperRows, NEW C, shopper' = [shopper EXCEPT !.came = @ \cup C]
  PROVE  shopper' = [shopper EXCEPT !.came = @ \cup C, !.left = @ \cup {}]
BY DEF ShopperRows

(* A home published for the first time is the newest; one that is again    *)
(* moves, which he notes.                                                  *)
LEMMA GoPublicKeeps ==
  ASSUME StreetIInv, NEW w \in Workers, GoPublic(w)
  PROVE  MarketTypeOK' /\ Honest'
<1> DEFINE l == job[w].listing
<1>1. /\ published' = published \cup {l}
      /\ shopper' = [shopper EXCEPT !.came = @ \cup {l}, !.left = @ \cup ({l} \cap published)]
      /\ UNCHANGED <<agency, rent, let>>
      /\ \/ l \notin published /\ news' = Append(news, l)
         \/ \E i \in DOMAIN news : news[i] = l /\ news' = Append(RemoveAt(news, i), l)
  BY DEF GoPublic, Publish, onboardingVars
<1>2. l \in Listings
  BY DEF GoPublic, Publish, StreetIInv, EditorIInv, TypeOK, JobsScoped, Idle
<1> HIDE DEF l
<1>3. /\ rent \in [Listings -> Rents] /\ let \subseteq Listings /\ shopper \in ShopperRows
      /\ news \in Seq(Listings) /\ IsInjective(news) /\ Range(news) = published
  BY DEF StreetIInv, MarketTypeOK
<1>4. /\ news' \in Seq(Listings) /\ IsInjective(news') /\ Range(news') = published'
      /\ l \notin published => /\ \A i \in DOMAIN news : i \in DOMAIN news' /\ news'[i] = news[i]
  <2>1. CASE l \notin published /\ news' = Append(news, l)
    BY <1>1, <1>2, <1>3, <2>1, AppendedApart
  <2>2. CASE \E i \in DOMAIN news : news[i] = l /\ news' = Append(RemoveAt(news, i), l)
    <3>1. PICK i \in DOMAIN news : news[i] = l /\ news' = Append(RemoveAt(news, i), l) BY <2>2
    <3> DEFINE r == RemoveAt(news, i)
    <3>2. r \in Seq(Listings) /\ IsInjective(r) /\ Range(r) = Range(news) \ {l}
      BY <1>3, <3>1, TakenOut
    <3> HIDE DEF r
    <3>3. news' = Append(r, l) BY <3>1 DEF r
    <3>4. /\ news' \in Seq(Listings) /\ IsInjective(news') /\ Range(news') = Range(r) \cup {l}
      BY <1>2, <3>2, <3>3, AppendedApart
    <3>5. l \in published BY <1>3, <3>1 DEF Range
    <3> QED BY <1>1, <1>3, <3>2, <3>4, <3>5
  <2> QED BY <1>1, <2>1, <2>2
<1>5. /\ shopper' \in ShopperRows
      /\ shopper'.pages = shopper.pages /\ shopper'.more = shopper.more
      /\ shopper'.shown = shopper.shown /\ shopper'.start = shopper.start
      /\ shopper'.sort = shopper.sort /\ shopper'.filter = shopper.filter
      /\ shopper'.came = shopper.came \cup {l}
      /\ shopper'.left = shopper.left \cup ({l} \cap published)
  <2> DEFINE C == {l}  L == {l} \cap published
  <2>1. C \in SUBSET Listings /\ L \in SUBSET Listings BY <1>2
  <2>2. shopper' = [shopper EXCEPT !.came = @ \cup C, !.left = @ \cup L] BY <1>1
  <2> HIDE DEF C, L
  <2>3. /\ shopper' \in ShopperRows
        /\ shopper'.pages = shopper.pages /\ shopper'.more = shopper.more
        /\ shopper'.shown = shopper.shown /\ shopper'.start = shopper.start
        /\ shopper'.sort = shopper.sort /\ shopper'.filter = shopper.filter
        /\ shopper'.came = shopper.came \cup C
        /\ shopper'.left = shopper.left \cup L
    BY <1>3, <2>1, <2>2, Noted
  <2> QED BY <2>3 DEF C, L
<1>6. MarketTypeOK' BY <1>1, <1>3, <1>4, <1>5 DEF MarketTypeOK
<1>7. published' \subseteq Listings BY <1>1, <1>2 DEF StreetIInv, EditorIInv, TypeOK
<1>8. ASSUME shopper'.left = {}
      PROVE  HisList \subseteq HisList' /\ \A k \in HisList : HisKey'[k] = HisKey[k]
  <2>1. l \notin published BY <1>5, <1>8
  <2>2. \A k \in HisList : Open(k)'
    BY <1>1, InWindow DEF HisList, Open, DeskOpen
  <2>3. HisList \subseteq HisList' BY <1>1, <1>5, <2>2, ListMoves
  <2>4. ASSUME NEW k \in published PROVE HisKey'[k] = HisKey[k]
    <3>1. k \in published' /\ shopper.sort \in Sorts BY <1>1, <1>3 DEF ShopperRows
    <3>2. PICK i \in DOMAIN news : news[i] = k BY <1>3 DEF Range
    <3>3. (CHOOSE j \in DOMAIN news : news[j] = k) = i BY <1>3, <3>2, PlaceOf
    <3>4. i \in DOMAIN news' /\ news'[i] = k BY <1>4, <2>1, <3>2
    <3>5. (CHOOSE j \in DOMAIN news' : news'[j] = k) = i BY <1>4, <3>4, PlaceOf
    <3>6. HisKey[k] = SortKey(shopper.sort, k) BY DEF HisKey, KeyOf
    <3>7. HisKey'[k] = SortKey(shopper.sort, k)'  BY <3>1 DEF HisKey, KeyOf
    <3>8. SortKey(shopper.sort, k)' = SortKey(shopper.sort, k)
      BY <1>1, <1>5, <3>1, <3>3, <3>5 DEF SortKey, Sorts
    <3> QED BY <3>6, <3>7, <3>8
  <2>5. HisList \subseteq published BY WindowInPublished DEF HisList
  <2> QED BY <2>3, <2>4, <2>5
<1>9. shopper'.came # {} BY <1>5
<1>10. shopper.left \subseteq shopper'.left /\ shopper.came \subseteq shopper'.came BY <1>5
<1>11. Honest' BY <1>5, <1>7, <1>8, <1>9, <1>10, NotedKeeps
<1> QED BY <1>6, <1>11

(* The other steps leave the keys alone and the published homes as they    *)
(* are.                                                                    *)
LEMMA ComingsAndGoings ==
  ASSUME StreetIInv, UNCHANGED <<published, rent, news>>, let' \subseteq Listings,
         NEW C \in SUBSET Listings, NEW L \in SUBSET Listings,
         shopper' = [shopper EXCEPT !.came = @ \cup C, !.left = @ \cup L],
         L = {} => \A k \in HisList : Open(k)',
         C = {} => \A k \in published : Open(k)' => Open(k)
  PROVE  MarketTypeOK' /\ Honest'
<1>1. /\ rent \in [Listings -> Rents] /\ shopper \in ShopperRows
      /\ news \in Seq(Listings) /\ IsInjective(news) /\ Range(news) = published
  BY DEF StreetIInv, MarketTypeOK
<1>2. /\ shopper' \in ShopperRows
      /\ shopper'.pages = shopper.pages /\ shopper'.more = shopper.more
      /\ shopper'.shown = shopper.shown /\ shopper'.start = shopper.start
      /\ shopper'.sort = shopper.sort /\ shopper'.filter = shopper.filter
      /\ shopper'.came = shopper.came \cup C
      /\ shopper'.left = shopper.left \cup L
  BY <1>1, Noted
<1>3. MarketTypeOK' BY <1>1, <1>2 DEF MarketTypeOK
<1>4. published' \subseteq Listings BY DEF StreetIInv, EditorIInv, TypeOK
<1>5. \A k \in published : HisKey'[k] = HisKey[k] BY <1>2, KeysStay DEF StreetIInv
<1>6. HisList \subseteq published BY WindowInPublished DEF HisList
<1>7. ASSUME shopper'.left = {} PROVE HisList \subseteq HisList'
  BY <1>2, <1>7, ListMoves
<1>8. ASSUME shopper'.came = {} PROVE HisList' \subseteq HisList
  <2>1. \A k \in HisList' : k \in published /\ Open(k)' BY DEF HisList, Window, OnShow, Open
  <2>2. C = {} BY <1>2, <1>8
  <2>3. \A k \in HisList' : Open(k) BY <2>1, <2>2
  <2> QED BY <1>2, <2>3, ListMoves
<1>9. shopper.left \subseteq shopper'.left /\ shopper.came \subseteq shopper'.came BY <1>2
<1>10. Honest' BY <1>2, <1>4, <1>5, <1>6, <1>7, <1>8, <1>9, NotedKeeps
<1> QED BY <1>3, <1>10

LEMMA StreetMovesKeep ==
  ASSUME StreetIInv, NEW l \in Listings, Let(l) \/ Free(l)
  PROVE  MarketTypeOK' /\ Honest'
<1>1. UNCHANGED <<published, rent, news, agency>> /\ let' \subseteq Listings
  BY DEF Let, Free, vars, onboardingVars, StreetIInv, MarketTypeOK
<1>2. shopper \in ShopperRows /\ HisList \subseteq published
  BY WindowInPublished DEF StreetIInv, MarketTypeOK, HisList
<1>3. \A k : DeskOpen(k)' <=> DeskOpen(k) BY <1>1 DEF DeskOpen
<1>4. \A k \in HisList : Open(k) BY InWindow DEF HisList
<1>5. CASE Let(l)
  <2> DEFINE L == {l} \cap HisList
  <2>1. let' = let \cup {l} /\ shopper' = [shopper EXCEPT !.left = @ \cup L]
    BY <1>5 DEF Let, Leave, HisList
  <2>2. L \in SUBSET Listings OBVIOUS
  <2>3. L = {} => \A k \in HisList : Open(k)' BY <1>1, <1>3, <1>4, <2>1 DEF Open
  <2>4. \A k \in published : Open(k)' => Open(k) BY <1>1, <1>3, <2>1 DEF Open
  <2> HIDE DEF L
  <2>5. shopper' = [shopper EXCEPT !.came = @ \cup {}, !.left = @ \cup L]
    BY <1>2, <2>1, NoneCame
  <2> QED BY <1>1, <2>2, <2>3, <2>4, <2>5, ComingsAndGoings
<1>6. CASE Free(l)
  <2> DEFINE C == {l} \ HisList
  <2>1. let' = let \ {l} /\ shopper' = [shopper EXCEPT !.came = @ \cup C] /\ l \in let
    BY <1>6 DEF Free, Come, HisList
  <2>2. C \in SUBSET Listings OBVIOUS
  <2>3. \A k \in HisList : Open(k)' BY <1>1, <1>3, <1>4, <2>1 DEF Open
  <2>4. C = {} => \A k \in published : Open(k)' => Open(k) BY <1>1, <1>3, <1>4, <2>1 DEF Open
  <2> HIDE DEF C
  <2> DEFINE none == {}
  <2>5. shopper' = [shopper EXCEPT !.came = @ \cup C, !.left = @ \cup none]
    BY <1>2, <2>1, NoneLeft
  <2>7. none \in SUBSET Listings OBVIOUS
  <2> HIDE DEF none
  <2> QED BY <1>1, <2>2, <2>3, <2>4, <2>5, <2>7, ComingsAndGoings
<1> QED BY <1>5, <1>6

LEMMA RepriceKeeps ==
  ASSUME StreetIInv, NEW l \in Listings, NEW r \in Rents, Reprice(l, r)
  PROVE  MarketTypeOK' /\ Honest'
<1>1. /\ UNCHANGED <<published, let, news>> /\ rent' = [rent EXCEPT ![l] = r]
      /\ shopper' = [shopper EXCEPT !.left = @ \cup {l}, !.came = @ \cup {l}]
  BY DEF Reprice, vars
<1>2. MarketTypeOK BY DEF StreetIInv
<1>3. shopper \in ShopperRows BY <1>2 DEF MarketTypeOK
<1>4. shopper' = [shopper EXCEPT !.came = @ \cup {l}, !.left = @ \cup {l}]
  BY <1>1, <1>3 DEF ShopperRows
<1>5. /\ shopper' \in ShopperRows
      /\ shopper'.pages = shopper.pages /\ shopper'.more = shopper.more
      /\ shopper'.shown = shopper.shown /\ shopper'.start = shopper.start
      /\ shopper'.came = shopper.came \cup {l} /\ shopper'.left = shopper.left \cup {l}
  <2> DEFINE C == {l}
  <2>1. C \in SUBSET Listings OBVIOUS
  <2>2. shopper' = [shopper EXCEPT !.came = @ \cup C, !.left = @ \cup C] BY <1>4
  <2> HIDE DEF C
  <2>3. /\ shopper' \in ShopperRows
        /\ shopper'.pages = shopper.pages /\ shopper'.more = shopper.more
        /\ shopper'.shown = shopper.shown /\ shopper'.start = shopper.start
        /\ shopper'.sort = shopper.sort /\ shopper'.filter = shopper.filter
        /\ shopper'.came = shopper.came \cup C
        /\ shopper'.left = shopper.left \cup C
    BY <1>3, <2>1, <2>2, Noted
  <2> QED BY <2>3 DEF C
<1>6. MarketTypeOK' BY <1>1, <1>2, <1>5 DEF MarketTypeOK
<1>7. published' \subseteq Listings BY <1>1 DEF StreetIInv, EditorIInv, TypeOK
<1>8. Honest' BY <1>5, <1>7, NotedKeeps
<1> QED BY <1>6, <1>8

LEMMA SuspensionsKeep ==
  ASSUME StreetIInv, NEW p \in Admins, NEW g \in Agencies, Suspend(p, g) \/ Reactivate(p, g)
  PROVE  MarketTypeOK' /\ Honest'
<1>1. UNCHANGED <<published, rent, news, let>> /\ let' \subseteq Listings
  BY DEF Suspend, Reactivate, vars, StreetIInv, MarketTypeOK
<1>2. /\ shopper \in ShopperRows /\ HisList \subseteq published /\ published \subseteq Listings
      /\ agency \in [Agencies -> AgencyRows \cup {Null}]
  BY WindowInPublished
  DEF StreetIInv, MarketTypeOK, HisList, OnboardingIInv, OnboardingTypeOK, EditorIInv, TypeOK
<1>3. agency[g] \in AgencyRows BY <1>2 DEF Suspend, Reactivate, PatchAgency, Made
<1>4. \A k \in published : AgencyOf[k] \in Agencies /\ agency[AgencyOf[k]] # Null
  BY <1>2, MarketAssumption DEF StreetIInv, AgenciesBehind
<1>5. \A k \in HisList : Open(k) BY InWindow DEF HisList
<1>6. \A k \in published : k \in HomesOf(g) <=> AgencyOf[k] = g BY <1>2 DEF HomesOf
<1>7. ASSUME NEW status, agency' = [agency EXCEPT ![g].status = status],
             status \in {"active", "suspended"}
      PROVE  /\ \A k \in published : AgencyOf[k] # g => (Open(k)' <=> Open(k))
             /\ \A k \in published : AgencyOf[k] = g =>
                  (Open(k)' <=> k \notin let /\ status = "active")
  <2>1. agency'[g].status = status /\ agency'[g] # Null
    <3>1. agency'[g] = [agency[g] EXCEPT !.status = status] BY <1>2, <1>7
    <3>2. [agency[g] EXCEPT !.status = status] \in AgencyRows BY <1>3, <1>7 DEF AgencyRows
    <3>3. [agency[g] EXCEPT !.status = status].status = status BY <1>3 DEF AgencyRows
    <3> QED BY <3>1, <3>2, <3>3, OnboardingAssumption
  <2>2. \A h \in Agencies : h # g => agency'[h] = agency[h] BY <1>2, <1>7
  <2>3. \A k \in published : AgencyOf[k] # g => (DeskOpen(k)' <=> DeskOpen(k))
    BY <1>4, <2>2 DEF DeskOpen
  <2>4. \A k \in published : AgencyOf[k] = g => (DeskOpen(k)' <=> status = "active")
    BY <2>1 DEF DeskOpen
  <2> QED BY <1>1, <2>3, <2>4 DEF Open
<1>8. CASE Suspend(p, g)
  <2> DEFINE L == HomesOf(g) \cap HisList
  <2>1. /\ agency' = [agency EXCEPT ![g].status = "suspended"]
        /\ shopper' = [shopper EXCEPT !.left = @ \cup L]
    BY <1>8 DEF Suspend, PatchAgency, Leave, HisList
  <2>2. /\ \A k \in published : AgencyOf[k] # g => (Open(k)' <=> Open(k))
        /\ \A k \in published : AgencyOf[k] = g => ~Open(k)'
    <3>1. "suspended" \in {"active", "suspended"} /\ ~("suspended" = "active") OBVIOUS
    <3>2. /\ \A k \in published : AgencyOf[k] # g => (Open(k)' <=> Open(k))
          /\ \A k \in published : AgencyOf[k] = g =>
               (Open(k)' <=> k \notin let /\ "suspended" = "active")
      BY <1>7, <2>1, <3>1
    <3> QED BY <3>1, <3>2
  <2>3. L \in SUBSET Listings BY <1>2
  <2>4. L = {} => \A k \in HisList : Open(k)' BY <1>2, <1>5, <1>6, <2>2
  <2>5. \A k \in published : Open(k)' => Open(k) BY <2>2
  <2> HIDE DEF L
  <2>6. shopper' = [shopper EXCEPT !.came = @ \cup {}, !.left = @ \cup L]
    BY <1>2, <2>1, NoneCame
  <2> QED BY <1>1, <2>3, <2>4, <2>5, <2>6, ComingsAndGoings
<1>9. CASE Reactivate(p, g)
  <2> DEFINE C == HomesOf(g) \ HisList
  <2>1. /\ agency' = [agency EXCEPT ![g].status = "active"]
        /\ shopper' = [shopper EXCEPT !.came = @ \cup C]
    BY <1>9 DEF Reactivate, PatchAgency, Come, HisList
  <2>2. /\ \A k \in published : AgencyOf[k] # g => (Open(k)' <=> Open(k))
        /\ \A k \in published : AgencyOf[k] = g => (Open(k)' <=> k \notin let)
    BY <1>7, <2>1
  <2>3. C \in SUBSET Listings BY DEF HomesOf
  <2>4. \A k \in HisList : Open(k)' BY <1>2, <1>5, <2>2 DEF Open
  <2>5. C = {} => \A k \in published : Open(k)' => Open(k) BY <1>5, <1>6, <2>2
  <2> HIDE DEF C
  <2> DEFINE none == {}
  <2>6. shopper' = [shopper EXCEPT !.came = @ \cup C, !.left = @ \cup none]
    BY <1>2, <2>1, NoneLeft
  <2>7. none \in SUBSET Listings OBVIOUS
  <2> HIDE DEF none
  <2> QED BY <1>1, <2>3, <2>4, <2>5, <2>6, <2>7, ComingsAndGoings
<1> QED BY <1>8, <1>9

LEMMA ShopperKeeps ==
  ASSUME StreetIInv, LoadMore \/ \E sort \in Sorts, f \in Filters : Look(sort, f)
  PROVE  MarketTypeOK' /\ Honest'
<1>1. UNCHANGED <<published, rent, let, news, agency>>
  BY DEF LoadMore, Look, vars, onboardingVars
<1>2. MarketTypeOK /\ published \subseteq Listings BY DEF StreetIInv, EditorIInv, TypeOK
<1>3. shopper \in ShopperRows BY <1>2 DEF MarketTypeOK
<1>4. PICK sort \in Sorts, f \in {Away.filter} \cup Filters :
        /\ shopper' \in ShopperRows
        /\ shopper'.sort = sort /\ shopper'.filter = f
        /\ NothingSkipped(shopper', Window(f), KeyOf(sort))
        /\ NothingTwice(shopper', Window(f), KeyOf(sort))
  <2>1. CASE LoadMore
    <3> DEFINE sort == shopper.sort  f == shopper.filter
    <3>1. sort \in Sorts /\ f \in {Away.filter} \cup Filters
      <4> DEFINE any == Away.filter
      <4> HIDE DEF any
      <4>1. shopper.sort \in Sorts /\ shopper.filter \in {any} \cup Filters
        BY <1>3 DEF ShopperRows, any
      <4> QED BY <4>1 DEF any
    <3>2. NothingSkipped(shopper, Window(f), KeyOf(sort)) /\ NothingTwice(shopper, Window(f), KeyOf(sort))
      BY DEF StreetIInv, Honest, HisList, HisKey
    <3>3. Load(sort, f, shopper.pages + 1, shopper) BY <2>1 DEF LoadMore
    <3> QED BY <1>2, <1>3, <3>1, <3>2, <3>3, LoadKeeps
  <2>2. CASE \E sort \in Sorts, f \in Filters : Look(sort, f)
    BY <1>2, <2>2, LookKeeps
  <2> QED BY <2>1, <2>2
<1>5. MarketTypeOK' BY <1>1, <1>2, <1>4 DEF MarketTypeOK
<1>6. HisList' = Window(f) BY <1>1, <1>4 DEF HisList, Window, OnShow, DeskOpen
<1>7. HisKey' = KeyOf(sort) BY <1>1, <1>4 DEF HisKey, KeyOf, SortKey
<1> QED BY <1>4, <1>5, <1>6, <1>7 DEF Honest, NothingSkipped, NothingTwice

LEMMA StreetNext == StreetIInv /\ [MarketNext]_marketVars => StreetIInv'
<1> SUFFICES ASSUME StreetIInv, [MarketNext]_marketVars PROVE StreetIInv' OBVIOUS
<1>1. EditorIInv' /\ OnboardingIInv'
  BY MarketSteps, EditorNextIInv, OnboardingNextIInv DEF StreetIInv
<1>2. AgenciesBehind' BY AgenciesBehindKeeps
<1>3. MarketTypeOK' /\ Honest'
  <2>1. CASE UNCHANGED marketVars
    <3>1. UNCHANGED <<published, street>> /\ UNCHANGED agency
      BY <2>1 DEF marketVars, vars, onboardingVars
    <3> QED BY <3>1, NothingMoves DEF DeskOpen
  <2>2. CASE Founding /\ UNCHANGED <<vars, street>> BY <2>2, FoundingKeeps
  <2>3. CASE EditorCalls \/ PublishCalls BY <2>3, CallsKeep
  <2>4. CASE Moves BY <2>4, GoPublicKeeps, SuspensionsKeep DEF Moves
  <2>5. CASE Street BY <2>5, StreetMovesKeep, RepriceKeeps, ShopperKeeps DEF Street
  <2> QED BY <2>1, <2>2, <2>3, <2>4, <2>5 DEF MarketNext
<1> QED BY <1>1, <1>2, <1>3 DEF StreetIInv

LEMMA StreetInit == Init /\ OnboardingInit /\ MarketInit => StreetIInv
<1> SUFFICES ASSUME Init, OnboardingInit, MarketInit PROVE StreetIInv OBVIOUS
<1>1. EditorIInv /\ OnboardingIInv BY EditorInitIInv, OnboardingInitIInv
<1>2. AgenciesBehind BY DEF Init, AgenciesBehind, Idle
<1>3. Away \in ShopperRows
  <2> DEFINE any == Away.filter
  <2>1. <<>> \in Seq(Listings) OBVIOUS
  <2>2. ShopperRows = [pages : Nat, more : BOOLEAN, shown : Seq(Listings), sort : Sorts,
                       filter : {any} \cup Filters, start : SUBSET Listings,
                       came : SUBSET Listings, left : SUBSET Listings]
    BY DEF ShopperRows
  <2>3. /\ Away = [pages |-> 0, more |-> FALSE, shown |-> <<>>, sort |-> "newest",
                   filter |-> any, start |-> {}, came |-> {}, left |-> {}]
    BY DEF Away
  <2> HIDE DEF any
  <2> QED BY <2>1, <2>2, <2>3 DEF Sorts
<1>4. Range(<<>>) = {} /\ IsInjective(<<>>) BY DEF Range, IsInjective
<1>5. MarketTypeOK BY <1>3, <1>4 DEF Init, MarketInit, MarketTypeOK
<1>6. /\ shopper.start = {} /\ shopper.pages = 0 /\ shopper.shown = <<>>
  BY DEF MarketInit, Away
<1>7. Honest BY <1>4, <1>6 DEF Honest, NothingSkipped, NothingTwice
<1> QED BY <1>1, <1>2, <1>5, <1>7 DEF StreetIInv

(* publicList() pages by offset, by its key and then by id, over a list    *)
(* that changes while a shopper goes through it: whoever has reached the   *)
(* end has seen every home he began with, unless one left or moved, and no *)
(* card comes twice, unless one came or moved - for any page size, any     *)
(* number of homes and any mixture of publishing, letting, freeing,        *)
(* repricing, suspending and reactivating between two of his pages.        *)
THEOREM ScrollsAreComplete == MarketSpec => []ScrollIsComplete
<1>1. StreetIInv => ScrollIsComplete BY StreetIInvGivesScroll
<1> QED BY <1>1, StreetInit, StreetNext, PTL DEF MarketSpec

(* Every variable of the market keeps its type, and the homes on show are  *)
(* listed once each, by the date they were published.                      *)
THEOREM MarketTypeCorrect == MarketSpec => []MarketTypeOK
<1>1. StreetIInv => MarketTypeOK BY DEF StreetIInv
<1> QED BY <1>1, StreetInit, StreetNext, PTL DEF MarketSpec

--------------------------------------------------------------------------------
(* THE SAME HOMES, COUNTED                                                 *)

(* A finite list can be put in order: every home in the place its rank     *)
(* says.                                                                   *)
LEMMA RanksApart ==
  ASSUME NEW W, NEW key, Keyed(key, W), NEW k \in W, NEW l \in W, Ordered(key, k, l)
  PROVE  Cardinality(Ahead(key, W, k)) < Cardinality(Ahead(key, W, l))
<1> DEFINE A == Ahead(key, W, k)  B == Ahead(key, W, l)
<1>1. \A m \in W : key[m] \in Int /\ IdOf[m] \in Nat BY MarketAssumption DEF Keyed
<1>2. A \subseteq B \ {k} /\ k \in B BY <1>1 DEF Ahead, Ordered
<1>3. B \subseteq W /\ IsFiniteSet(W) BY DEF Ahead, Keyed
<1> HIDE DEF A, B
<1>4. IsFiniteSet(B) BY <1>3, FS_Subset
<1>5. IsFiniteSet(B \ {k}) /\ Cardinality(B \ {k}) = Cardinality(B) - 1
  BY <1>2, <1>4, FS_RemoveElement
<1>6. IsFiniteSet(A) /\ Cardinality(A) <= Cardinality(B \ {k}) BY <1>2, <1>5, FS_Subset
<1>7. Cardinality(A) \in Nat /\ Cardinality(B) \in Nat BY <1>4, <1>6, FS_CardinalityType
<1>8. Cardinality(A) < Cardinality(B) BY <1>5, <1>6, <1>7
<1> QED BY <1>8 DEF A, B

LEMMA CanBeSorted ==
  ASSUME NEW W, NEW key, Keyed(key, W)
  PROVE  \E q : Sorted(q, key, W)
<1> DEFINE n == Cardinality(W)  rank == [l \in W |-> Cardinality(Ahead(key, W, l)) + 1]
<1>1. W \subseteq Listings /\ IsFiniteSet(W) /\ \A m \in W : key[m] \in Int BY DEF Keyed
<1>2. n \in Nat BY <1>1, FS_CardinalityType
<1>3. \A m \in W : IdOf[m] \in Nat BY <1>1, MarketAssumption
<1>4. \A k, l \in W : k # l => Ordered(key, k, l) \/ Ordered(key, l, k)
  <2>1. \A k, l \in W : IdOf[k] = IdOf[l] => k = l
    BY <1>1, MarketAssumption DEF IsInjective
  <2> QED BY <1>1, <1>3, <2>1 DEF Ordered
<1>5. ASSUME NEW l \in W PROVE Cardinality(Ahead(key, W, l)) \in Nat /\ Cardinality(Ahead(key, W, l)) < n
  <2>1. Ahead(key, W, l) \subseteq W \ {l} BY <1>1, <1>3 DEF Ahead, Ordered
  <2>2. IsFiniteSet(W \ {l}) /\ Cardinality(W \ {l}) = n - 1 BY <1>1, FS_RemoveElement
  <2>3. IsFiniteSet(Ahead(key, W, l)) /\ Cardinality(Ahead(key, W, l)) <= n - 1
    BY <2>1, <2>2, FS_Subset
  <2>4. Cardinality(Ahead(key, W, l)) \in Nat BY <2>3, FS_CardinalityType
  <2> QED BY <1>2, <2>3, <2>4
<1> HIDE DEF n
<1>6. rank \in [W -> 1 .. n]
  <2>1. ASSUME NEW l \in W PROVE Cardinality(Ahead(key, W, l)) + 1 \in 1 .. n BY <1>2, <1>5
  <2> QED BY <2>1
<1>7. \A k, l \in W : Ordered(key, k, l) => rank[k] < rank[l] BY <1>5, RanksApart
<1> HIDE DEF rank
<1>8. \A l \in W : rank[l] \in Int BY <1>6
<1>9. \A k, l \in W : rank[k] = rank[l] => k = l BY <1>4, <1>7, <1>8
<1>10. rank \in Injection(W, 1 .. n) BY <1>6, <1>9 DEF Injection, IsInjective
<1>11. IsFiniteSet(1 .. n) /\ Cardinality(1 .. n) = Cardinality(W)
  BY <1>2, FS_Interval DEF n
<1>12. rank \in Surjection(W, 1 .. n) BY <1>10, <1>11, FS_Injection
<1>13. \A i \in 1 .. n : \E l \in W : rank[l] = i BY <1>12 DEF Surjection
<1> DEFINE q == [i \in 1 .. n |-> CHOOSE l \in W : rank[l] = i]
<1>14. \A i \in 1 .. n : q[i] \in W /\ rank[q[i]] = i BY <1>13
<1>15. q \in [1 .. n -> W]
  <2>1. \A i \in 1 .. n : (CHOOSE l \in W : rank[l] = i) \in W BY <1>13
  <2> QED BY <2>1
<1> HIDE DEF q
<1>16. ASSUME NEW i \in 1 .. n, NEW j \in 1 .. n, i < j PROVE Ordered(key, q[i], q[j])
  <2>1. q[i] \in W /\ q[j] \in W /\ rank[q[i]] = i /\ rank[q[j]] = j BY <1>14
  <2>2. q[i] # q[j] BY <1>16, <2>1
  <2>3. ~Ordered(key, q[j], q[i]) BY <1>7, <1>16, <2>1
  <2> QED BY <1>4, <2>1, <2>2, <2>3
<1>17. DOMAIN q = 1 .. n BY <1>15
<1>18. Sorted(q, key, W) BY <1>15, <1>16, <1>17 DEF Sorted, n
<1> QED BY <1>18

(* What the service answers is such an order.                              *)
LEMMA SortedAreOrders ==
  ASSUME NEW sort, NEW f, NEW q, Sorted(q, KeyOf(sort), Window(f))
  PROVE  q \in Orders(sort, Window(f))
<1> DEFINE W == Window(f)
<1>1. /\ q \in [1 .. Cardinality(W) -> W]
      /\ \A i, j \in DOMAIN q : i < j => Ordered(KeyOf(sort), q[i], q[j])
  BY DEF Sorted
<1>2. \A l \in W : KeyOf(sort)[l] = SortKey(sort, l) BY WindowInPublished DEF KeyOf
<1> HIDE DEF W
<1>3. ASSUME NEW i \in DOMAIN q, NEW j \in DOMAIN q, i < j PROVE Before(sort, q[i], q[j])
  <2>1. q[i] \in W /\ q[j] \in W BY <1>1
  <2>2. Ordered(KeyOf(sort), q[i], q[j]) BY <1>1, <1>3
  <2>3. /\ KeyOf(sort)[q[i]] = SortKey(sort, q[i])
        /\ KeyOf(sort)[q[j]] = SortKey(sort, q[j])
    BY <1>2, <2>1
  <2> QED BY <2>2, <2>3, Zenon DEF Before, Ordered
<1> QED BY <1>1, <1>3 DEF Orders, W

(* The sitemap's pages are as many as there can be homes.                  *)
LEMMA SitemapIsWhole ==
  ASSUME MarketTypeOK, published \subseteq Listings
  PROVE  {Cards} = Sitemap(Cardinality(Listings))
<1> DEFINE W == Window(Everything)  key == KeyOf("newest")
           size == Cardinality(Listings) * BROWSE_PAGE_SIZE
<1>1. "newest" \in Sorts BY DEF Sorts
<1>2. Keyed(key, W) BY <1>1, KeysAreTyped
<1>3. W = Cards BY DEF Cards
<1>4. Cardinality(W) \in Nat /\ size \in Nat /\ Cardinality(W) <= size
  <2>1. IsFiniteSet(Listings) /\ BROWSE_PAGE_SIZE \in Nat \ {0} BY MarketAssumption
  <2>2. W \subseteq Listings /\ IsFiniteSet(W) BY <1>2 DEF Keyed
  <2> HIDE DEF W
  <2>3. Cardinality(W) <= Cardinality(Listings) BY <2>1, <2>2, FS_Subset
  <2>4. Cardinality(W) \in Nat /\ Cardinality(Listings) \in Nat
    BY <2>1, <2>2, FS_CardinalityType
  <2>5. \A a \in Nat, b \in Nat \ {0} : a * b \in Nat /\ a <= a * b OBVIOUS
  <2>6. size \in Nat /\ Cardinality(Listings) <= size BY <2>1, <2>4, <2>5
  <2> QED BY <2>3, <2>4, <2>6
<1>5. ASSUME NEW q \in Orders("newest", W)
      PROVE  {q[i] : i \in 1 .. IF size < Len(q) THEN size ELSE Len(q)} = W
  <2>1. Sorted(q, key, W) BY OrdersAreSorted
  <2> HIDE DEF W, key, size
  <2>2. /\ q \in Seq(W) /\ Len(q) = Cardinality(W)
        /\ \A l \in W : \E i \in DOMAIN q : q[i] = l
    BY <1>2, <2>1, Ranked
  <2>3. ~(size < Len(q)) BY <1>4, <2>2
  <2>4. DOMAIN q = 1 .. Len(q) /\ \A i \in DOMAIN q : q[i] \in W BY <2>2
  <2> QED BY <2>2, <2>3, <2>4
<1>6. PICK q : q \in Orders("newest", W)
  <2>1. PICK q : Sorted(q, key, W)
    <3> HIDE DEF W, key
    <3> QED BY <1>2, CanBeSorted
  <2> QED BY <2>1, SortedAreOrders
<1> HIDE DEF W, key
<1> DEFINE Part(p) == {p[i] : i \in 1 .. IF size < Len(p) THEN size ELSE Len(p)}
<1>7. Sitemap(Cardinality(Listings)) = {Part(p) : p \in Orders("newest", W)}
  BY <1>3 DEF Sitemap
<1>8. \A p \in Orders("newest", W) : Part(p) = W BY <1>5
<1> HIDE DEF Part
<1>9. {Part(p) : p \in Orders("newest", W)} = {W} BY <1>6, <1>8
<1> QED BY <1>3, <1>7, <1>9

LEMMA SameHomesCounted ==
  ASSUME EditorIInv, MarketTypeOK PROVE SameHomes
<1>1. published \subseteq Listings /\ published \subseteq exists BY DEF EditorIInv, TypeOK
<1>2. \A l \in published : 0 <= rent[l]
  <2>1. \A l \in published : rent[l] \in Rents BY <1>1 DEF MarketTypeOK
  <2>2. \A r \in Rents : 0 <= r BY MarketAssumption
  <2> QED BY <2>1, <2>2
<1>3. Cards = OnShow BY <1>2 DEF Cards, Window, Everything, NoLimit, OnShow
<1>4. ASSUME NEW g \in Directory
      PROVE  LET n == Cardinality({l \in Cards : AgencyOf[l] = g}) IN
             LiveListings(g) = n /\ ListingCount(g) = n /\ ActiveListings(g) = n
  <2>1. \A l : AgencyOf[l] = g => DeskOpen(l) BY DEF Directory, Made, DeskOpen
  <2>2. {l \in published \ let : AgencyOf[l] = g} = {l \in Cards : AgencyOf[l] = g}
    BY <1>3, <2>1 DEF OnShow
  <2>3. {l \in ConsoleList(g) : l \in published /\ l \notin let} = {l \in Cards : AgencyOf[l] = g}
    BY <1>1, <1>3, <2>1 DEF OnShow, ConsoleList
  <2> QED BY <1>3, <2>2, <2>3 DEF LiveListings, ListingCount, ActiveListings
<1>5. \A l \in Cards : DetailFound(l) BY <1>3 DEF DetailFound
<1>6. {Cards} = Sitemap(Cardinality(Listings)) BY <1>1, SitemapIsWhole
<1> QED BY <1>4, <1>5, <1>6 DEF SameHomes

LEMMA EditorPageAgrees == ASSUME EditorIInv PROVE EditorAgrees
<1> SUFFICES ASSUME NEW l \in exists, DeskOpen(l)
             PROVE  /\ \A call \in EditorOffers(EditorView(l)) \ {"photos"} : ServeEditor(call, l)
                    /\ Publishable(l) => "publish" \in EditorOffers(EditorView(l))
  BY DEF EditorAgrees
<1> DEFINE view == EditorView(l)
<1>1. /\ view.published = (l \in published) /\ view.verified = (l \in verified)
      /\ view.photos = Len(photos[l])
  BY DEF EditorView
<1>2. photos[l] # <<>> <=> Len(photos[l]) > 0
  <2>1. photos[l] \in Seq(Images) BY DEF EditorIInv, TypeOK
  <2> QED BY <2>1, EmptySeq
<1> HIDE DEF view
<1>3. "publish" \in EditorOffers(view) <=> Publishable(l)
  BY <1>1, <1>2, Zenon DEF EditorOffers, Publishable
<1>4. EditorOffers(view) \subseteq {"save", "photos", "owner doc", "requests", "attest", "publish"}
  BY DEF EditorOffers
<1>5. \A call \in EditorOffers(view) \ {"photos"} : ServeEditor(call, l)
  BY <1>3, <1>4 DEF ServeEditor
<1> QED BY <1>3, <1>5 DEF view

(* The editor's page offers what the service takes, and the public list,   *)
(* the pages it leads to, the directory, the agency's dashboard and the    *)
(* sitemap mean the same homes, in every state the market can come to.     *)
THEOREM ConsolesAlwaysAgree == MarketSpec => []ConsolesAgree
<1>1. StreetIInv => ConsolesAgree
  BY SameHomesCounted, EditorPageAgrees DEF StreetIInv, ConsolesAgree
<1> QED BY <1>1, StreetInit, StreetNext, PTL DEF MarketSpec

--------------------------------------------------------------------------------
(* THE BOOKS: SUMS.  A library sum is a chosen recursive function; that    *)
(* there is one is shown by counting pebbles: f[x] of them on every x.     *)
Heap(f, A) == {pebble \in A \X Nat : 1 <= pebble[2] /\ pebble[2] <= f[pebble[1]]}
Weights(f, A) == IsFiniteSet(A) /\ \A x \in A : f[x] \in Nat

(* What holds of the empty set, and of a set with one element more, holds  *)
(* of a finite set.                                                        *)
LEMMA SetInduction ==
  ASSUME NEW S, IsFiniteSet(S), NEW good, {} \in good,
         \A s \in SUBSET S : \A x \in S \ s : s \in good => s \cup {x} \in good
  PROVE  S \in good
<1> DEFINE bad == (SUBSET S) \ good
<1>1. SUFFICES ASSUME S \notin good PROVE FALSE
  OBVIOUS
<1>2. IsWellFoundedOn(StrictSubsetOrdering(S), SUBSET S)
  BY FS_StrictSubsetOrderingWellFounded, FS_FiniteSubsetsOfFinite
<1>3. bad \subseteq SUBSET S /\ bad # {}
  BY <1>1
<1>4. PICK s \in bad : \A r \in bad : <<r, s>> \notin StrictSubsetOrdering(S)
  <2> HIDE DEF bad
  <2>1. QED BY <1>2, <1>3, WFMin
<1>5. PICK x \in s : TRUE
  OBVIOUS
<1>6. s \ {x} \in SUBSET S /\ x \in S \ (s \ {x}) /\ (s \ {x}) \cup {x} = s
  BY <1>4, <1>5
<1>7. <<s \ {x}, s>> \in StrictSubsetOrdering(S)
  BY <1>4, <1>5 DEF StrictSubsetOrdering
<1>8. s \ {x} \in good
  BY <1>4, <1>6, <1>7
<1>9. QED BY <1>4, <1>6, <1>8

(* Two functions on the subsets of a finite set that agree on the empty    *)
(* set, and on a set if they do on one with one element less, agree.       *)
LEMMA SetRecursionIsUnique ==
  ASSUME NEW S, IsFiniteSet(S), NEW f, NEW g, f[{}] = g[{}],
         \A s \in (SUBSET S) \ {{}} : \E x \in s : f[s \ {x}] = g[s \ {x}] => f[s] = g[s]
  PROVE  f[S] = g[S]
<1> DEFINE differ == {s \in SUBSET S : f[s] # g[s]}
<1>1. SUFFICES ASSUME f[S] # g[S] PROVE FALSE
  OBVIOUS
<1>2. IsWellFoundedOn(StrictSubsetOrdering(S), SUBSET S)
  BY FS_StrictSubsetOrderingWellFounded, FS_FiniteSubsetsOfFinite
<1>3. differ \subseteq SUBSET S /\ differ # {}
  BY <1>1
<1>4. PICK s \in differ : \A r \in differ : <<r, s>> \notin StrictSubsetOrdering(S)
  <2> HIDE DEF differ
  <2>1. QED BY <1>2, <1>3, WFMin
<1>5. s \in SUBSET S /\ s # {}
  OBVIOUS
<1>6. PICK x \in s : f[s \ {x}] = g[s \ {x}] => f[s] = g[s]
  BY <1>5
<1>7. <<s \ {x}, s>> \in StrictSubsetOrdering(S)
  BY <1>5, <1>6 DEF StrictSubsetOrdering
<1>8. QED BY <1>4, <1>5, <1>6, <1>7

LEMMA HeapsAdd ==
  ASSUME NEW f, NEW A, NEW B, A \cap B = {},
         IsFiniteSet(Heap(f, A)), IsFiniteSet(Heap(f, B))
  PROVE  /\ IsFiniteSet(Heap(f, A \cup B))
         /\ Cardinality(Heap(f, A \cup B)) = Cardinality(Heap(f, A)) + Cardinality(Heap(f, B))
<1>1. Heap(f, A \cup B) = Heap(f, A) \cup Heap(f, B)
  BY DEF Heap
<1>2. Heap(f, A) \cap Heap(f, B) = {}
  BY DEF Heap
<1> DEFINE P == Heap(f, A)  Q == Heap(f, B)
<1>3. IsFiniteSet(P) /\ IsFiniteSet(Q) /\ P \cap Q = {}
  BY <1>2
<1> HIDE DEF P, Q
<1>4. Cardinality(P) \in Nat /\ Cardinality(Q) \in Nat
  BY <1>3, FS_CardinalityType
<1>5. IsFiniteSet(P \cup Q) /\ Cardinality(P \cup Q) = Cardinality(P) + Cardinality(Q) - Cardinality(P \cap Q)
  BY <1>3, FS_Union
<1>6. Cardinality(P \cup Q) = Cardinality(P) + Cardinality(Q)
  <2>1. Cardinality(P \cap Q) = 0 BY <1>3, FS_EmptySet
  <2>2. \A a, b \in Nat : a + b - 0 = a + b OBVIOUS
  <2> QED BY <1>4, <1>5, <2>1, <2>2
<1>7. QED BY <1>1, <1>5, <1>6 DEF P, Q

LEMMA OneHeap ==
  ASSUME NEW f, NEW x, f[x] \in Nat
  PROVE  IsFiniteSet(Heap(f, {x})) /\ Cardinality(Heap(f, {x})) = f[x]
<1> DEFINE I == 1 .. f[x]
<1>1. Heap(f, {x}) = {x} \X I
  BY DEF Heap
<1>2. IsFiniteSet(I) /\ Cardinality(I) = f[x]
  <2> DEFINE n == f[x]
  <2>1. n \in Nat /\ n \in Int /\ 1 \in Int OBVIOUS
  <2> HIDE DEF n
  <2>2. IsFiniteSet(1 .. n) /\ Cardinality(1 .. n) = IF 1 > n THEN 0 ELSE n - 1 + 1
    BY <2>1, FS_Interval
  <2>3. IsFiniteSet(1 .. n) /\ Cardinality(1 .. n) = n BY <2>1, <2>2
  <2> QED BY <2>3 DEF n
<1>3. IsFiniteSet({x}) /\ Cardinality({x}) = 1
  BY FS_Singleton
<1> DEFINE X == {x}
<1> HIDE DEF I, X
<1>4. IsFiniteSet(X) /\ Cardinality(X) = 1 BY <1>3 DEF X
<1>5. IsFiniteSet(X \X I) /\ Cardinality(X \X I) = 1 * Cardinality(I)
  BY <1>2, <1>4, FS_Product
<1>6. Cardinality(X \X I) = f[x] BY <1>2, <1>5
<1>7. Heap(f, {x}) = X \X I BY <1>1 DEF X
<1>8. QED BY <1>5, <1>6, <1>7

LEMMA HeapsAreFinite ==
  ASSUME NEW f, NEW A, Weights(f, A)
  PROVE  IsFiniteSet(Heap(f, A))
<1> DEFINE good == {s \in SUBSET A : IsFiniteSet(Heap(f, s))}
<1>1. {} \in good
  <2>1. Heap(f, {}) = {} BY DEF Heap
  <2> QED BY <2>1, FS_EmptySet
<1>2. ASSUME NEW s \in SUBSET A, NEW x \in A \ s, s \in good
      PROVE  s \cup {x} \in good
  <2>1. f[x] \in Nat BY DEF Weights
  <2>2. IsFiniteSet(Heap(f, {x})) BY <2>1, OneHeap
  <2> DEFINE X == {x}
  <2>3. s \cap X = {} /\ IsFiniteSet(Heap(f, X)) BY <2>2
  <2> HIDE DEF X
  <2>4. IsFiniteSet(Heap(f, s \cup X)) BY <1>2, <2>3, HeapsAdd
  <2> QED BY <1>2, <2>4 DEF X
<1>3. IsFiniteSet(A) BY DEF Weights
<1> HIDE DEF good
<1>4. A \in good BY <1>1, <1>2, <1>3, SetInduction
<1> QED BY <1>4 DEF good

(* The library's sum counts the heap.                                      *)
LEMMA TotalIsHeap ==
  ASSUME NEW f, NEW A, Weights(f, A)
  PROVE  SumFunctionOnSet(f, A) = Cardinality(Heap(f, A))
<1> DEFINE Pick(s) == CHOOSE x \in s : TRUE
           Sums(g) == g = [s \in SUBSET A |->
                             IF s = {} THEN 0 ELSE f[Pick(s)] + g[s \ {Pick(s)}]]
           sum == CHOOSE g : Sums(g)
           total == [s \in SUBSET A |-> Cardinality(Heap(f, s))]
<1>1. SumFunctionOnSet(f, A) = sum[A]
  BY DEF SumFunctionOnSet, FoldFunctionOnSet, MapThenFoldSet
<1>2. \A s \in (SUBSET A) \ {{}} : Pick(s) \in s
  OBVIOUS
<1> HIDE DEF Pick
<1>3. ASSUME NEW s \in (SUBSET A) \ {{}}
      PROVE  total[s] = f[Pick(s)] + total[s \ {Pick(s)}]
  <2> DEFINE x == Pick(s)  X == {x}  R == s \ X
  <2>1. x \in s /\ x \in A BY <1>2
  <2>2. s = R \cup X /\ R \cap X = {} BY <2>1
  <2>3. f[x] \in Nat BY <2>1 DEF Weights
  <2>4. IsFiniteSet(Heap(f, X)) /\ Cardinality(Heap(f, X)) = f[x]
    <3> HIDE DEF x
    <3> QED BY <2>3, OneHeap
  <2>5. Weights(f, R)
    BY FS_Subset DEF Weights
  <2>6. IsFiniteSet(Heap(f, R)) /\ Cardinality(Heap(f, R)) \in Nat
    <3> HIDE DEF R
    <3> QED BY <2>5, HeapsAreFinite, FS_CardinalityType
  <2>7. Cardinality(Heap(f, R \cup X)) = Cardinality(Heap(f, R)) + Cardinality(Heap(f, X))
    <3> HIDE DEF R, X
    <3> QED BY <2>2, <2>4, <2>6, HeapsAdd
  <2>8. total[s] = Cardinality(Heap(f, s)) /\ total[R] = Cardinality(Heap(f, R)) OBVIOUS
  <2> HIDE DEF R, X, total
  <2>9. total[s] = f[x] + total[R] BY <2>2, <2>3, <2>4, <2>6, <2>7, <2>8
  <2> QED BY <2>9 DEF R, X
<1>4. total[{}] = 0
  <2>1. Heap(f, {}) = {} BY DEF Heap
  <2> QED BY <2>1, FS_EmptySet
<1>5. Sums(total)
  <2> HIDE DEF total
  <2>1. total = [s \in SUBSET A |-> total[s]]
    BY DEF total
  <2>2. QED BY <1>3, <1>4, <2>1
<1>6. Sums(sum)
  BY <1>5
<1>7. \A s \in (SUBSET A) \ {{}} : \E x \in s :
         sum[s \ {x}] = total[s \ {x}] => sum[s] = total[s]
  <2> HIDE DEF sum, total
  <2>1. ASSUME NEW s \in (SUBSET A) \ {{}}
        PROVE  sum[s] = f[Pick(s)] + sum[s \ {Pick(s)}]
    BY <1>6
  <2>2. QED BY <1>2, <1>3, <2>1
<1>8. sum[{}] = total[{}]
  <2> HIDE DEF sum, total
  <2>1. QED BY <1>4, <1>6
<1>9. sum[A] = total[A]
  <2> HIDE DEF sum, total, Sums
  <2>1. IsFiniteSet(A) BY DEF Weights
  <2> QED BY <1>7, <1>8, <2>1, SetRecursionIsUnique
<1>10. total[A] = Cardinality(Heap(f, A))
  OBVIOUS
<1> QED BY <1>1, <1>9, <1>10

LEMMA WeightsOfPart ==
  ASSUME NEW f, NEW A, NEW B, Weights(f, A), B \subseteq A
  PROVE  Weights(f, B)
BY FS_Subset DEF Weights

LEMMA TotalIsNatural ==
  ASSUME NEW f, NEW A, Weights(f, A)
  PROVE  SumFunctionOnSet(f, A) \in Nat
BY TotalIsHeap, HeapsAreFinite, FS_CardinalityType

LEMMA TotalOfNone ==
  ASSUME NEW f
  PROVE  SumFunctionOnSet(f, {}) = 0
<1>1. Weights(f, {}) BY FS_EmptySet DEF Weights
<1>2. Heap(f, {}) = {} BY DEF Heap
<1> QED BY <1>1, <1>2, TotalIsHeap, FS_EmptySet

LEMMA TotalOfOne ==
  ASSUME NEW f, NEW x, f[x] \in Nat
  PROVE  SumFunctionOnSet(f, {x}) = f[x]
<1>1. Weights(f, {x}) BY FS_Singleton DEF Weights
<1>2. Cardinality(Heap(f, {x})) = f[x] BY OneHeap
<1> DEFINE X == {x}
<1>3. Weights(f, X) /\ Cardinality(Heap(f, X)) = f[x] BY <1>1, <1>2
<1> HIDE DEF X
<1>4. SumFunctionOnSet(f, X) = f[x] BY <1>3, TotalIsHeap
<1> QED BY <1>4 DEF X

LEMMA TotalsAdd ==
  ASSUME NEW f, NEW A, NEW B, A \cap B = {}, Weights(f, A \cup B)
  PROVE  SumFunctionOnSet(f, A \cup B) = SumFunctionOnSet(f, A) + SumFunctionOnSet(f, B)
<1>1. Weights(f, A) /\ Weights(f, B) BY FS_Subset DEF Weights
<1>2. IsFiniteSet(Heap(f, A)) /\ IsFiniteSet(Heap(f, B)) BY <1>1, HeapsAreFinite
<1> DEFINE U == A \cup B
<1>3. Cardinality(Heap(f, U)) = Cardinality(Heap(f, A)) + Cardinality(Heap(f, B))
  BY <1>2, HeapsAdd
<1>4. Weights(f, U) OBVIOUS
<1> HIDE DEF U
<1>5. /\ SumFunctionOnSet(f, U) = Cardinality(Heap(f, U))
      /\ SumFunctionOnSet(f, A) = Cardinality(Heap(f, A))
      /\ SumFunctionOnSet(f, B) = Cardinality(Heap(f, B))
  BY <1>1, <1>4, TotalIsHeap
<1> QED BY <1>3, <1>5 DEF U

LEMMA TotalWithOneMore ==
  ASSUME NEW f, NEW A, Weights(f, A), NEW s \in SUBSET A, NEW x \in A \ s
  PROVE  SumFunctionOnSet(f, s \cup {x}) = SumFunctionOnSet(f, s) + f[x]
<1> DEFINE X == {x}
<1>1. s \cap X = {} /\ s \cup X \subseteq A OBVIOUS
<1>2. f[x] \in Nat BY DEF Weights
<1>3. SumFunctionOnSet(f, X) = f[x] BY <1>2, TotalOfOne
<1> HIDE DEF X
<1>4. Weights(f, s \cup X) BY <1>1, WeightsOfPart
<1>5. SumFunctionOnSet(f, s \cup X) = SumFunctionOnSet(f, s) + SumFunctionOnSet(f, X)
  BY <1>1, <1>4, TotalsAdd
<1> QED BY <1>3, <1>5 DEF X

(* Amounts f, the same in whole dollars g, on h rows each.                 *)
Rounded(f, g, h, A) ==
  /\ Weights(f, A) /\ Weights(g, A) /\ Weights(h, A)
  /\ \A x \in A : f[x] <= 4 * g[x] + h[x] /\ 4 * g[x] <= f[x] + 2 * h[x]

(* Rounding errors add up by the row.                                      *)
LEMMA RoundedTotals ==
  ASSUME NEW f, NEW g, NEW h, NEW A, Rounded(f, g, h, A)
  PROVE  /\ SumFunctionOnSet(f, A) <= 4 * SumFunctionOnSet(g, A) + SumFunctionOnSet(h, A)
         /\ 4 * SumFunctionOnSet(g, A) <= SumFunctionOnSet(f, A) + 2 * SumFunctionOnSet(h, A)
<1> DEFINE Close2(F, G, H) == F <= 4 * G + H /\ 4 * G <= F + 2 * H
           good == {s \in SUBSET A : Close2(SumFunctionOnSet(f, s), SumFunctionOnSet(g, s),
                                            SumFunctionOnSet(h, s))}
<1>0. Weights(f, A) /\ Weights(g, A) /\ Weights(h, A) /\ IsFiniteSet(A)
  BY DEF Rounded, Weights
<1>1. {} \in good
  BY TotalOfNone
<1>2. ASSUME NEW s \in SUBSET A, NEW x \in A \ s, s \in good
      PROVE  s \cup {x} \in good
  <2>1. f[x] \in Nat /\ g[x] \in Nat /\ h[x] \in Nat /\ Close2(f[x], g[x], h[x])
    BY DEF Rounded, Weights
  <2>2. Weights(f, s) /\ Weights(g, s) /\ Weights(h, s)
    BY <1>0, WeightsOfPart
  <2>3. /\ SumFunctionOnSet(f, s) \in Nat
        /\ SumFunctionOnSet(g, s) \in Nat
        /\ SumFunctionOnSet(h, s) \in Nat
    BY <2>2, TotalIsNatural
  <2>4. /\ SumFunctionOnSet(f, s \cup {x}) = SumFunctionOnSet(f, s) + f[x]
        /\ SumFunctionOnSet(g, s \cup {x}) = SumFunctionOnSet(g, s) + g[x]
        /\ SumFunctionOnSet(h, s \cup {x}) = SumFunctionOnSet(h, s) + h[x]
    BY <1>0, TotalWithOneMore
  <2>5. \A F, G, H, a, b, c \in Nat :
          Close2(F, G, H) /\ Close2(a, b, c) => Close2(F + a, G + b, H + c)
    OBVIOUS
  <2>6. Close2(SumFunctionOnSet(f, s), SumFunctionOnSet(g, s), SumFunctionOnSet(h, s))
    BY <1>2
  <2> HIDE DEF Close2
  <2>7. Close2(SumFunctionOnSet(f, s) + f[x], SumFunctionOnSet(g, s) + g[x],
               SumFunctionOnSet(h, s) + h[x])
    BY <2>1, <2>3, <2>5, <2>6
  <2>8. Close2(SumFunctionOnSet(f, s \cup {x}), SumFunctionOnSet(g, s \cup {x}),
               SumFunctionOnSet(h, s \cup {x}))
    BY <2>4, <2>7 DEF Close2
  <2> QED BY <2>8
<1> HIDE DEF good
<1>3. A \in good BY <1>0, <1>1, <1>2, SetInduction
<1> QED BY <1>3 DEF good

(* The rows x of A with kind[x] = i, for each i, add up to A.              *)
Kind(A, kind, i) == {x \in A : kind[x] = i}
Parts(f, A, kind, I) == [i \in I |-> SumFunctionOnSet(f, Kind(A, kind, i))]

LEMMA PartsAddUp ==
  ASSUME NEW f, NEW A, Weights(f, A), NEW kind, NEW I, IsFiniteSet(I),
         \A x \in A : kind[x] \in I
  PROVE  /\ Weights(Parts(f, A, kind, I), I)
         /\ SumFunctionOnSet(Parts(f, A, kind, I), I) = SumFunctionOnSet(f, A)
<1> DEFINE parts == Parts(f, A, kind, I)
           Of(J) == {x \in A : kind[x] \in J}
           good == {J \in SUBSET I : SumFunctionOnSet(parts, J) = SumFunctionOnSet(f, Of(J))}
<1>1. ASSUME NEW i \in I PROVE parts[i] = SumFunctionOnSet(f, Kind(A, kind, i)) /\ parts[i] \in Nat
  <2>1. Kind(A, kind, i) \subseteq A BY DEF Kind
  <2>2. Weights(f, Kind(A, kind, i)) BY <2>1, WeightsOfPart
  <2>3. parts[i] = SumFunctionOnSet(f, Kind(A, kind, i)) BY DEF Parts
  <2> QED BY <2>2, <2>3, TotalIsNatural
<1>2. Weights(parts, I) BY <1>1 DEF Weights
<1>3. {} \in good
  <2>1. Of({}) = {} OBVIOUS
  <2> QED BY <2>1, TotalOfNone
<1>4. ASSUME NEW J \in SUBSET I, NEW i \in I \ J, J \in good
      PROVE  J \cup {i} \in good
  <2> DEFINE P == Of(J)  Q == Kind(A, kind, i)
  <2>1. Of(J \cup {i}) = P \cup Q /\ P \cap Q = {} /\ P \cup Q \subseteq A
    BY DEF Kind
  <2>2. SumFunctionOnSet(parts, J \cup {i}) = SumFunctionOnSet(parts, J) + parts[i]
    <3> HIDE DEF parts
    <3> QED BY <1>2, TotalWithOneMore
  <2>3. SumFunctionOnSet(parts, J) = SumFunctionOnSet(f, P) BY <1>4
  <2>4. parts[i] = SumFunctionOnSet(f, Q) BY <1>1
  <2> HIDE DEF P, Q, parts, Of
  <2>5. Weights(f, P \cup Q) BY <2>1, WeightsOfPart
  <2>6. SumFunctionOnSet(f, P \cup Q) = SumFunctionOnSet(f, P) + SumFunctionOnSet(f, Q)
    BY <2>1, <2>5, TotalsAdd
  <2> QED BY <2>1, <2>2, <2>3, <2>4, <2>6
<1>5. I \in good
  <2> HIDE DEF good
  <2> QED BY <1>3, <1>4, SetInduction
<1>6. Of(I) = A OBVIOUS
<1> QED BY <1>2, <1>5, <1>6

LEMMA TotalOfOnes ==
  ASSUME NEW I, IsFiniteSet(I)
  PROVE  SumFunctionOnSet([i \in I |-> 1], I) = Cardinality(I)
<1> DEFINE one == [i \in I |-> 1]
           good == {J \in SUBSET I : SumFunctionOnSet(one, J) = Cardinality(J)}
<1>1. Weights(one, I) BY DEF Weights
<1>2. {} \in good BY TotalOfNone, FS_EmptySet
<1>3. ASSUME NEW J \in SUBSET I, NEW i \in I \ J, J \in good
      PROVE  J \cup {i} \in good
  <2>1. one[i] = 1 OBVIOUS
  <2>2. SumFunctionOnSet(one, J) = Cardinality(J) BY <1>3
  <2> HIDE DEF one
  <2>3. SumFunctionOnSet(one, J \cup {i}) = SumFunctionOnSet(one, J) + 1
    BY <1>1, <2>1, TotalWithOneMore
  <2>4. IsFiniteSet(J) BY FS_Subset
  <2>5. Cardinality(J \cup {i}) = Cardinality(J) + 1 BY <2>4, FS_AddElement
  <2> QED BY <2>2, <2>3, <2>5
<1> HIDE DEF good
<1>4. I \in good BY <1>2, <1>3, SetInduction
<1> QED BY <1>4 DEF good

(* A quarter down, two quarters up: Round of one amount.                   *)
LEMMA RoundOff ==
  ASSUME NEW n \in Nat
  PROVE  Round(n) \in Nat /\ n <= 4 * Round(n) + 1 /\ 4 * Round(n) <= n + 2
BY DEF Round

(* Sums of parts, each rounded, against the sum of all.                    *)
LEMMA RoundedParts ==
  ASSUME NEW f, NEW A, Weights(f, A), NEW kind, NEW I, IsFiniteSet(I),
         \A x \in A : kind[x] \in I,
         NEW g, g = [i \in I |-> Round(SumFunctionOnSet(f, Kind(A, kind, i)))]
  PROVE  /\ SumFunction(g) \in Nat
         /\ SumFunctionOnSet(f, A) <= 4 * SumFunction(g) + Cardinality(I)
         /\ 4 * SumFunction(g) <= SumFunctionOnSet(f, A) + 2 * Cardinality(I)
<1> DEFINE parts == Parts(f, A, kind, I)  one == [i \in I |-> 1]
<1>1. Weights(parts, I) /\ SumFunctionOnSet(parts, I) = SumFunctionOnSet(f, A)
  BY PartsAddUp
<1>2. \A i \in I : g[i] = Round(parts[i]) BY DEF Parts
<1>3. \A i \in I : parts[i] \in Nat BY <1>1 DEF Weights
<1>4. \A i \in I : /\ g[i] \in Nat
                   /\ parts[i] <= 4 * g[i] + 1
                   /\ 4 * g[i] <= parts[i] + 2
  <2> HIDE DEF parts
  <2> QED BY <1>2, <1>3, RoundOff
<1>5. \A i \in I : one[i] = 1 OBVIOUS
<1>6. SumFunctionOnSet(one, I) = Cardinality(I) BY TotalOfOnes
<1> HIDE DEF parts, one
<1>7. Weights(g, I) /\ Weights(one, I) BY <1>4, <1>5 DEF Weights
<1>8. Rounded(parts, g, one, I)
  <2>1. \A i \in I : parts[i] <= 4 * g[i] + one[i] /\ 4 * g[i] <= parts[i] + 2 * one[i]
    BY <1>3, <1>4, <1>5
  <2> QED BY <1>1, <1>7, <2>1 DEF Rounded
<1>9. SumFunction(g) = SumFunctionOnSet(g, I)
  BY DEF SumFunction
<1>10. SumFunction(g) \in Nat BY <1>7, <1>9, TotalIsNatural
<1> QED BY <1>1, <1>6, <1>8, <1>9, <1>10, RoundedTotals

--------------------------------------------------------------------------------
(* THE BOOKS: THE FIGURES.                                                 *)

(* Only payments of the model are booked, finitely many, each at least     *)
(* once; the month is one of the calendar.                                 *)
BookKept ==
  /\ IsFiniteSet(DOMAIN book)
  /\ DOMAIN book \subseteq Payments
  /\ \A p \in DOMAIN book : book[p] \in Nat \ {0}

BooksIInv == signed \subseteq Leases /\ BookKept /\ month \in Months /\ east \in BOOLEAN

LEMMA BookingKeeps ==
  ASSUME NEW B, IsFiniteSet(DOMAIN B), DOMAIN B \subseteq Payments,
         \A p \in DOMAIN B : B[p] \in Nat \ {0}, NEW q \in Payments,
         NEW C, C = B (+) SetToBag({q})
  PROVE  /\ IsFiniteSet(DOMAIN C)
         /\ DOMAIN C \subseteq Payments
         /\ \A p \in DOMAIN C : C[p] \in Nat \ {0}
<1> DEFINE one == SetToBag({q})
<1>1. DOMAIN one = {q} /\ one[q] = 1 BY DEF SetToBag
<1> HIDE DEF one
<1>2. DOMAIN C = DOMAIN B \cup {q} BY <1>1 DEF one, (+)
<1>3. \A p \in DOMAIN C : C[p] = (IF p \in DOMAIN B THEN B[p] ELSE 0) + (IF p \in {q} THEN one[p] ELSE 0)
  BY <1>1, <1>2 DEF one, (+)
<1>4. IsFiniteSet(DOMAIN C) BY <1>2, FS_AddElement
<1>5. ASSUME NEW p \in DOMAIN C PROVE C[p] \in Nat \ {0}
  <2>1. CASE p = q
    <3>1. C[p] = (IF p \in DOMAIN B THEN B[p] ELSE 0) + 1 BY <1>1, <1>3, <2>1
    <3> QED BY <3>1
  <2>2. CASE p # q
    <3>1. p \in DOMAIN B BY <1>2, <2>2
    <3>2. C[p] = B[p] + 0 BY <1>3, <2>2, <3>1
    <3> QED BY <3>1, <3>2
  <2> QED BY <2>1, <2>2
<1> QED BY <1>2, <1>4, <1>5

LEMMA BooksInitIInv == BooksInit => BooksIInv
<1> SUFFICES ASSUME BooksInit PROVE BooksIInv OBVIOUS
<1>1. DOMAIN book = {} BY DEF BooksInit, EmptyBag, SetToBag
<1>2. month \in Months BY BooksAssumption DEF BooksInit, Months
<1>3. signed = {} /\ east \in BOOLEAN BY DEF BooksInit
<1> QED BY <1>1, <1>2, <1>3, FS_EmptySet DEF BooksIInv, BookKept

LEMMA BooksNextIInv == BooksIInv /\ [BooksNext]_booksVars => BooksIInv'
<1> SUFFICES ASSUME BooksIInv, [BooksNext]_booksVars PROVE BooksIInv' OBVIOUS
<1>1. ASSUME NEW l \in Leases, NEW amount \in Amounts, NEW paid \in Months,
             NEW eve \in BOOLEAN, LogPayment(l, amount, paid, eve)
      PROVE  BooksIInv'
  <2> DEFINE q == [lease |-> l, amount |-> amount, month |-> paid, last |-> eve]
  <2>1. q \in Payments BY DEF Payments
  <2> HIDE DEF q
  <2>2. book' = book (+) SetToBag({q}) /\ UNCHANGED <<signed, month, east>>
    BY <1>1 DEF LogPayment, q
  <2>3. BookKept' BY <2>1, <2>2, BookingKeeps DEF BooksIInv, BookKept
  <2> QED BY <2>2, <2>3 DEF BooksIInv, Months
<1>2. ASSUME NEW l \in Leases, NEW deposit \in Amounts, NEW firstRent \in Amounts,
             NEW paid \in Months, NEW eve \in BOOLEAN,
             Close(l, deposit, firstRent, paid, eve)
      PROVE  BooksIInv'
  <2> DEFINE p == [lease |-> l, amount |-> deposit, month |-> paid, last |-> eve]
             q == [lease |-> l, amount |-> firstRent, month |-> paid, last |-> eve]
             once == book (+) SetToBag({p})
  <2>1. p \in Payments /\ q \in Payments BY DEF Payments
  <2> HIDE DEF p, q, once
  <2>2. /\ book' = once (+) SetToBag({q}) /\ signed' = signed \cup {l}
        /\ UNCHANGED <<month, east>>
    BY <1>2 DEF Close, p, q, once
  <2>3. /\ IsFiniteSet(DOMAIN once) /\ DOMAIN once \subseteq Payments
        /\ \A r \in DOMAIN once : once[r] \in Nat \ {0}
    BY <2>1, BookingKeeps DEF BooksIInv, BookKept, once
  <2>4. BookKept' BY <2>1, <2>2, <2>3, BookingKeeps DEF BookKept
  <2> QED BY <2>2, <2>4 DEF BooksIInv, Months
<1>3. CASE MonthPasses
  BY <1>3, BooksAssumption DEF BooksIInv, BookKept, Months, MonthPasses
<1>4. CASE UNCHANGED booksVars
  BY <1>4 DEF BooksIInv, BookKept, Months, booksVars
<1> QED BY <1>1, <1>2, <1>3, <1>4 DEF BooksNext

(* Signed leases are leases, the booked payments a finite bag.             *)
LEMMA BooksInvariant == BooksSpec => []BooksIInv
<1> QED BY BooksInitIInv, BooksNextIInv, PTL DEF BooksSpec

(* Every set of booked payments has an amount of money, of whole dollars   *)
(* and of rows.                                                            *)
LEMMA BookedWeights ==
  ASSUME BooksIInv, NEW A, A \subseteq DOMAIN book
  PROVE  Rounded(Money, Dollars, book, A) /\ Weights(Money, A)
<1>1. IsFiniteSet(A) BY FS_Subset DEF BooksIInv, BookKept
<1>2. ASSUME NEW p \in A
      PROVE  /\ Money[p] \in Nat /\ Dollars[p] \in Nat /\ book[p] \in Nat
             /\ Money[p] <= 4 * Dollars[p] + book[p]
             /\ 4 * Dollars[p] <= Money[p] + 2 * book[p]
  <2> DEFINE a == p.amount  n == book[p]  r == Round(a)
  <2>1. p \in Payments /\ n \in Nat /\ a \in Nat
    BY BooksAssumption DEF BooksIInv, BookKept, Payments
  <2>2. Money[p] = a * n /\ Dollars[p] = r * n BY DEF Money, Dollars, BagToSet
  <2> HIDE DEF a, n
  <2>3. r \in Nat /\ a <= 4 * r + 1 /\ 4 * r <= a + 2 BY <2>1, RoundOff
  <2> HIDE DEF r
  <2>4. PICK e \in -1 .. 2 : 4 * r = a + e
    <3>1. 4 * r - a \in -1 .. 2 BY <2>1, <2>3
    <3>2. 4 * r = a + (4 * r - a) BY <2>1, <2>3
    <3> QED BY <3>1, <3>2
  <2>5. 4 * (r * n) = a * n + e * n
    <3>1. 4 * (r * n) = (4 * r) * n BY <2>1, <2>3
    <3>2. (a + e) * n = a * n + e * n BY <2>1
    <3> QED BY <2>4, <3>1, <3>2
  <2>6. a * n \in Nat /\ r * n \in Nat BY <2>1, <2>3
  <2>7. e * n \in Int /\ -n <= e * n /\ e * n <= 2 * n
    <3>1. CASE e = -1 BY <2>1, <3>1
    <3>2. CASE e = 0 BY <2>1, <3>2
    <3>3. CASE e = 1 BY <2>1, <3>3
    <3>4. CASE e = 2 BY <2>1, <3>4
    <3> QED BY <3>1, <3>2, <3>3, <3>4
  <2> DEFINE m == a * n  d == r * n  x == e * n
  <2>8. 4 * d = m + x /\ m \in Nat /\ d \in Nat /\ x \in Int /\ -n <= x /\ x <= 2 * n
    BY <2>5, <2>6, <2>7
  <2>9. Money[p] = m /\ Dollars[p] = d BY <2>2
  <2> HIDE DEF m, d, x
  <2>10. n \in Nat /\ n = book[p] BY <2>1 DEF n
  <2>11. m <= 4 * d + n /\ 4 * d <= m + 2 * n BY <2>8, <2>10
  <2> QED BY <2>8, <2>9, <2>10, <2>11
<1> QED BY <1>1, <1>2 DEF Rounded, Weights

(* Two roundings of one sum, in n and k pieces.                            *)
LEMMA NearlyEqual ==
  ASSUME NEW m \in Nat, NEW a \in Nat, NEW b \in Nat, NEW n \in Nat, NEW k \in Nat,
         m <= 4 * a + n, 4 * a <= m + 2 * n,
         m <= 4 * b + k, 4 * b <= m + 2 * k
  PROVE  2 * Off(a, b) <= n + k
BY DEF Off

LEMMA LedgerIsClose ==
  ASSUME BooksIInv, NEW o
  PROVE  2 * Off(LedgerTotal(o, month), IncomeThisMonth(o)) <= LedgerRows(o, month) + 1
<1> DEFINE A == InLedger(o, month)
<1>1. A \subseteq DOMAIN book BY DEF InLedger, OwnedBy, Rows, BagToSet
<1>2. /\ LedgerTotal(o, month) = SumFunctionOnSet(Dollars, A)
      /\ LedgerRows(o, month) = SumFunctionOnSet(book, A)
      /\ IncomeThisMonth(o) = Round(SumFunctionOnSet(Money, A))
  BY DEF LedgerTotal, LedgerRows, IncomeThisMonth, InLedger, Sum
<1> HIDE DEF A
<1>3. Rounded(Money, Dollars, book, A) BY <1>1, BookedWeights
<1>4. /\ SumFunctionOnSet(Money, A) \in Nat
      /\ SumFunctionOnSet(Dollars, A) \in Nat
      /\ SumFunctionOnSet(book, A) \in Nat
  BY <1>3, TotalIsNatural DEF Rounded
<1>5. /\ SumFunctionOnSet(Money, A) <= 4 * SumFunctionOnSet(Dollars, A) + SumFunctionOnSet(book, A)
      /\ 4 * SumFunctionOnSet(Dollars, A) <= SumFunctionOnSet(Money, A) + 2 * SumFunctionOnSet(book, A)
  BY <1>3, RoundedTotals
<1>6. /\ IncomeThisMonth(o) \in Nat
      /\ SumFunctionOnSet(Money, A) <= 4 * IncomeThisMonth(o) + 1
      /\ 4 * IncomeThisMonth(o) <= SumFunctionOnSet(Money, A) + 2 * 1
  BY <1>2, <1>4, RoundOff
<1> QED BY <1>2, <1>4, <1>5, <1>6, NearlyEqual

LEMMA YearIsClose ==
  ASSUME BooksIInv, ~east, NEW o, NEW year, year = ThisYear
  PROVE  2 * Off(SumFunction([m \in year |-> MonthlyTotal(o, m)]), CollectedThisYear(o))
           <= Cardinality(year) + 1
<1> DEFINE A == {p \in OwnedBy(o) : YearOf(Counted(p)) = YearOf(month)}
           kind == [p \in A |-> p.month]
           g == [m \in year |-> MonthlyTotal(o, m)]
<1>1. A \subseteq DOMAIN book BY DEF OwnedBy, Rows, BagToSet
<1>0. \A p : Counted(p) = p.month BY DEF Counted
<1>2. \A p \in A : kind[p] \in year
  BY <1>0, <1>1 DEF BooksIInv, BookKept, Payments, ThisYear
<1>3. IsFiniteSet(year)
  <2>1. IsFiniteSet(Months) BY FS_Interval, BooksAssumption DEF Months
  <2> QED BY <2>1, FS_Subset DEF ThisYear
<1>4. g = [m \in year |-> Round(SumFunctionOnSet(Money, Kind(A, kind, m)))]
  <2>1. ASSUME NEW m \in year PROVE Kind(A, kind, m) = {p \in OwnedBy(o) : p.month = m}
    BY <1>0 DEF Kind, ThisYear
  <2>2. ASSUME NEW m \in year
        PROVE  MonthlyTotal(o, m) = Round(SumFunctionOnSet(Money, Kind(A, kind, m)))
    BY <2>1 DEF MonthlyTotal, Sum
  <2> HIDE DEF kind, A
  <2> QED BY <2>2
<1>5. CollectedThisYear(o) = Round(SumFunctionOnSet(Money, A))
  BY DEF CollectedThisYear, Sum
<1> HIDE DEF A, kind, g
<1>6. Weights(Money, A) BY <1>1, BookedWeights
<1>7. /\ SumFunction(g) \in Nat
      /\ SumFunctionOnSet(Money, A) <= 4 * SumFunction(g) + Cardinality(year)
      /\ 4 * SumFunction(g) <= SumFunctionOnSet(Money, A) + 2 * Cardinality(year)
  BY <1>2, <1>3, <1>4, <1>6, RoundedParts
<1>8. SumFunctionOnSet(Money, A) \in Nat /\ Cardinality(year) \in Nat
  BY <1>3, <1>6, TotalIsNatural, FS_CardinalityType
<1>9. /\ CollectedThisYear(o) \in Nat
      /\ SumFunctionOnSet(Money, A) <= 4 * CollectedThisYear(o) + 1
      /\ 4 * CollectedThisYear(o) <= SumFunctionOnSet(Money, A) + 2 * 1
  BY <1>5, <1>8, RoundOff
<1>10. 2 * Off(SumFunction(g), CollectedThisYear(o)) <= Cardinality(year) + 1
  BY <1>7, <1>8, <1>9, NearlyEqual
<1> QED BY <1>10 DEF g

(* What the agencies, and the platform, count of the month.                *)
Current == Rows(LAMBDA p : Counted(p) >= month)

LEMMA AgenciesCountCurrent ==
  ASSUME BooksIInv
  PROVE  /\ AgenciesRent \in Nat /\ Weights(Money, Current)
         /\ PlatformRent = Round(SumFunctionOnSet(Money, Current))
         /\ SumFunctionOnSet(Money, Current) <= 4 * AgenciesRent + Cardinality(LeaseAgencies)
         /\ 4 * AgenciesRent <= SumFunctionOnSet(Money, Current) + 2 * Cardinality(LeaseAgencies)
<1> DEFINE A == Current  kind == [p \in A |-> AgencyOfLease[p.lease]]
           g == [i \in LeaseAgencies |-> AgencyRent(i)]
<1>1. A \subseteq DOMAIN book BY DEF Current, Rows, BagToSet
<1>2. \A p \in A : kind[p] \in LeaseAgencies
  BY <1>1, BooksAssumption DEF BooksIInv, BookKept, Payments
<1>3. g = [i \in LeaseAgencies |-> Round(SumFunctionOnSet(Money, Kind(A, kind, i)))]
  <2>1. ASSUME NEW i \in LeaseAgencies
        PROVE  Kind(A, kind, i) = Rows(LAMBDA p : AgencyOfLease[p.lease] = i /\ Counted(p) >= month)
    BY DEF Kind, Current, Rows
  <2>2. ASSUME NEW i \in LeaseAgencies
        PROVE  AgencyRent(i) = Round(SumFunctionOnSet(Money, Kind(A, kind, i)))
    BY <2>1 DEF AgencyRent, Sum
  <2> HIDE DEF kind, A
  <2> QED BY <2>2
<1>4. PlatformRent = Round(SumFunctionOnSet(Money, A))
  BY DEF PlatformRent, Current, Sum
<1>5. AgenciesRent = SumFunction(g) BY DEF AgenciesRent
<1> HIDE DEF A, kind, g
<1>6. Weights(Money, A) BY <1>1, BookedWeights
<1>7. IsFiniteSet(LeaseAgencies) BY BooksAssumption
<1>8. /\ SumFunction(g) \in Nat
      /\ SumFunctionOnSet(Money, A) <= 4 * SumFunction(g) + Cardinality(LeaseAgencies)
      /\ 4 * SumFunction(g) <= SumFunctionOnSet(Money, A) + 2 * Cardinality(LeaseAgencies)
  BY <1>2, <1>3, <1>6, <1>7, RoundedParts
<1> QED BY <1>4, <1>5, <1>6, <1>8 DEF A

LEMMA OwnersCountCurrent ==
  ASSUME BooksIInv, Undated
  PROVE  /\ Owners \in Nat
         /\ SumFunctionOnSet(Money, Current) <= 4 * Owners + Cardinality(LeaseOwners)
         /\ 4 * Owners <= SumFunctionOnSet(Money, Current) + 2 * Cardinality(LeaseOwners)
<1> DEFINE A == Current  kind == [p \in A |-> OwnerOfLease[p.lease]]
           g == [i \in LeaseOwners |-> IncomeThisMonth(i)]
<1>1. A \subseteq DOMAIN book BY DEF Current, Rows, BagToSet
<1>2. \A p \in A : kind[p] \in LeaseOwners
  BY <1>1, BooksAssumption DEF BooksIInv, BookKept, Payments
<1>3. \A p \in DOMAIN book : Counted(p) >= month <=> Counted(p) = month
  <2>1. \A p \in DOMAIN book : Counted(p) <= month BY DEF Undated, BagToSet
  <2>2. \A p \in DOMAIN book : Counted(p) \in Int /\ month \in Int
    BY BooksAssumption DEF BooksIInv, BookKept, Payments, Months, Counted
  <2> QED BY <2>1, <2>2
<1>4. g = [i \in LeaseOwners |-> Round(SumFunctionOnSet(Money, Kind(A, kind, i)))]
  <2>1. ASSUME NEW i \in LeaseOwners
        PROVE  Kind(A, kind, i) = {p \in OwnedBy(i) : Counted(p) = month}
    BY <1>3 DEF Kind, Current, Rows, OwnedBy, BagToSet
  <2>2. ASSUME NEW i \in LeaseOwners
        PROVE  IncomeThisMonth(i) = Round(SumFunctionOnSet(Money, Kind(A, kind, i)))
    BY <2>1 DEF IncomeThisMonth, Sum
  <2> HIDE DEF kind, A
  <2> QED BY <2>2
<1>5. Owners = SumFunction(g) BY DEF Owners
<1> HIDE DEF A, kind, g
<1>6. Weights(Money, A) BY <1>1, BookedWeights
<1>7. IsFiniteSet(LeaseOwners) BY BooksAssumption
<1>8. /\ SumFunction(g) \in Nat
      /\ SumFunctionOnSet(Money, A) <= 4 * SumFunction(g) + Cardinality(LeaseOwners)
      /\ 4 * SumFunction(g) <= SumFunctionOnSet(Money, A) + 2 * Cardinality(LeaseOwners)
  BY <1>2, <1>4, <1>6, <1>7, RoundedParts
<1> QED BY <1>5, <1>8 DEF A

LEMMA BooksAgree == BooksIInv => FiguresAgree
<1> SUFFICES ASSUME BooksIInv PROVE FiguresAgree OBVIOUS
<1> DEFINE all == SumFunctionOnSet(Money, Current)
           k == Cardinality(LeaseAgencies)  l == Cardinality(LeaseOwners)
<1>1. k \in Nat /\ l \in Nat BY BooksAssumption, FS_CardinalityType
<1>2. all \in Nat BY AgenciesCountCurrent, TotalIsNatural
<1>3. /\ AgenciesRent \in Nat
      /\ all <= 4 * AgenciesRent + k /\ 4 * AgenciesRent <= all + 2 * k
      /\ PlatformRent = Round(all)
  BY AgenciesCountCurrent
<1>4. Undated => Owners \in Nat /\ all <= 4 * Owners + l /\ 4 * Owners <= all + 2 * l
  BY OwnersCountCurrent
<1> HIDE DEF all, k, l
<1>5. PlatformRent \in Nat /\ all <= 4 * PlatformRent + 1 /\ 4 * PlatformRent <= all + 2 * 1
  BY <1>2, <1>3, RoundOff
<1>6. 2 * Off(AgenciesRent, PlatformRent) <= k + 1
  BY <1>1, <1>2, <1>3, <1>5, NearlyEqual
<1>7. Undated => 2 * Off(Owners, AgenciesRent) <= l + k
  BY <1>1, <1>2, <1>3, <1>4, NearlyEqual
<1>8. ~east => \A o : IncomeThisMonth(o) = MonthlyTotal(o, month)
  BY DEF IncomeThisMonth, MonthlyTotal, Counted
<1>9. ASSUME ~east, NEW o \in LeaseOwners
      PROVE  2 * Off(SumFunction([m \in ThisYear |-> MonthlyTotal(o, m)]), CollectedThisYear(o))
               <= Cardinality(ThisYear) + 1
  BY <1>9, YearIsClose
<1>10. \A o \in LeaseOwners :
         2 * Off(LedgerTotal(o, month), IncomeThisMonth(o)) <= LedgerRows(o, month) + 1
  BY LedgerIsClose
<1> QED BY <1>6, <1>7, <1>8, <1>9, <1>10 DEF FiguresAgree, k, l

(* However payments are dated, and whatever clock the server keeps: the    *)
(* figures of owner, ledger, agency and platform differ by their rounding  *)
(* only, and the chart's bars join them unless that clock is ahead of UTC  *)
(* (OwnerService, DealsService and AdminService).                          *)
THEOREM FiguresAlwaysAgree == BooksSpec => []FiguresAgree
<1> QED BY BooksInvariant, BooksAgree, PTL

================================================================================
