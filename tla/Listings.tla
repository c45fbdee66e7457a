-------------------------------- MODULE Listings --------------------------------
(***************************************************************************)
(* The listing editor: drafts made by hand or converted from an intake,    *)
(* photos and their thumbnails, the attestation that the originals were    *)
(* seen, and publication.  Uploads and publication are split where they    *)
(* await; an image is known by its uuid.                                   *)
(***************************************************************************)
EXTENDS Naturals, Sequences, SequencesExt

CONSTANTS Listings, Images,
          FromIntake,   \* the listings that intakes are converted into
          MAX_PHOTOS,
          Workers, Duties,
          MayCrash

ListingCalls == {"add", "update", "publish"}

ASSUME ListingsAssumption ==
  /\ MAX_PHOTOS \in Nat \ {0}
  /\ FromIntake \subseteq Listings
  /\ Duties \in [Workers -> SUBSET ListingCalls]
  /\ MayCrash \in BOOLEAN

VARIABLES
  exists,     \* listings rows
  photos,     \* listings.photos
  thumbs,     \* listings.photo_thumbs
  verified,   \* listings.originals_verified
  published,  \* listings.published_at is set
  owned,      \* the images in the bucket, uploaded by anybody
  job

vars == <<exists, photos, thumbs, verified, published, owned, job>>

Idle == [at |-> "idle"]
JobRows == {Idle} \cup [at : {"push"}, listing : Listings, keys : Seq(Images)]
                  \cup [at : {"publish"}, listing : Listings]

TypeOK ==
  /\ exists \subseteq Listings
  /\ photos \in [Listings -> Seq(Images)]
  /\ thumbs \in [Listings -> Seq(Images)]
  /\ verified \subseteq exists
  /\ published \subseteq exists
  /\ owned \subseteq Images
  /\ job \in [Workers -> JobRows]

Init ==
  /\ exists = {} /\ verified = {} /\ published = {} /\ owned = {}
  /\ photos = [l \in Listings |-> <<>>]
  /\ thumbs = [l \in Listings |-> <<>>]
  /\ job = [w \in Workers |-> Idle]

(* What one upload brings: new images, in the order of the request.        *)
Uploads(limit) ==
  {keys \in UNION {[1 .. n -> Images \ owned] : n \in 1 .. limit} : IsInjective(keys)}

--------------------------------------------------------------------------------
Create(l) ==
  /\ l \notin exists \cup FromIntake
  /\ exists' = exists \cup {l}
  /\ UNCHANGED <<photos, thumbs, verified, published, owned, job>>

(* convert reuses the keys of the photos its owner uploaded.               *)
ConvertDraft(l) ==
  /\ l \in FromIntake \ exists
  /\ \E keys \in Uploads(MAX_PHOTOS) :
        /\ photos' = [photos EXCEPT ![l] = keys]
        /\ owned' = owned \cup Range(keys)
  /\ exists' = exists \cup {l}
  /\ UNCHANGED <<thumbs, verified, published, job>>

(* Mutant: the limit counts the photos there are, not the ones that come.  *)
BeginAdd_IgnoresBatch(w, l) ==
  /\ job[w] = Idle /\ "add" \in Duties[w] /\ l \in exists
  /\ Len(photos[l]) < MAX_PHOTOS
  /\ \E keys \in Uploads(MAX_PHOTOS) :
        /\ job' = [job EXCEPT ![w] = [at |-> "push", listing |-> l, keys |-> keys]]
        /\ owned' = owned \cup Range(keys)
  /\ UNCHANGED <<exists, photos, thumbs, verified, published>>

(* The limit is checked against the row as it was when the call came in;   *)
(* the images are stored before the row is written.                        *)
BeginAdd(w, l) ==
  /\ job[w] = Idle /\ "add" \in Duties[w] /\ l \in exists
  /\ \E keys \in Uploads(MAX_PHOTOS) :
        /\ Len(photos[l]) + Len(keys) <= MAX_PHOTOS
        /\ job' = [job EXCEPT ![w] = [at |-> "push", listing |-> l, keys |-> keys]]
        /\ owned' = owned \cup Range(keys)
  /\ UNCHANGED <<exists, photos, thumbs, verified, published>>

(* Mutant: the row is written from the copy a call that adds its photos in *)
(* front would make.                                                       *)
Push_InFront(w) ==
  LET j == job[w] IN
  /\ j.at = "push"
  /\ photos' = [photos EXCEPT ![j.listing] = j.keys \o @]
  /\ thumbs' = [thumbs EXCEPT ![j.listing] = @ \o j.keys]
  /\ job' = [job EXCEPT ![w] = Idle]
  /\ UNCHANGED <<exists, verified, published, owned>>

(* One write pushes both arrays.                                           *)
Push(w) ==
  LET j == job[w] IN
  /\ j.at = "push"
  /\ photos' = [photos EXCEPT ![j.listing] = @ \o j.keys]
  /\ thumbs' = [thumbs EXCEPT ![j.listing] = @ \o j.keys]
  /\ job' = [job EXCEPT ![w] = Idle]
  /\ UNCHANGED <<exists, verified, published, owned>>

(* update: of its fields only the attestation matters here.                *)
Update(w, l) ==
  /\ job[w] = Idle /\ "update" \in Duties[w] /\ l \in exists
  /\ verified' = IF l \in verified THEN verified \ {l} ELSE verified \cup {l}
  /\ UNCHANGED <<exists, photos, thumbs, published, owned, job>>

Publishable(l) == l \in verified \ published /\ photos[l] # <<>>

BeginPublish(w, l) ==
  /\ job[w] = Idle /\ "publish" \in Duties[w]
  /\ Publishable(l)
  /\ job' = [job EXCEPT ![w] = [at |-> "publish", listing |-> l]]
  /\ UNCHANGED <<exists, photos, thumbs, verified, published, owned>>

Publish(w) ==
  /\ job[w].at = "publish"
  /\ published' = published \cup {job[w].listing}
  /\ job' = [job EXCEPT ![w] = Idle]
  /\ UNCHANGED <<exists, photos, thumbs, verified, owned>>

Crash(w) ==
  /\ MayCrash /\ job[w] # Idle
  /\ job' = [job EXCEPT ![w] = Idle]
  /\ UNCHANGED <<exists, photos, thumbs, verified, published, owned>>

Next ==
  \/ \E l \in Listings : Create(l) \/ ConvertDraft(l)
  \/ \E w \in Workers :
        \/ \E l \in Listings : BeginAdd(w, l) \/ Update(w, l) \/ BeginPublish(w, l)
        \/ Push(w) \/ Publish(w) \/ Crash(w)

Spec == Init /\ [][Next]_vars

--------------------------------------------------------------------------------
(* PROPERTIES                                                              *)

(* A draft made by hand has a thumbnail for every photo, in order, however *)
(* its uploads overlap and wherever they are cut short.                    *)
ThumbsComplete ==
  \A l \in Listings \ FromIntake : thumbs[l] = photos[l]

(* With uploads from one desk a listing never has more photos than it may. *)
PhotoLimit == \A l \in Listings : Len(photos[l]) <= MAX_PHOTOS

--------------------------------------------------------------------------------
(* WHAT THE TEXTS PROMISE AND THE CODE DOES NOT ALWAYS KEEP.  No run       *)
(* checks these; README.md tells the steps that break each of them.        *)

(* listings.service.ts:231: photos[i] and photoThumbs[i] are the same      *)
(* image; the card shows the first thumbnail, the gallery the photos.      *)
ThumbsMatch ==
  \A l \in Listings : IsPrefix(thumbs[l], photos[l])

(* SPEC.md:90: the agent attests the originals before the listing goes     *)
(* public: at the moment it does, the attestation stands.  (Kept when one  *)
(* desk attests and publishes.)                                            *)
PublishedOnAttestation ==
  [][\A l \in published' \ published : l \in verified /\ photos[l] # <<>>]_vars
================================================================================
