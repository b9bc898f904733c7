--------------------------- MODULE BrandProfiles ---------------------------
(***************************************************************************)
(* The brand profile of one owner (a company, product or sub-product) and  *)
(* its logo: BrandProfileService, BrandAnalysisService.analyze and         *)
(* CompanyService.update_single_brand_details.  The row is in the          *)
(* database; the image is an object in storage whose key depends only on   *)
(* the owner and the image type, so a new image replaces an old one of its *)
(* type at once, before the row is committed.                              *)
(*                                                                         *)
(* An analysis fetches a website and asks a language model between its     *)
(* snapshot and its commit.  Texts are left out; so is the onboarding step *)
(* that saving a company's profile reaches (CompanyApproval).              *)
(***************************************************************************)
EXTENDS Snapshots

CONSTANT ImageTypes   \* of ALLOWED_IMAGE_MIME_TYPES, those of this instance

ASSUME BrandConstants == Nothing \notin ImageTypes

VARIABLES
  profile,   \* the row in brand_profiles
  image,     \* image[t] : the request whose bytes are stored under the key of type t
  stored     \* requests that have stored an image

brandVars == <<profile, image, stored>>

\* logo stands for logo_storage_key and logo_mime_type.
Profile == [exists : BOOLEAN, logo : ImageTypes \cup {Nothing}]

BrandDB ==
  /\ profile = [exists |-> FALSE, logo |-> Nothing]
  /\ image = [t \in ImageTypes |-> Nothing]
  /\ stored = {}

-----------------------------------------------------------------------------
\* upsert_brand_profile, update_single_brand_details: the row is created if need be.
SaveRead(r) == Begins(r, "save", Nothing, profile) /\ UNCHANGED brandVars

\* upload_image of a valid type.
UploadRead(r, t) ==
  profile.exists /\ Begins(r, "upload", t, profile) /\ UNCHANGED brandVars

\* A variant of Wanted that downloads a logo whether or not there is one.
WantedAlways(t) == t

\* _try_download_logo: a logo of type t is found; one that the row has is kept.
Wanted(t) == IF profile.logo = Nothing THEN t ELSE Nothing

\* analyze: the site has a logo of type t, or none that can be fetched.
AnalyzeRead(r, t) ==
  Begins(r, "analyze", Wanted(t), profile) /\ UNCHANGED brandVars

ImageStored(r) ==
  /\ \E op \in {"upload", "analyze"} : Reading(r, op)
  /\ req[r].on # Nothing
  /\ r \notin stored
  /\ image' = [image EXCEPT ![req[r].on] = r]
  /\ stored' = stored \cup {r}
  /\ UNCHANGED <<profile, reqVars>>

BrandOps == {"save", "upload", "analyze"}

\* The row is inserted if the snapshot had none, and its unique key is checked.
Insertable(r) == req[r].saw.exists \/ ~profile.exists

BrandCommitted(r, op) ==
  /\ Commits(r, op)
  /\ req[r].on # Nothing => r \in stored
  /\ Insertable(r)
  /\ profile' = [exists |-> TRUE,
                 logo   |-> IF req[r].on = Nothing THEN profile.logo
                            ELSE Column(profile.logo, req[r].saw.logo, req[r].on)]
  /\ UNCHANGED <<image, stored>>

\* The image stays where it was stored.
BrandFailed(r, op) ==
  /\ Fails(r, op)
  /\ req[r].on # Nothing => r \in stored
  /\ ~Insertable(r)
  /\ UNCHANGED brandVars

BrandNext ==
  \E r \in Requests :
    \/ SaveRead(r)
    \/ \E t \in ImageTypes : UploadRead(r, t)
    \/ \E t \in ImageTypes \cup {Nothing} : AnalyzeRead(r, t)
    \/ ImageStored(r)
    \/ \E op \in BrandOps : BrandCommitted(r, op)
    \/ \E op \in BrandOps : BrandFailed(r, op)

BrandSpec == ReqInit /\ BrandDB /\ [][BrandNext]_<<reqVars, brandVars>>

-----------------------------------------------------------------------------
BrandTypeOK ==
  /\ profile \in Profile
  /\ image \in [ImageTypes -> Requests \cup {Nothing}]
  /\ stored \subseteq Requests

\* The image that GET .../brand-profile/logo serves.
Shown == IF profile.logo = Nothing THEN Nothing ELSE image[profile.logo]

\* A logo uploaded by hand is shown until someone else uploads one; an analysis
\* replaces it only if its snapshot is older than the upload.
UploadedLogoShows ==
  \A u \in Requests : (Done(u, {"upload"}) /\ Shown # u) =>
    \E q \in stored \ {u} : req[q].op = "upload" \/ req[q].began < req[u].at
=============================================================================
