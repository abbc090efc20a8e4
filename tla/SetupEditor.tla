---------------------------- MODULE SetupEditor ----------------------------
(***************************************************************************)
(* The page where the site of a tenant is edited: a form that is loaded    *)
(* and saved whole, pictures that are uploaded to the row they were chosen *)
(* in, a preview that is refreshed by hand and shown in a frame that reads *)
(* it from localStorage.  Answers come in any order and after anything the *)
(* editor did meanwhile.  A step includes the effects that follow it.      *)
(* Of the form only its rows are kept, the photos and the videos standing  *)
(* for all lists; every other field is only known to have changed.  A row  *)
(* says which picture it holds.                                            *)
(***************************************************************************)
EXTENDS Naturals, FiniteSets, Sequences, SequencesExt

CONSTANTS
  Slugs,      \* the tenants the user may choose
  NoTenant,   \* a text in the field that is none of them; the form of none
  MaxRows,    \* bound: rows of the form
  MaxUploads  \* bound: pictures being uploaded

ASSUME SetupAssumption ==
  /\ NoTenant \notin Slugs
  /\ MaxRows \in Nat \ {0} /\ MaxUploads \in Nat

VARIABLES
  slug,       \* the tenant in the field
  of,         \* the tenant whose configuration was loaded into the form
  rows,       \* what each row holds: no picture, its own, or another row's
  previewed,  \* the preview shows the form as it is
  pending,    \* hasPendingPreviewChanges
  stored,     \* localStorage holds the preview, or what another tab wrote
  frame,      \* what the frame shows: the preview, an older one, another tab's
  frameDue,   \* the frame is loading
  loads, fetching, \* requests for a configuration
  saving,
  uploads,    \* what for, where each answer will go, and where its row is now: 0 if nowhere
  photoFlag,  \* uploadingPhotoIndex; so are uploadingVideoIndex, uploadingPosterIndex
  songFlags,  \* uploadingMusic, uploadingVoice
  crashed,    \* a row without its fields was rendered
  asked,      \* history: what the form should be of once nothing is loading
  shifted,    \* history: rows were removed or replaced under an upload
  foreign     \* history: another tab wrote a preview

preview == <<previewed, pending, stored, frame, frameDue>>
fetch == <<loads, fetching, asked>>
upload == <<uploads, photoFlag, songFlags, shifted>>
vars == <<slug, of, rows, preview, fetch, saving, upload, crashed, foreign>>

Pictures == {"none", "own", "other"}
NoRow == 0
SongKinds == {"music", "voice"}
-----------------------------------------------------------------------------
\* EMPTY_SETUP_FORM
Init ==
  /\ slug \in Slugs \cup {NoTenant} /\ of = NoTenant
  /\ rows = <<>>
  /\ previewed = TRUE /\ pending = FALSE
  /\ stored = "preview" /\ frame = "older" /\ frameDue = TRUE
  /\ loads = {} /\ fetching = FALSE /\ asked = NoTenant
  /\ saving = FALSE
  /\ uploads = {} /\ photoFlag = NoRow /\ songFlags = {} /\ shifted = FALSE
  /\ crashed = FALSE /\ foreign = FALSE

\* The effect that follows a preview of something else: it is written to
\* localStorage, and the frame gets a new address.
PreviewChanged ==
  /\ stored' = "preview" /\ frameDue' = TRUE
  /\ frame' = IF frame = "preview" THEN "older" ELSE frame

\* The effect that follows every change of the form.
FormChanged ==
  /\ previewed' = FALSE /\ pending' = TRUE
  /\ UNCHANGED <<stored, frame, frameDue>>

\* requireTenantSlug
TenantChosen == slug \in Slugs
-----------------------------------------------------------------------------
(* The field of the tenant, and the form.                                  *)

\* Typing, a choice from the list, or the effect that follows a change of the
\* tenants of the user.  The form stays.
ChangeTenant ==
  /\ slug' \in (Slugs \cup {NoTenant}) \ {slug}
  /\ UNCHANGED <<of, rows, preview, fetch, saving, upload, crashed, foreign>>

\* Every field that is not a picture: its text is cut to its limit and set in the
\* language being edited.
SetField ==
  /\ FormChanged
  /\ UNCHANGED <<slug, of, rows, fetch, saving, upload, crashed, foreign>>

\* The address of a picture, typed: it is the row's own.
SetPicture ==
  /\ \E i \in 1..Len(rows), p \in {"none", "own"} : rows' = [rows EXCEPT ![i] = p]
  /\ FormChanged
  /\ UNCHANGED <<slug, of, fetch, saving, upload, crashed, foreign>>

\* mutant: a new row is the first.
AddRowFirst ==
  /\ Len(rows) < MaxRows
  /\ rows' = <<"none">> \o rows
  /\ uploads' = {[u EXCEPT !.row = IF @ = NoRow THEN NoRow ELSE @ + 1] : u \in uploads}
  /\ FormChanged
  /\ UNCHANGED <<slug, of, fetch, saving, photoFlag, songFlags, shifted, crashed, foreign>>

AddRow ==
  /\ Len(rows) < MaxRows
  /\ rows' = Append(rows, "none")
  /\ FormChanged
  /\ UNCHANGED <<slug, of, fetch, saving, upload, crashed, foreign>>

\* The rows are known by their place: those behind move up.
RemoveRow ==
  /\ \E i \in 1..Len(rows) :
       /\ rows' = RemoveAt(rows, i)
       /\ uploads' = {[u EXCEPT !.row = IF @ = i THEN NoRow ELSE IF @ > i THEN @ - 1 ELSE @]
                        : u \in uploads}
  /\ shifted' = (shifted \/ uploads # {})
  /\ FormChanged
  /\ UNCHANGED <<slug, of, fetch, saving, photoFlag, songFlags, crashed, foreign>>

\* Another form takes the place of this one.
Replace(n) ==
  /\ rows' = [i \in 1..n |-> "own"]
  /\ uploads' = {[u EXCEPT !.row = NoRow] : u \in uploads}
  /\ shifted' = (shifted \/ uploads # {})
  /\ UNCHANGED <<photoFlag, songFlags>>

\* applyJsonToForm, when the text is one normalizeConfig can read; otherwise the
\* form stays.  The text itself starts again from the form after every change.
ApplyJson ==
  /\ \E n \in 0..MaxRows : Replace(n)
  /\ FormChanged
  /\ UNCHANGED <<slug, of, fetch, saving, crashed, foreign>>
-----------------------------------------------------------------------------
(* Loading and saving.                                                     *)

\* mutant: the button stays while a configuration is being loaded.
MayLoadAlways == TRUE

\* The button of SetupAccessCard.
MayLoad == ~fetching

LoadConfig ==
  /\ TenantChosen /\ MayLoad
  /\ fetching' = TRUE
  /\ loads' = loads \cup {slug} /\ asked' = slug
  /\ UNCHANGED <<slug, of, rows, preview, saving, upload, crashed, foreign>>

\* The form and the preview are both set; the effect of the form then marks
\* changes pending all the same.
ConfigLoaded ==
  /\ \E s \in loads :
       /\ loads' = loads \ {s} /\ of' = s
  /\ fetching' = FALSE
  /\ \E n \in 0..MaxRows : Replace(n)
  /\ previewed' = TRUE /\ pending' = TRUE
  /\ PreviewChanged
  /\ UNCHANGED <<slug, asked, saving, crashed, foreign>>

LoadFailed ==
  /\ \E s \in loads :
       /\ loads' = loads \ {s}
       /\ asked' = IF asked = s THEN of ELSE asked
  /\ fetching' = FALSE
  /\ UNCHANGED <<slug, of, rows, preview, saving, upload, crashed, foreign>>

\* The form as it is goes to the tenant in the field, whichever it was loaded from.
SaveConfig ==
  /\ TenantChosen /\ ~saving
  /\ saving' = TRUE
  /\ UNCHANGED <<slug, of, rows, preview, fetch, upload, crashed, foreign>>

\* Saved or refused, the form stays as it is.
SaveAnswered ==
  /\ saving
  /\ saving' = FALSE
  /\ UNCHANGED <<slug, of, rows, preview, fetch, upload, crashed, foreign>>
-----------------------------------------------------------------------------
(* Pictures and songs.                                                     *)

Photos == {u \in uploads : u.at # NoRow}
Songs == {u \in uploads : u.at = NoRow}

\* A number for a new upload, to tell it from the others.
Unused == {n \in 1..MaxUploads : \A u \in uploads : u.n # n}

\* uploadPhoto, uploadVideo, uploadPoster: no button waits for what is being uploaded,
\* that of the same row neither.
UploadPicture ==
  /\ TenantChosen
  /\ \E i \in 1..Len(rows), n \in Unused :
       /\ uploads' = uploads \cup {[n |-> n, what |-> "picture", at |-> i, row |-> i]}
       /\ photoFlag' = i
  /\ UNCHANGED <<slug, of, rows, preview, fetch, saving, songFlags, shifted, crashed, foreign>>

\* uploadMusic, uploadVoice: one of each at a time.
UploadSong ==
  /\ TenantChosen
  /\ \E w \in SongKinds \ songFlags, n \in Unused :
       /\ uploads' = uploads \cup {[n |-> n, what |-> w, at |-> NoRow, row |-> NoRow]}
       /\ songFlags' = songFlags \cup {w}
  /\ UNCHANGED <<slug, of, rows, preview, fetch, saving, photoFlag, shifted, crashed, foreign>>

\* setGalleryPhotoField by the place the row had when the file was chosen.  A row
\* that is not there any more is made of the address alone; the texts it lacks
\* end the page when it is rendered.
PictureUploaded ==
  /\ \E u \in Photos :
       /\ uploads' = uploads \ {u}
       /\ IF u.at <= Len(rows)
          THEN /\ rows' = [rows EXCEPT ![u.at] = IF u.row = u.at THEN "own" ELSE "other"]
               /\ UNCHANGED crashed
          ELSE crashed' = TRUE /\ UNCHANGED rows
  /\ photoFlag' = NoRow
  /\ FormChanged
  /\ UNCHANGED <<slug, of, fetch, saving, songFlags, shifted, foreign>>

SongUploaded ==
  /\ \E u \in Songs : uploads' = uploads \ {u} /\ songFlags' = songFlags \ {u.what}
  /\ FormChanged
  /\ UNCHANGED <<slug, of, rows, fetch, saving, photoFlag, shifted, crashed, foreign>>

\* mutant: a failed upload leaves its flag.
UploadFailedFlagged ==
  /\ \E u \in uploads : uploads' = uploads \ {u}
  /\ UNCHANGED <<slug, of, rows, preview, fetch, saving, photoFlag, songFlags, shifted,
                 crashed, foreign>>

UploadFailed ==
  /\ \E u \in uploads :
       /\ uploads' = uploads \ {u}
       /\ IF u \in Songs THEN songFlags' = songFlags \ {u.what} /\ UNCHANGED photoFlag
                         ELSE photoFlag' = NoRow /\ UNCHANGED songFlags
  /\ UNCHANGED <<slug, of, rows, preview, fetch, saving, shifted, crashed, foreign>>
-----------------------------------------------------------------------------
(* The preview.                                                            *)

\* mutant: the preview is left until the language changes.
RefreshFlagOnly ==
  /\ pending' = FALSE
  /\ UNCHANGED <<previewed, stored, frame, frameDue>>
  /\ UNCHANGED <<slug, of, rows, fetch, saving, upload, crashed, foreign>>

RefreshPreview ==
  /\ previewed' = TRUE /\ pending' = FALSE
  /\ IF previewed THEN UNCHANGED <<stored, frame, frameDue>> ELSE PreviewChanged
  /\ UNCHANGED <<slug, of, rows, fetch, saving, upload, crashed, foreign>>

\* The same preview in another language: its own switch, or the page's.
ChangeLanguage ==
  /\ PreviewChanged
  /\ UNCHANGED <<slug, of, rows, previewed, pending, fetch, saving, upload, crashed, foreign>>

\* The two sizes of the preview are two frames.
SwitchViewport ==
  /\ frameDue' = TRUE /\ frame' = "older"
  /\ UNCHANGED <<slug, of, rows, previewed, pending, stored, fetch, saving, upload, crashed,
                 foreign>>

\* The frame reads localStorage once, when it is loaded.
FrameLoads ==
  /\ frameDue
  /\ frameDue' = FALSE /\ frame' = stored
  /\ UNCHANGED <<slug, of, rows, previewed, pending, stored, fetch, saving, upload, crashed,
                 foreign>>

\* The key in localStorage is the same for every tab and every tenant.
OtherTab ==
  /\ stored' = "other" /\ foreign' = TRUE
  /\ UNCHANGED <<slug, of, rows, previewed, pending, frame, frameDue, fetch, saving, upload,
                 crashed>>

\* The page is left and opened again: nothing of the form is kept, and answers
\* that come now reach a form that is gone.  The field is restored.
OpenAgain ==
  /\ of' = NoTenant /\ rows' = <<>>
  /\ previewed' = TRUE /\ pending' = FALSE
  /\ stored' = "preview" /\ frame' = "older" /\ frameDue' = TRUE
  /\ loads' = {} /\ fetching' = FALSE /\ asked' = NoTenant
  /\ saving' = FALSE
  /\ uploads' = {} /\ photoFlag' = NoRow /\ songFlags' = {} /\ shifted' = FALSE
  /\ crashed' = FALSE /\ foreign' = FALSE
  /\ UNCHANGED slug

Edit == ChangeTenant \/ SetField \/ SetPicture \/ AddRow \/ RemoveRow \/ ApplyJson
Ask == LoadConfig \/ SaveConfig \/ UploadPicture \/ UploadSong
Answer ==
  \/ ConfigLoaded \/ LoadFailed \/ SaveAnswered
  \/ PictureUploaded \/ SongUploaded \/ UploadFailed
Show == RefreshPreview \/ ChangeLanguage \/ SwitchViewport \/ FrameLoads \/ OtherTab

Next == (~crashed /\ (Edit \/ Ask \/ Answer \/ Show)) \/ OpenAgain

Spec == Init /\ [][Next]_vars
-----------------------------------------------------------------------------
TypeOK ==
  /\ slug \in Slugs \cup {NoTenant} /\ of \in Slugs \cup {NoTenant}
  /\ rows \in Seq(Pictures) /\ Len(rows) <= MaxRows
  /\ previewed \in BOOLEAN /\ pending \in BOOLEAN
  /\ stored \in {"preview", "other"} /\ frame \in {"preview", "older", "other"}
  /\ frameDue \in BOOLEAN
  /\ loads \subseteq Slugs /\ fetching \in BOOLEAN /\ asked \in Slugs \cup {NoTenant}
  /\ saving \in BOOLEAN
  /\ uploads \subseteq [n : 1..MaxUploads, what : {"picture"} \cup SongKinds,
                         at : 0..MaxRows, row : 0..MaxRows]
  /\ photoFlag \in 0..MaxRows /\ songFlags \subseteq SongKinds
  /\ crashed \in BOOLEAN /\ shifted \in BOOLEAN /\ foreign \in BOOLEAN

\* "Up to date" is never said of a preview that is not: it is of the form as it
\* is, and the frame shows it or is loading it.  Only another tab, which writes
\* to the same place, can put something else into the frame.
PreviewHonest ==
  /\ ~pending => previewed
  /\ ~frameDue /\ ~foreign => frame = "preview"

\* The form is of the tenant loaded last: whatever the user chose in the field
\* while it was loading, no other answer came after.
LastLoadShown == loads = {} => ~fetching /\ of = asked

\* A picture lands in the row it was chosen for, and the page survives it,
\* however many are uploaded and in whatever order they come, unless rows were
\* removed or replaced meanwhile.
UploadsLand ==
  ~shifted => ~crashed /\ \A i \in 1..Len(rows) : rows[i] # "other"

\* A failure or an answer ends what the page shows of it: nothing is shown as being
\* uploaded when nothing is.
FlagsSettle ==
  /\ Photos = {} => photoFlag = NoRow
  /\ songFlags = {u.what : u \in Songs}

Inv == TypeOK /\ FlagsSettle
=============================================================================
