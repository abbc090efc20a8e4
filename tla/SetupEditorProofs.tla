------------------------- MODULE SetupEditorProofs -------------------------
(***************************************************************************)
(* Proofs about SetupEditor, for any tenants, any number of rows and any   *)
(* number of uploads under way.  EditorInv is inductive: besides what the  *)
(* page shows, it says which load is under way, that localStorage holds    *)
(* the page's own preview until another tab writes, and that the row of an *)
(* upload stays where it was until rows are removed or replaced.           *)
(***************************************************************************)
EXTENDS SetupEditor, SequenceTheorems, TLAPS

\* At most one load is under way, and it is of the tenant asked for last.
OneLoad ==
  /\ loads = IF fetching THEN {asked} ELSE {}
  /\ ~fetching => of = asked

\* Only another tab writes something else to localStorage.
OwnPreview == ~foreign => stored = "preview"

\* One song of each kind is being uploaded at most.
SongsApart == \A u, v \in Songs : u.what = v.what => u = v

\* Each upload finds its row where it was.
RowsStay == ~shifted => \A u \in Photos : u.row = u.at /\ u.at <= Len(rows)

EditorInv ==
  /\ TypeOK /\ FlagsSettle /\ PreviewHonest /\ UploadsLand
  /\ OneLoad /\ OwnPreview /\ SongsApart /\ RowsStay

-----------------------------------------------------------------------------
LEMMA RemovedRows ==
  ASSUME NEW S, NEW s \in Seq(S), NEW i \in 1..Len(s)
  PROVE  /\ RemoveAt(s, i) \in Seq(S)
         /\ Len(RemoveAt(s, i)) = Len(s) - 1
         /\ \A j \in 1..Len(RemoveAt(s, i)) : \E k \in 1..Len(s) : RemoveAt(s, i)[j] = s[k]
<1> DEFINE before == SubSeq(s, 1, i - 1)
           after == SubSeq(s, i + 1, Len(s))
<1>1. /\ before \in Seq(S) /\ Len(before) = i - 1
      /\ \A j \in 1..(i - 1) : before[j] = s[j]
  BY SubSeqProperties
<1>2. /\ after \in Seq(S) /\ Len(after) = Len(s) - i
      /\ \A j \in 1..(Len(s) - i) : after[j] = s[i + j]
  BY SubSeqProperties
<1> DEFINE both == before \o after
<1>3. both \in Seq(S) /\ Len(both) = Len(s) - 1
  <2> HIDE DEF before, after
  <2>1. both \in Seq(S) /\ Len(both) = Len(before) + Len(after)
    BY <1>1, <1>2, ConcatProperties
  <2>2. Len(s) \in Nat
    OBVIOUS
  <2> HIDE DEF both
  <2>3. QED
    BY <1>1, <1>2, <2>1, <2>2
<1>4. \A j \in 1..(Len(s) - 1) : both[j] = IF j <= i - 1 THEN before[j] ELSE after[j - (i - 1)]
  <2> HIDE DEF before, after
  <2>1. Len(s) \in Nat
    OBVIOUS
  <2>2. QED
    BY <1>1, <1>2, <2>1, ConcatProperties
<1>5. \A j \in 1..(Len(s) - 1) : \E k \in 1..Len(s) : both[j] = s[k]
  <2> HIDE DEF before, after, both
  <2> SUFFICES ASSUME NEW j \in 1..(Len(s) - 1)
               PROVE  \E k \in 1..Len(s) : both[j] = s[k]
    OBVIOUS
  <2>1. CASE j <= i - 1
    <3>1. j \in 1..Len(s) /\ both[j] = s[j]
      BY <1>1, <1>4, <2>1
    <3>2. QED
      BY <3>1, Zenon
  <2>2. CASE j > i - 1
    <3>1. j + 1 \in 1..Len(s) /\ both[j] = s[j + 1]
      BY <1>2, <1>4, <2>2
    <3>2. QED
      BY <3>1, Zenon
  <2>3. QED
    BY <2>1, <2>2
<1>6. QED
  BY <1>3, <1>5, Zenon DEF RemoveAt

LEMMA InitEditor == Init => EditorInv
<1> SUFFICES ASSUME Init PROVE EditorInv
  OBVIOUS
<1>1. TypeOK
  <2>1. rows \in Seq(Pictures) /\ Len(rows) <= MaxRows
    BY SetupAssumption DEF Init
  <2>2. uploads = {} /\ loads = {} /\ songFlags = {} /\ photoFlag \in 0..MaxRows
    BY SetupAssumption DEF Init, NoRow
  <2>3. QED
    BY <2>1, <2>2, Zenon DEF Init, TypeOK
<1>2. FlagsSettle /\ SongsApart /\ RowsStay
  BY Zenon DEF Init, FlagsSettle, SongsApart, RowsStay, Photos, Songs
<1>3. PreviewHonest /\ OwnPreview /\ OneLoad
  BY Zenon DEF Init, PreviewHonest, OwnPreview, OneLoad
<1>4. UploadsLand
  BY DEF Init, UploadsLand
<1>5. QED
  BY <1>1, <1>2, <1>3, <1>4 DEF EditorInv

-----------------------------------------------------------------------------
(* The load and the preview.                                               *)

LEMMA LoadStep == TypeOK /\ OneLoad /\ [Next]_vars => OneLoad'
<1> SUFFICES ASSUME TypeOK, OneLoad, [Next]_vars PROVE OneLoad'
  OBVIOUS
<1>1. CASE LoadConfig
  <2>1. ~fetching /\ fetching' = TRUE
    BY <1>1, Zenon DEF LoadConfig, MayLoad
  <2>2. loads' = {asked'}
    BY <1>1, <2>1, Zenon DEF LoadConfig, OneLoad
  <2>3. QED
    BY <2>1, <2>2, Zenon DEF OneLoad
<1>2. CASE ConfigLoaded
  <2>1. PICK s \in loads : loads' = loads \ {s} /\ of' = s
    BY <1>2, Zenon DEF ConfigLoaded
  <2>2. loads = {asked} /\ s = asked
    BY <2>1, Zenon DEF OneLoad
  <2>3. loads' = {} /\ fetching' = FALSE /\ asked' = asked
    BY <1>2, <2>1, <2>2, Zenon DEF ConfigLoaded
  <2>4. QED
    BY <2>1, <2>2, <2>3, Zenon DEF OneLoad
<1>3. CASE LoadFailed
  <2>1. PICK s \in loads : loads' = loads \ {s} /\ asked' = IF asked = s THEN of ELSE asked
    BY <1>3, Zenon DEF LoadFailed
  <2>2. loads = {asked} /\ s = asked
    BY <2>1, Zenon DEF OneLoad
  <2>3. loads' = {} /\ fetching' = FALSE /\ asked' = of /\ of' = of
    BY <1>3, <2>1, <2>2, Zenon DEF LoadFailed
  <2>4. QED
    BY <2>3, Zenon DEF OneLoad
<1>4. CASE OpenAgain
  BY <1>4, Zenon DEF OpenAgain, OneLoad
<1>5. CASE Edit \/ Show \/ SaveConfig \/ SaveAnswered \/ UploadPicture \/ UploadSong
           \/ PictureUploaded \/ SongUploaded \/ UploadFailed \/ UNCHANGED vars
  <2>1. UNCHANGED <<of, loads, fetching, asked>>
    BY <1>5, Zenon DEF Edit, ChangeTenant, SetField, SetPicture, AddRow, RemoveRow, ApplyJson,
       Show, RefreshPreview, ChangeLanguage, SwitchViewport, FrameLoads, OtherTab,
       SaveConfig, SaveAnswered, UploadPicture, UploadSong, PictureUploaded, SongUploaded,
       UploadFailed, fetch, vars
  <2>2. QED
    BY <2>1, Zenon DEF OneLoad
<1>6. QED
  BY <1>1, <1>2, <1>3, <1>4, <1>5, Zenon DEF Next, Ask, Answer

LEMMA PreviewStep ==
  TypeOK /\ PreviewHonest /\ OwnPreview /\ [Next]_vars => PreviewHonest' /\ OwnPreview'
<1> SUFFICES ASSUME TypeOK, PreviewHonest, OwnPreview, [Next]_vars
             PROVE  PreviewHonest' /\ OwnPreview'
  OBVIOUS
<1>1. CASE SetField \/ SetPicture \/ AddRow \/ RemoveRow \/ ApplyJson
           \/ PictureUploaded \/ SongUploaded
  <2>1. FormChanged /\ UNCHANGED foreign
    BY <1>1, Zenon DEF SetField, SetPicture, AddRow, RemoveRow, ApplyJson, PictureUploaded,
       SongUploaded
  <2>2. QED
    BY <2>1, Zenon DEF FormChanged, PreviewHonest, OwnPreview
<1>2. CASE ConfigLoaded
  BY <1>2, Zenon DEF ConfigLoaded, PreviewChanged, PreviewHonest, OwnPreview
<1>3. CASE RefreshPreview
  <2>1. previewed' = TRUE /\ foreign' = foreign
    BY <1>3, Zenon DEF RefreshPreview
  <2>2. CASE previewed
    <3>1. stored' = stored /\ frame' = frame /\ frameDue' = frameDue
      BY <1>3, <2>2, Zenon DEF RefreshPreview
    <3>2. QED
      BY <2>1, <3>1, Zenon DEF PreviewHonest, OwnPreview
  <2>3. CASE ~previewed
    <3>1. stored' = "preview" /\ frameDue' = TRUE
      BY <1>3, <2>3, Zenon DEF RefreshPreview, PreviewChanged
    <3>2. QED
      BY <2>1, <3>1, Zenon DEF PreviewHonest, OwnPreview
  <2>4. QED
    BY <2>2, <2>3
<1>4. CASE ChangeLanguage
  BY <1>4, Zenon DEF ChangeLanguage, PreviewChanged, PreviewHonest, OwnPreview
<1>5. CASE SwitchViewport
  BY <1>5, Zenon DEF SwitchViewport, PreviewHonest, OwnPreview
<1>6. CASE FrameLoads
  BY <1>6, Zenon DEF FrameLoads, PreviewHonest, OwnPreview
<1>7. CASE OtherTab
  BY <1>7, Zenon DEF OtherTab, PreviewHonest, OwnPreview
<1>8. CASE OpenAgain
  BY <1>8, Zenon DEF OpenAgain, PreviewHonest, OwnPreview
<1>9. CASE ChangeTenant \/ Ask \/ LoadFailed \/ SaveAnswered \/ UploadFailed \/ UNCHANGED vars
  <2>1. UNCHANGED <<previewed, pending, stored, frame, frameDue, foreign>>
    BY <1>9, Zenon DEF ChangeTenant, Ask, LoadConfig, SaveConfig, UploadPicture, UploadSong,
       LoadFailed, SaveAnswered, UploadFailed, preview, vars
  <2>2. QED
    BY <2>1, Zenon DEF PreviewHonest, OwnPreview
<1>10. QED
  BY <1>1, <1>2, <1>3, <1>4, <1>5, <1>6, <1>7, <1>8, <1>9, Zenon DEF Next, Edit, Show, Answer

-----------------------------------------------------------------------------
(* The rows, and what is being uploaded to them.                           *)

RowsType == rows \in Seq(Pictures) /\ Len(rows) <= MaxRows
UploadsType ==
  uploads \subseteq [n : 1..MaxUploads, what : {"picture"} \cup SongKinds,
                     at : 0..MaxRows, row : 0..MaxRows]
FlagsType == photoFlag \in 0..MaxRows /\ songFlags \subseteq SongKinds
RestType ==
  /\ slug \in Slugs \cup {NoTenant} /\ of \in Slugs \cup {NoTenant}
  /\ previewed \in BOOLEAN /\ pending \in BOOLEAN
  /\ stored \in {"preview", "other"} /\ frame \in {"preview", "older", "other"}
  /\ frameDue \in BOOLEAN
  /\ loads \subseteq Slugs /\ fetching \in BOOLEAN /\ asked \in Slugs \cup {NoTenant}
  /\ saving \in BOOLEAN
  /\ crashed \in BOOLEAN /\ shifted \in BOOLEAN /\ foreign \in BOOLEAN

LEMMA TypeParts == TypeOK <=> RowsType /\ UploadsType /\ FlagsType /\ RestType
BY Zenon DEF TypeOK, RowsType, UploadsType, FlagsType, RestType

\* Another form has a row for each of its pictures, and no upload has a row in it.
LEMMA ReplaceStep ==
  ASSUME RowsType, UploadsType, NEW n \in 0..MaxRows, Replace(n)
  PROVE  /\ RowsType' /\ UploadsType'
         /\ \A i \in 1..Len(rows') : rows'[i] = "own"
<1>1. rows' = [i \in 1..n |-> "own"]
  BY DEF Replace
<1>2. rows' \in Seq(Pictures) /\ Len(rows') = n /\ \A i \in 1..Len(rows') : rows'[i] = "own"
  BY <1>1, SetupAssumption DEF Pictures
<1>3. RowsType'
  BY <1>2, SetupAssumption DEF RowsType
<1>4. UploadsType'
  BY SetupAssumption DEF Replace, UploadsType, NoRow
<1>5. QED
  BY <1>2, <1>3, <1>4

LEMMA RowsTypeStep == TypeOK /\ [Next]_vars => RowsType' /\ UploadsType'
<1> SUFFICES ASSUME RowsType, UploadsType, FlagsType, RestType, [Next]_vars
             PROVE  RowsType' /\ UploadsType'
  BY TypeParts
<1>1. CASE SetPicture
  <2>1. uploads' = uploads
    BY <1>1 DEF SetPicture, upload
  <2>2. PICK i \in 1..Len(rows), p \in {"none", "own"} : rows' = [rows EXCEPT ![i] = p]
    BY <1>1, Zenon DEF SetPicture
  <2>3. rows' \in Seq(Pictures) /\ Len(rows') = Len(rows)
    BY <2>2 DEF RowsType, Pictures
  <2>4. QED
    BY <2>1, <2>3 DEF RowsType, UploadsType
<1>2. CASE AddRow
  <2>1. uploads' = uploads
    BY <1>2 DEF AddRow, upload
  <2>2. rows' \in Seq(Pictures) /\ Len(rows') = Len(rows) + 1
    BY <1>2 DEF AddRow, RowsType, Pictures
  <2>3. QED
    BY <1>2, <2>1, <2>2, SetupAssumption DEF AddRow, RowsType, UploadsType
<1>3. CASE RemoveRow
  <2>1. PICK i \in 1..Len(rows) :
          /\ rows' = RemoveAt(rows, i)
          /\ uploads' = {[u EXCEPT !.row = IF @ = i THEN NoRow ELSE IF @ > i THEN @ - 1 ELSE @]
                           : u \in uploads}
    BY <1>3, Zenon DEF RemoveRow
  <2>2. RowsType'
    BY <2>1, RemovedRows, SetupAssumption DEF RowsType
  <2>3. ASSUME NEW u \in uploads
        PROVE  [u EXCEPT !.row = IF @ = i THEN NoRow ELSE IF @ > i THEN @ - 1 ELSE @]
                 \in [n : 1..MaxUploads, what : {"picture"} \cup SongKinds,
                      at : 0..MaxRows, row : 0..MaxRows]
    BY SetupAssumption DEF UploadsType, RowsType, NoRow
  <2>4. QED
    BY <2>1, <2>2, <2>3 DEF UploadsType
<1>4. CASE ApplyJson
  BY <1>4, ReplaceStep DEF ApplyJson
<1>5. CASE ConfigLoaded
  BY <1>5, ReplaceStep DEF ConfigLoaded
<1>6. CASE UploadPicture
  <2>1. rows' = rows
    BY <1>6 DEF UploadPicture
  <2>2. PICK i \in 1..Len(rows), n \in Unused :
          uploads' = uploads \cup {[n |-> n, what |-> "picture", at |-> i, row |-> i]}
    BY <1>6, Zenon DEF UploadPicture
  <2>3. QED
    BY <2>1, <2>2, SetupAssumption DEF RowsType, UploadsType, Unused
<1>7. CASE UploadSong
  <2>1. rows' = rows
    BY <1>7 DEF UploadSong
  <2>2. PICK w \in SongKinds \ songFlags, n \in Unused :
          uploads' = uploads \cup {[n |-> n, what |-> w, at |-> NoRow, row |-> NoRow]}
    BY <1>7, Zenon DEF UploadSong
  <2>3. QED
    BY <2>1, <2>2, SetupAssumption DEF RowsType, UploadsType, Unused, NoRow
<1>8. CASE PictureUploaded
  <2>1. PICK u \in Photos :
          /\ uploads' = uploads \ {u}
          /\ IF u.at <= Len(rows)
             THEN rows' = [rows EXCEPT ![u.at] = IF u.row = u.at THEN "own" ELSE "other"]
             ELSE rows' = rows
    BY <1>8, Zenon DEF PictureUploaded
  <2>2. rows' \in Seq(Pictures) /\ Len(rows') = Len(rows)
    <3>1. CASE u.at <= Len(rows)
      <4>1. PICK p \in Pictures : rows' = [rows EXCEPT ![u.at] = p]
        BY <2>1, <3>1, Zenon DEF Pictures
      <4>2. u.at \in 1..Len(rows)
        BY <3>1, SetupAssumption DEF Photos, UploadsType, NoRow
      <4>3. QED
        BY <4>1, <4>2 DEF RowsType
    <3>2. CASE ~(u.at <= Len(rows))
      BY <2>1, <3>2 DEF RowsType
    <3>3. QED
      BY <3>1, <3>2
  <2>3. QED
    BY <2>1, <2>2 DEF RowsType, UploadsType
<1>9. CASE SongUploaded \/ UploadFailed
  BY <1>9 DEF SongUploaded, UploadFailed, RowsType, UploadsType
<1>10. CASE OpenAgain
  BY <1>10, SetupAssumption DEF OpenAgain, RowsType, UploadsType
<1>11. CASE ChangeTenant \/ SetField \/ LoadConfig \/ LoadFailed \/ SaveConfig \/ SaveAnswered
            \/ Show \/ UNCHANGED vars
  <2>1. rows' = rows /\ uploads' = uploads
    BY <1>11, Zenon DEF ChangeTenant, SetField, LoadConfig, LoadFailed, SaveConfig, SaveAnswered,
       Show, RefreshPreview, ChangeLanguage, SwitchViewport, FrameLoads, OtherTab, upload, vars
  <2>2. QED
    BY <2>1 DEF RowsType, UploadsType
<1>12. QED
  BY <1>1, <1>2, <1>3, <1>4, <1>5, <1>6, <1>7, <1>8, <1>9, <1>10, <1>11, Zenon
     DEF Next, Edit, Ask, Answer

LEMMA FlagsTypeStep == TypeOK /\ [Next]_vars => FlagsType'
<1> SUFFICES ASSUME RowsType, FlagsType, [Next]_vars PROVE FlagsType'
  BY TypeParts
<1>1. NoRow \in 0..MaxRows
  BY SetupAssumption DEF NoRow
<1>2. CASE UploadPicture
  <2>1. songFlags' = songFlags
    BY <1>2 DEF UploadPicture
  <2>2. PICK i \in 1..Len(rows) : photoFlag' = i
    BY <1>2, Zenon DEF UploadPicture
  <2>3. photoFlag' \in 0..MaxRows
    BY <2>2, SetupAssumption DEF RowsType
  <2>4. QED
    BY <2>1, <2>3, Zenon DEF FlagsType
<1>3. CASE UploadSong \/ PictureUploaded \/ SongUploaded \/ UploadFailed \/ OpenAgain
  <2>1. photoFlag' = photoFlag \/ photoFlag' = NoRow
    BY <1>3, Zenon DEF UploadSong, PictureUploaded, SongUploaded, UploadFailed, OpenAgain
  <2>2. songFlags' \subseteq SongKinds
    BY <1>3, Zenon DEF UploadSong, PictureUploaded, SongUploaded, UploadFailed, OpenAgain, FlagsType
  <2>3. QED
    BY <1>1, <2>1, <2>2, Zenon DEF FlagsType
<1>4. CASE Edit \/ LoadConfig \/ SaveConfig \/ ConfigLoaded \/ LoadFailed \/ SaveAnswered \/ Show
           \/ UNCHANGED vars
  <2>1. photoFlag' = photoFlag /\ songFlags' = songFlags
    BY <1>4, Zenon DEF Edit, ChangeTenant, SetField, SetPicture, AddRow, RemoveRow, ApplyJson,
       LoadConfig, SaveConfig, ConfigLoaded, LoadFailed, SaveAnswered, Show, RefreshPreview,
       ChangeLanguage, SwitchViewport, FrameLoads, OtherTab, Replace, upload, vars
  <2>2. QED
    BY <2>1, Zenon DEF FlagsType
<1>5. QED
  BY <1>2, <1>3, <1>4, Zenon DEF Next, Ask, Answer

LEMMA RestTypeStep == TypeOK /\ [Next]_vars => RestType'
<1> SUFFICES ASSUME RestType, [Next]_vars PROVE RestType'
  BY TypeParts
<1>1. CASE Edit
  <2>1. UNCHANGED <<of, loads, fetching, asked, saving, crashed, foreign>>
    BY <1>1, Zenon DEF Edit, ChangeTenant, SetField, SetPicture, AddRow, RemoveRow, ApplyJson, fetch
  <2>2. slug' \in Slugs \cup {NoTenant}
    BY <1>1, Zenon DEF Edit, ChangeTenant, SetField, SetPicture, AddRow, RemoveRow, ApplyJson,
       RestType
  <2>3. FormChanged \/ UNCHANGED preview
    BY <1>1, Zenon DEF Edit, ChangeTenant, SetField, SetPicture, AddRow, RemoveRow, ApplyJson
  <2>4. shifted' = shifted \/ shifted' = (shifted \/ uploads # {})
    BY <1>1, Zenon DEF Edit, ChangeTenant, SetField, SetPicture, AddRow, RemoveRow, ApplyJson,
       Replace, upload
  <2>5. shifted' \in BOOLEAN
    BY <2>4, Zenon DEF RestType
  <2>6. /\ previewed' \in BOOLEAN /\ pending' \in BOOLEAN
        /\ UNCHANGED <<stored, frame, frameDue>>
    <3>1. CASE FormChanged
      BY <3>1 DEF FormChanged
    <3>2. CASE UNCHANGED preview
      BY <3>2, Zenon DEF preview, RestType
    <3>3. QED
      BY <2>3, <3>1, <3>2
  <2>7. QED
    BY <2>1, <2>2, <2>5, <2>6, Zenon DEF RestType
<1>2. CASE Ask
  <2>1. UNCHANGED <<slug, of, previewed, pending, stored, frame, frameDue, crashed, foreign, shifted>>
    BY <1>2, Zenon DEF Ask, LoadConfig, SaveConfig, UploadPicture, UploadSong, preview, upload
  <2>2. saving' \in BOOLEAN /\ fetching' \in BOOLEAN /\ asked' \in Slugs \cup {NoTenant}
    BY <1>2, Zenon DEF Ask, LoadConfig, SaveConfig, UploadPicture, UploadSong, fetch, RestType
  <2>3. loads' \subseteq Slugs
    BY <1>2, Zenon DEF Ask, LoadConfig, SaveConfig, UploadPicture, UploadSong, TenantChosen, fetch,
       RestType
  <2>4. QED
    BY <2>1, <2>2, <2>3, Zenon DEF RestType
<1>3. CASE ConfigLoaded \/ LoadFailed \/ SaveAnswered
  <2>1. CASE ConfigLoaded
    BY <2>1 DEF ConfigLoaded, PreviewChanged, Replace, preview, fetch, upload, RestType
  <2>2. CASE LoadFailed
    <3>1. UNCHANGED <<slug, of, previewed, pending, stored, frame, frameDue, saving, crashed,
                      foreign, shifted>>
      BY <2>2, Zenon DEF LoadFailed, upload, preview
    <3>2. loads' \subseteq Slugs /\ fetching' \in BOOLEAN /\ asked' \in Slugs \cup {NoTenant}
      BY <2>2 DEF LoadFailed, RestType
    <3>3. QED
      BY <3>1, <3>2 DEF RestType
  <2>3. CASE SaveAnswered
    <3>1. UNCHANGED <<slug, of, previewed, pending, stored, frame, frameDue, loads, fetching,
                      asked, crashed, foreign, shifted>>
      BY <2>3, Zenon DEF SaveAnswered, upload, preview, fetch
    <3>2. saving' \in BOOLEAN
      BY <2>3 DEF SaveAnswered
    <3>3. QED
      BY <3>1, <3>2 DEF RestType
  <2>4. QED
    BY <1>3, <2>1, <2>2, <2>3
<1>4. CASE PictureUploaded \/ SongUploaded \/ UploadFailed
  <2>1. UNCHANGED <<slug, of, loads, fetching, asked, saving, foreign, shifted>>
    BY <1>4, Zenon DEF PictureUploaded, SongUploaded, UploadFailed, fetch
  <2>2. FormChanged \/ UNCHANGED preview
    BY <1>4, Zenon DEF PictureUploaded, SongUploaded, UploadFailed
  <2>3. crashed' = crashed \/ crashed' = TRUE
    BY <1>4, Zenon DEF PictureUploaded, SongUploaded, UploadFailed
  <2>4. /\ previewed' \in BOOLEAN /\ pending' \in BOOLEAN /\ frameDue' \in BOOLEAN
        /\ stored' = stored /\ frame' = frame /\ crashed' \in BOOLEAN
    BY <2>2, <2>3, Zenon DEF FormChanged, preview, RestType
  <2>5. QED
    BY <2>1, <2>4, Zenon DEF RestType
<1>5. CASE Show
  <2>1. UNCHANGED <<slug, of, loads, fetching, asked, saving, crashed, shifted>>
    BY <1>5, Zenon DEF Show, RefreshPreview, ChangeLanguage, SwitchViewport, FrameLoads, OtherTab,
       fetch, upload
  <2>2. previewed' \in BOOLEAN /\ pending' \in BOOLEAN /\ frameDue' \in BOOLEAN /\ foreign' \in BOOLEAN
    BY <1>5, Zenon DEF Show, RefreshPreview, ChangeLanguage, SwitchViewport, FrameLoads, OtherTab,
       PreviewChanged, RestType
  <2>3. stored' \in {"preview", "other"}
    BY <1>5, Zenon DEF Show, RefreshPreview, ChangeLanguage, SwitchViewport, FrameLoads, OtherTab,
       PreviewChanged, RestType
  <2>4. frame' \in {"preview", "older", "other"}
    BY <1>5, Zenon DEF Show, RefreshPreview, ChangeLanguage, SwitchViewport, FrameLoads, OtherTab,
       PreviewChanged, RestType
  <2>5. QED
    BY <2>1, <2>2, <2>3, <2>4, Zenon DEF RestType
<1>6. CASE OpenAgain
  BY <1>6 DEF OpenAgain, RestType
<1>7. CASE UNCHANGED vars
  BY <1>7 DEF vars, preview, fetch, upload, RestType
<1>8. QED
  BY <1>1, <1>2, <1>3, <1>4, <1>5, <1>6, <1>7, Zenon DEF Next, Answer

LEMMA TypeStep == TypeOK /\ [Next]_vars => TypeOK'
BY TypeParts, RowsTypeStep, FlagsTypeStep, RestTypeStep, Zenon
   DEF TypeOK, RowsType, UploadsType, FlagsType, RestType

\* A step that moves the rows of uploads leaves what they are for and where they go.
LEMMA FlagsOfMoved ==
  ASSUME UploadsType, FlagsSettle, SongsApart, UNCHANGED <<photoFlag, songFlags>>,
         NEW moved,
         \A u \in uploads : moved[u].at = u.at /\ moved[u].what = u.what,
         uploads' = {moved[u] : u \in uploads}
  PROVE  FlagsSettle' /\ SongsApart'
<1>1. Photos' = {} => Photos = {}
  BY Zenon DEF Photos
<1>2. ASSUME NEW v \in Songs' PROVE \E u \in Songs : v = moved[u] /\ v.what = u.what
  <2>1. v \in uploads' /\ v.at = NoRow BY Zenon DEF Songs
  <2>2. PICK u \in uploads : v = moved[u] BY <2>1, Zenon
  <2>3. v.at = u.at /\ v.what = u.what BY <2>2
  <2> QED BY <2>1, <2>2, <2>3, Zenon DEF Songs
<1>3. \A u \in Songs : moved[u] \in Songs' /\ moved[u].what = u.what
  BY Zenon DEF Songs
<1>4. {v.what : v \in Songs'} = {u.what : u \in Songs}
  <2>1. ASSUME NEW x \in {v.what : v \in Songs'} PROVE x \in {u.what : u \in Songs}
    <3>1. PICK v \in Songs' : x = v.what BY <2>1, Zenon
    <3>2. PICK u \in Songs : v.what = u.what BY <1>2
    <3> QED BY <3>1, <3>2, Zenon
  <2>2. ASSUME NEW x \in {u.what : u \in Songs} PROVE x \in {v.what : v \in Songs'}
    <3>1. PICK u \in Songs : x = u.what BY Zenon
    <3>2. moved[u] \in Songs' /\ x = moved[u].what BY <1>3, <3>1
    <3> QED BY <3>2, Zenon
  <2> QED BY <2>1, <2>2, Zenon
<1>5. SongsApart'
  <2> SUFFICES ASSUME NEW v \in Songs', NEW w \in Songs', v.what = w.what PROVE v = w
    BY Zenon DEF SongsApart
  <2>1. PICK u \in Songs : v = moved[u] /\ v.what = u.what BY <1>2, Zenon
  <2>2. PICK x \in Songs : w = moved[x] /\ w.what = x.what BY <1>2, Zenon
  <2>3. u = x BY <2>1, <2>2, Zenon DEF SongsApart
  <2> QED BY <2>1, <2>2, <2>3
<1> QED BY <1>1, <1>4, <1>5, Zenon DEF FlagsSettle

LEMMA FlagsStep ==
  TypeOK /\ FlagsSettle /\ SongsApart /\ [Next]_vars => FlagsSettle' /\ SongsApart'
<1> SUFFICES ASSUME UploadsType, FlagsType, FlagsSettle, SongsApart, [Next]_vars
             PROVE  FlagsSettle' /\ SongsApart'
  BY TypeParts
<1>1. ASSUME UNCHANGED <<uploads, photoFlag, songFlags>>
      PROVE  FlagsSettle' /\ SongsApart'
  BY <1>1, Zenon DEF FlagsSettle, SongsApart, Photos, Songs
\* What happens to pictures leaves the songs alone, and the other way round.
<1>2. ASSUME Songs' = Songs, songFlags' = songFlags, photoFlag' = NoRow \/ Photos' # {}
      PROVE  FlagsSettle' /\ SongsApart'
  BY <1>2, Zenon DEF FlagsSettle, SongsApart
<1>3. ASSUME NEW n, Replace(n)
      PROVE  FlagsSettle' /\ SongsApart'
  <2>1. PICK moved : moved = [u \in uploads |-> [u EXCEPT !.row = NoRow]]
    OBVIOUS
  <2>2. \A u \in uploads : moved[u].at = u.at /\ moved[u].what = u.what
    BY <2>1 DEF UploadsType
  <2>3. uploads' = {moved[u] : u \in uploads} /\ UNCHANGED <<photoFlag, songFlags>>
    BY <1>3, <2>1 DEF Replace
  <2>4. QED
    BY <2>2, <2>3, FlagsOfMoved
<1>4. CASE RemoveRow
  <2>1. PICK i \in 1..Len(rows) :
          uploads' = {[u EXCEPT !.row = IF @ = i THEN NoRow ELSE IF @ > i THEN @ - 1 ELSE @]
                        : u \in uploads}
    BY <1>4, Zenon DEF RemoveRow
  <2>2. PICK moved : moved =
          [u \in uploads |->
             [u EXCEPT !.row = IF @ = i THEN NoRow ELSE IF @ > i THEN @ - 1 ELSE @]]
    OBVIOUS
  <2>3. \A u \in uploads : moved[u].at = u.at /\ moved[u].what = u.what
    BY <2>2 DEF UploadsType
  <2>4. uploads' = {moved[u] : u \in uploads} /\ UNCHANGED <<photoFlag, songFlags>>
    BY <1>4, <2>1, <2>2 DEF RemoveRow
  <2>5. QED
    BY <2>3, <2>4, FlagsOfMoved
<1>5. CASE UploadPicture
  <2>1. PICK i \in 1..Len(rows), n \in Unused :
          uploads' = uploads \cup {[n |-> n, what |-> "picture", at |-> i, row |-> i]}
    BY <1>5, Zenon DEF UploadPicture
  <2>2. PICK w : w = [n |-> n, what |-> "picture", at |-> i, row |-> i]
    OBVIOUS
  <2>3. uploads' = uploads \cup {w} /\ w.at # NoRow
    BY <2>1, <2>2 DEF NoRow
  <2>4. w \in Photos' /\ Songs' = Songs
    BY <2>3 DEF Photos, Songs
  <2>5. QED
    BY <1>2, <1>5, <2>4 DEF UploadPicture
<1>6. CASE UploadSong
  <2>1. PICK k \in SongKinds \ songFlags, n \in Unused :
          /\ uploads' = uploads \cup {[n |-> n, what |-> k, at |-> NoRow, row |-> NoRow]}
          /\ songFlags' = songFlags \cup {k}
    BY <1>6, Zenon DEF UploadSong
  <2>2. PICK w : w = [n |-> n, what |-> k, at |-> NoRow, row |-> NoRow]
    OBVIOUS
  <2>3. uploads' = uploads \cup {w} /\ w.at = NoRow /\ w.what = k
    BY <2>1, <2>2
  <2>4. Photos' = Photos /\ Songs' = Songs \cup {w} /\ photoFlag' = photoFlag
    BY <1>6, <2>3, Zenon DEF Photos, Songs, UploadSong
  <2>5. \A u \in Songs : u.what # k
    BY <2>1, Zenon DEF FlagsSettle
  <2>6. songFlags' = {u.what : u \in Songs'}
    BY <2>1, <2>3, <2>4, Zenon DEF FlagsSettle
  <2>7. SongsApart'
    BY <2>3, <2>4, <2>5, Zenon DEF SongsApart
  <2>8. QED
    BY <2>4, <2>6, <2>7, Zenon DEF FlagsSettle
<1>7. CASE PictureUploaded
  <2>1. PICK u \in Photos : uploads' = uploads \ {u}
    BY <1>7, Zenon DEF PictureUploaded
  <2>2. Songs' = Songs
    BY <2>1 DEF Photos, Songs
  <2>3. QED
    BY <1>2, <1>7, <2>2, Zenon DEF PictureUploaded
<1>8. ASSUME NEW u \in Songs, uploads' = uploads \ {u}, songFlags' = songFlags \ {u.what},
             photoFlag' = photoFlag
      PROVE  FlagsSettle' /\ SongsApart'
  <2>1. Songs' = Songs \ {u} /\ Photos' = Photos
    BY <1>8, Zenon DEF Songs, Photos
  <2>2. \A v \in Songs' : v.what # u.what
    BY <2>1, Zenon DEF SongsApart
  <2>3. songFlags' = {v.what : v \in Songs'}
    BY <1>8, <2>1, <2>2, Zenon DEF FlagsSettle
  <2>4. QED
    BY <1>8, <2>1, <2>3, Zenon DEF FlagsSettle, SongsApart
<1>9. CASE SongUploaded
  BY <1>8, <1>9, Zenon DEF SongUploaded
<1>10. CASE UploadFailed
  <2>1. PICK u \in uploads :
          /\ uploads' = uploads \ {u}
          /\ IF u \in Songs THEN songFlags' = songFlags \ {u.what} /\ photoFlag' = photoFlag
                            ELSE photoFlag' = NoRow /\ songFlags' = songFlags
    BY <1>10, Zenon DEF UploadFailed
  <2>2. CASE u \in Songs
    BY <1>8, <2>1, <2>2
  <2>3. CASE u \notin Songs
    <3>1. Songs' = Songs
      BY <2>1, <2>3, Zenon DEF Songs
    <3>2. QED
      BY <1>2, <2>1, <2>3, <3>1, Zenon
  <2>4. QED
    BY <2>2, <2>3
<1>11. CASE OpenAgain
  <2>1. uploads' = {} /\ songFlags' = {} /\ photoFlag' = NoRow
    BY <1>11, Zenon DEF OpenAgain
  <2>2. Songs' = {}
    BY <2>1, Zenon DEF Songs
  <2>3. QED
    BY <2>1, <2>2, Zenon DEF FlagsSettle, SongsApart
<1>12. CASE ApplyJson
  BY <1>3, <1>12, Zenon DEF ApplyJson
<1>13. CASE ConfigLoaded
  BY <1>3, <1>13, Zenon DEF ConfigLoaded
<1>14. CASE ChangeTenant \/ SetField \/ SetPicture \/ AddRow \/ LoadConfig \/ LoadFailed
            \/ SaveConfig \/ SaveAnswered \/ Show \/ UNCHANGED vars
  BY <1>1, <1>14, Zenon DEF ChangeTenant, SetField, SetPicture, AddRow, LoadConfig, LoadFailed,
     SaveConfig, SaveAnswered, Show, RefreshPreview, ChangeLanguage, SwitchViewport, FrameLoads,
     OtherTab, upload, vars
<1>15. QED
  BY <1>4, <1>5, <1>6, <1>7, <1>9, <1>10, <1>11, <1>12, <1>13, <1>14, Zenon
     DEF Next, Edit, Ask, Answer

LEMMA RowsStep ==
  TypeOK /\ RowsStay /\ UploadsLand /\ [Next]_vars => RowsStay' /\ UploadsLand'
<1> SUFFICES ASSUME RowsType, UploadsType, RestType, RowsStay, UploadsLand, [Next]_vars
             PROVE  RowsStay' /\ UploadsLand'
  BY TypeParts
<1> USE DEF RowsStay, UploadsLand, Photos
<1>1. ASSUME UNCHANGED <<rows, uploads, shifted, crashed>>
      PROVE  RowsStay' /\ UploadsLand'
  BY <1>1, Zenon
<1>2. ASSUME uploads' \subseteq uploads, UNCHANGED <<rows, shifted, crashed>>
      PROVE  RowsStay' /\ UploadsLand'
  BY <1>2, Zenon
\* Another form, or a row less, under an upload ends what is promised; without
\* one nothing can be in a row that is not its own.
<1>3. ASSUME shifted' = (shifted \/ uploads # {}), uploads = {} => uploads' = {},
             crashed' = crashed, ~shifted => \A i \in 1..Len(rows') : rows'[i] # "other"
      PROVE  RowsStay' /\ UploadsLand'
  BY <1>3, Zenon
<1>4. ASSUME NEW n \in 0..MaxRows, Replace(n), crashed' = crashed
      PROVE  RowsStay' /\ UploadsLand'
  <2>1. \A i \in 1..Len(rows') : rows'[i] # "other"
    BY <1>4, ReplaceStep
  <2>2. shifted' = (shifted \/ uploads # {}) /\ (uploads = {} => uploads' = {})
    BY <1>4, Zenon DEF Replace
  <2>3. QED
    BY <1>3, <1>4, <2>1, <2>2, Zenon
<1>5. CASE RemoveRow
  <2>1. PICK i \in 1..Len(rows) : rows' = RemoveAt(rows, i)
    BY <1>5, Zenon DEF RemoveRow
  <2>2. \A j \in 1..Len(rows') : \E k \in 1..Len(rows) : rows'[j] = rows[k]
    BY <2>1, RemovedRows DEF RowsType
  <2>3. ~shifted => \A j \in 1..Len(rows') : rows'[j] # "other"
    BY <2>2, Zenon
  <2>4. /\ shifted' = (shifted \/ uploads # {}) /\ (uploads = {} => uploads' = {})
        /\ crashed' = crashed
    BY <1>5, Zenon DEF RemoveRow
  <2>5. QED
    BY <1>3, <2>3, <2>4, Zenon
<1>6. CASE SetPicture
  <2>1. PICK i \in 1..Len(rows), p \in {"none", "own"} : rows' = [rows EXCEPT ![i] = p]
    BY <1>6, Zenon DEF SetPicture
  <2>2. Len(rows') = Len(rows) /\ \A j \in 1..Len(rows') : rows'[j] = p \/ rows'[j] = rows[j]
    BY <2>1 DEF RowsType
  <2>3. uploads' = uploads /\ shifted' = shifted /\ crashed' = crashed
    BY <1>6, Zenon DEF SetPicture, upload
  <2>4. p # "other"
    OBVIOUS
  <2>5. RowsStay'
    BY <2>2, <2>3, Zenon
  <2>6. UploadsLand'
    BY <2>2, <2>3, <2>4, Zenon
  <2>7. QED
    BY <2>5, <2>6
<1>7. CASE AddRow
  <2>1. rows' = Append(rows, "none")
    BY <1>7, Zenon DEF AddRow
  <2>2. /\ Len(rows') = Len(rows) + 1
        /\ \A j \in 1..Len(rows') : rows'[j] = "none" \/ (j \in 1..Len(rows) /\ rows'[j] = rows[j])
    BY <2>1 DEF RowsType
  <2>3. uploads' = uploads /\ shifted' = shifted /\ crashed' = crashed
    BY <1>7, Zenon DEF AddRow, upload
  <2>4. \A u \in uploads : u.at <= Len(rows) => u.at <= Len(rows')
    BY <2>2, SetupAssumption DEF UploadsType, RowsType
  <2>5. RowsStay'
    BY <2>3, <2>4, Zenon
  <2>6. UploadsLand'
    BY <2>2, <2>3, Zenon
  <2>7. QED
    BY <2>5, <2>6
<1>8. CASE UploadPicture
  <2>1. PICK i \in 1..Len(rows), n \in Unused :
          uploads' = uploads \cup {[n |-> n, what |-> "picture", at |-> i, row |-> i]}
    BY <1>8, Zenon DEF UploadPicture
  <2> DEFINE w == [n |-> n, what |-> "picture", at |-> i, row |-> i]
  <2>2. uploads' = uploads \cup {w} /\ w.row = w.at /\ w.at <= Len(rows)
    BY <2>1 DEF RowsType
  <2> HIDE DEF w
  <2>3. rows' = rows /\ shifted' = shifted /\ crashed' = crashed
    BY <1>8, Zenon DEF UploadPicture
  <2>4. QED
    BY <2>2, <2>3, Zenon
<1>9. CASE UploadSong
  <2>0. PICK k \in SongKinds \ songFlags, n \in Unused :
          uploads' = uploads \cup {[n |-> n, what |-> k, at |-> NoRow, row |-> NoRow]}
    BY <1>9, Zenon DEF UploadSong
  <2> DEFINE w == [n |-> n, what |-> k, at |-> NoRow, row |-> NoRow]
  <2>1. uploads' = uploads \cup {w} /\ w.at = NoRow
    BY <2>0
  <2> HIDE DEF w
  <2>2. rows' = rows /\ shifted' = shifted /\ crashed' = crashed
    BY <1>9, Zenon DEF UploadSong
  <2>3. QED
    BY <2>1, <2>2, Zenon
<1>10. CASE PictureUploaded
  <2>1. PICK u \in Photos :
          /\ uploads' = uploads \ {u}
          /\ IF u.at <= Len(rows)
             THEN /\ rows' = [rows EXCEPT ![u.at] = IF u.row = u.at THEN "own" ELSE "other"]
                  /\ crashed' = crashed
             ELSE crashed' = TRUE /\ rows' = rows
    BY <1>10, Zenon DEF PictureUploaded
  <2>2. shifted' = shifted
    BY <1>10, Zenon DEF PictureUploaded
  <2>3. CASE shifted
    BY <2>2, <2>3, Zenon
  <2>4. CASE ~shifted
    <3>1. u.row = u.at /\ u.at <= Len(rows)
      BY <2>4, Zenon
    <3>2. rows' = [rows EXCEPT ![u.at] = "own"] /\ crashed' = crashed
      BY <2>1, <3>1, Zenon
    <3>3. Len(rows') = Len(rows) /\ \A j \in 1..Len(rows') : rows'[j] = "own" \/ rows'[j] = rows[j]
      BY <3>2 DEF RowsType
    <3>4. RowsStay'
      BY <2>1, <2>4, <3>3, Zenon
    <3>5. UploadsLand'
      BY <2>4, <3>2, <3>3, Zenon
    <3>6. QED
      BY <3>4, <3>5
  <2>5. QED
    BY <2>3, <2>4
<1>11. CASE SongUploaded \/ UploadFailed
  BY <1>2, <1>11, Zenon DEF SongUploaded, UploadFailed
<1>12. CASE OpenAgain
  BY <1>12 DEF OpenAgain
<1>13. CASE ApplyJson
  BY <1>4, <1>13, Zenon DEF ApplyJson
<1>14. CASE ConfigLoaded
  BY <1>4, <1>14, Zenon DEF ConfigLoaded
<1>15. CASE ChangeTenant \/ SetField \/ LoadConfig \/ LoadFailed \/ SaveConfig \/ SaveAnswered
            \/ Show \/ UNCHANGED vars
  BY <1>1, <1>15, Zenon DEF ChangeTenant, SetField, LoadConfig, LoadFailed, SaveConfig,
     SaveAnswered, Show, RefreshPreview, ChangeLanguage, SwitchViewport, FrameLoads, OtherTab,
     upload, vars
<1>16. QED
  BY <1>5, <1>6, <1>7, <1>8, <1>9, <1>10, <1>11, <1>12, <1>13, <1>14, <1>15, Zenon
     DEF Next, Edit, Ask, Answer

-----------------------------------------------------------------------------
LEMMA EditorStep == EditorInv /\ [Next]_vars => EditorInv'
BY TypeStep, FlagsStep, PreviewStep, LoadStep, RowsStep, Zenon DEF EditorInv

\* The inductive invariant: the types, the flags, the preview, the load and the rows.
THEOREM EditorInvHolds == Spec => []EditorInv
<1>1. Init => EditorInv
  BY InitEditor
<1>2. EditorInv /\ [Next]_vars => EditorInv'
  BY EditorStep
<1>3. QED
  BY <1>1, <1>2, PTL DEF Spec

\* Types, and nothing is shown as being uploaded when nothing is, for any number
\* of uploads that overlap (uploadPhoto, uploadMusic).
THEOREM FlagsAlwaysSettle == Spec => []Inv
<1>1. EditorInv => Inv
  BY DEF EditorInv, Inv
<1>2. QED
  BY <1>1, EditorInvHolds, PTL

\* "Up to date" is said of no preview that is not (hasPendingPreviewChanges).
THEOREM PreviewAlwaysHonest == Spec => []PreviewHonest
<1>1. EditorInv => PreviewHonest
  BY DEF EditorInv
<1>2. QED
  BY <1>1, EditorInvHolds, PTL

\* The form is of the tenant loaded last (loadConfig).
THEOREM LastLoadAlwaysShown == Spec => []LastLoadShown
<1>1. EditorInv => LastLoadShown
  BY Zenon DEF EditorInv, OneLoad, LastLoadShown
<1>2. QED
  BY <1>1, EditorInvHolds, PTL

\* A picture lands in its row, unless rows were removed or replaced meanwhile.
THEOREM UploadsAlwaysLand == Spec => []UploadsLand
<1>1. EditorInv => UploadsLand
  BY DEF EditorInv
<1>2. QED
  BY <1>1, EditorInvHolds, PTL
=============================================================================
