---------------------------- MODULE PublicPages ----------------------------
(***************************************************************************)
(* One visitor's tab on the public pages of the tenants: the cover, the    *)
(* game and the showcase (the dashboard shows the same one), and the music *)
(* they share, which lives outside of them.  Each page asks for the        *)
(* configuration in the language chosen and drops the answers to what it   *)
(* asked before.  A step includes the effects React runs after it: they    *)
(* are run before the next one.  What a page says is left out, of a        *)
(* configuration only the music is kept, and of the game only where the    *)
(* player is for the music.                                                *)
(***************************************************************************)
EXTENDS Naturals, FiniteSets

CONSTANTS
  Slugs, Langs,
  Tracks,    \* the music files; a link to another site is not one of them
  NoMusic,   \* no music, or none the page can play
  Music,     \* the music of each tenant in each language
  Nothing,   \* no configuration
  MaxLoads,  \* bound: requests outstanding
  MaxMoves   \* bound: changes of the language or the tenant, and reloads, of a page

ASSUME PagesAssumption ==
  /\ NoMusic \notin Tracks
  /\ Music \in [Slugs \X Langs -> Tracks \cup {NoMusic}]
  /\ Nothing \notin Slugs \X Langs
  /\ MaxLoads \in Nat \ {0} /\ MaxMoves \in Nat

Pages == {"home", "game", "showcase", "away"}

\* In the game: before the journey, on two of its stages, or at the voice note.
Spots == {"before", "one", "other", "voice"}

VARIABLES
  page, slug, lang,
  loads,    \* requests: what for, and whether the effect that sent it still holds
  shown,    \* the configuration the page holds, by what it was asked for
  loading, error,  \* of the showcase
  spot,
  started,  \* sessionStorage: the journey was started
  starting, \* covers left through "start": the play awaited before the game
  music,    \* the audio element, its source, and isSuppressed
  toggled,  \* history: the visitor pressed play
  moves

view == <<page, slug, lang>>
showcase == <<loading, error>>
pagesVars == <<view, loads, shown, showcase, spot, started, starting, music, toggled, moves>>

Asked == <<slug, lang>>
Live == {l \in loads : l.live}
Track(c) == IF c = Nothing THEN NoMusic ELSE Music[c]
-----------------------------------------------------------------------------
(* The audio element.                                                      *)

\* getOrCreateJourneyAudio: another source is resumed if the last one was
\* playing, unless the browser refuses.
GetAudio(m, track) ==
  IF track \notin Tracks \/ track = m.src THEN {m}
  ELSE {[m EXCEPT !.src = track], [m EXCEPT !.src = track, !.playing = FALSE]}

\* playJourneyMusic, startJourneyMusicFromGesture: the browser may refuse.
Play(m, track) ==
  IF m.suppressed \/ track \notin Tracks THEN {m}
  ELSE GetAudio(m, track) \cup {[n EXCEPT !.playing = TRUE] : n \in GetAudio(m, track)}

Pause(m) == [m EXCEPT !.playing = FALSE]

\* setJourneyMusicSuppressed
Suppress(m, value) == [m EXCEPT !.suppressed = value, !.playing = @ /\ ~value]

\* mutant: the effects do not ask whether the journey was started.
PlayAtOnce(m, track) == Play(m, track)

\* Each of the effects plays only after the journey was started.
PlayIfStarted(m, track) == IF started THEN Play(m, track) ELSE {m}

\* mutant: the place before the journey does not end the suppression.
GameMoodOnlyJourney(m, sp, track) ==
  CASE sp = "before" -> {m}
    [] sp = "voice" -> {Suppress(m, TRUE)}
    [] OTHER -> PlayIfStarted(Suppress(m, FALSE), track)

\* The effect of the game on a change of stage, step or music.
GameMood(m, sp, track) ==
  CASE sp = "before" -> {Suppress(m, FALSE)}
    [] sp = "voice" -> {Suppress(m, TRUE)}
    [] OTHER -> PlayIfStarted(Suppress(m, FALSE), track)

\* Only the effect of a stage with music cleans up after itself.
LeftGame(m) == IF page = "game" /\ spot \in {"one", "other"} THEN Suppress(m, FALSE) ELSE m

\* The effect of the showcase on a change of the music.
ShowcaseMood(m, track) ==
  IF track \in Tracks THEN UNION {PlayIfStarted(n, track) : n \in GetAudio(m, track)}
  ELSE {Pause(m)}

\* What the page does when the configuration it holds becomes c.
MusicOf(m, c) ==
  IF Track(c) = Track(shown) THEN {m}
  ELSE CASE page = "game" ->
              UNION {PlayIfStarted(n, Track(c)) : n \in GameMood(m, spot, Track(c))}
         [] page = "showcase" -> ShowcaseMood(m, Track(c))
         [] OTHER -> {m}
-----------------------------------------------------------------------------
Silent == [src |-> NoMusic, playing |-> FALSE, suppressed |-> FALSE]

\* The loading effect: what was asked for before is not listened to any more.
Load(p, s, l) ==
  LET before == {[r EXCEPT !.live = FALSE] : r \in loads}
  IN  loads' = IF p = "away" THEN before
               ELSE before \cup {[slug |-> s, lang |-> l, live |-> TRUE]}

MayLoad == Cardinality(loads) < MaxLoads

PagesInit ==
  /\ page \in Pages /\ slug \in Slugs /\ lang \in Langs
  /\ loads = IF page = "away" THEN {} ELSE {[slug |-> slug, lang |-> lang, live |-> TRUE]}
  /\ shown = Nothing
  /\ loading = (page = "showcase") /\ error = FALSE
  /\ spot = "before"
  /\ started = FALSE /\ starting = {}
  /\ music = Silent
  /\ toggled = FALSE /\ moves = 0

\* The tab is loaded again: sessionStorage and the language survive.
Reload ==
  /\ moves < MaxMoves /\ moves' = moves + 1
  /\ loads' = IF page = "away" THEN {} ELSE {[slug |-> slug, lang |-> lang, live |-> TRUE]}
  /\ shown' = Nothing
  /\ loading' = (page = "showcase") /\ error' = FALSE
  /\ spot' = "before" /\ starting' = {}
  /\ music' = Silent
  /\ UNCHANGED <<view, started, toggled>>

\* Another tenant on the same page keeps the page; another page is mounted anew.
Show(p, s) ==
  /\ MayLoad
  /\ page' = p /\ slug' = s /\ UNCHANGED lang
  /\ Load(p, s, lang)
  /\ IF p = page
     THEN UNCHANGED <<shown, showcase, spot, music>>
     ELSE /\ shown' = Nothing
          /\ loading' = (p = "showcase") /\ error' = FALSE
          /\ spot' = "before"
          /\ music' \in CASE p = "game" -> GameMood(LeftGame(music), "before", NoMusic)
                          [] p = "showcase" -> ShowcaseMood(LeftGame(music), NoMusic)
                          [] OTHER -> {LeftGame(music)}

\* The links of the pages, the end of the game, back and forward.
GoTo ==
  /\ \E p \in Pages, s \in Slugs :
       /\ <<p, s>> # <<page, slug>> /\ Show(p, s)
       /\ moves' = moves + (IF p = page THEN 1 ELSE 0)
  /\ moves' <= MaxMoves
  /\ UNCHANGED <<started, starting, toggled>>

SwitchLanguage ==
  /\ moves < MaxMoves /\ moves' = moves + 1
  /\ MayLoad
  /\ \E l \in Langs \ {lang} : lang' = l /\ Load(page, slug, l)
  /\ UNCHANGED <<page, slug, shown, showcase, spot, started, starting, music, toggled>>

\* handleStartJourney: the game is opened when the play was answered.
StartJourney ==
  /\ page = "home"
  /\ started' = TRUE
  /\ music' \in Play(music, Track(shown))
  /\ starting' = starting \cup {slug}
  /\ UNCHANGED <<view, loads, shown, showcase, spot, toggled, moves>>

\* ... wherever the visitor has gone meanwhile.
StartAnswered ==
  /\ \E s \in starting :
       /\ starting' = starting \ {s}
       /\ IF <<page, slug>> = <<"game", s>>
          THEN UNCHANGED <<view, loads, shown, showcase, spot, music>>
          ELSE Show("game", s)
  /\ UNCHANGED <<started, toggled, moves>>

\* mutant: an answer is taken whoever asked for it.
HeardAlways(r) == TRUE

\* The mounted flag of the effect that sent the request.
Heard(r) == r.live

Answered ==
  /\ \E r \in loads :
       /\ loads' = loads \ {r}
       /\ IF Heard(r) /\ page # "away"
          THEN /\ shown' = <<r.slug, r.lang>>
               /\ loading' = FALSE
               /\ music' \in MusicOf(music, <<r.slug, r.lang>>)
          ELSE UNCHANGED <<shown, loading, music>>
  /\ UNCHANGED <<view, error, spot, started, starting, toggled, moves>>

\* mutant: only an answer ends the loading.
FailedStillLoading ==
  /\ \E r \in loads :
       /\ loads' = loads \ {r}
       /\ IF Heard(r) /\ page = "showcase" THEN error' = TRUE ELSE UNCHANGED error
       /\ IF Heard(r) /\ page \in {"home", "game"}
          THEN shown' = Nothing /\ music' \in MusicOf(music, Nothing)
          ELSE UNCHANGED <<shown, music>>
  /\ UNCHANGED <<view, loading, spot, started, starting, toggled, moves>>

\* The cover and the game forget the configuration; the showcase keeps it, and
\* the error until the page is left.
Failed ==
  /\ \E r \in loads :
       /\ loads' = loads \ {r}
       /\ IF Heard(r) /\ page = "showcase"
          THEN error' = TRUE /\ loading' = FALSE ELSE UNCHANGED showcase
       /\ IF Heard(r) /\ page \in {"home", "game"}
          THEN shown' = Nothing /\ music' \in MusicOf(music, Nothing)
          ELSE UNCHANGED <<shown, music>>
  /\ UNCHANGED <<view, spot, started, starting, toggled, moves>>

\* The round button; the showcase has it when it shows a configuration.
ToggleMusic ==
  /\ page \in {"game", "showcase"} /\ Track(shown) \in Tracks
  /\ page = "showcase" => ~loading /\ ~error
  /\ IF music.playing THEN music' = Pause(music) ELSE music' \in Play(music, Track(shown))
  /\ toggled' = (toggled \/ ~music.playing)
  /\ UNCHANGED <<view, loads, shown, showcase, spot, started, starting, moves>>

\* The player moves in the game; the voice note has a stage if there is one.
Turn ==
  /\ page = "game"
  /\ \E sp \in Spots \ {spot} :
       /\ sp = "voice" => shown # Nothing
       /\ spot' = sp
       /\ music' \in GameMood(LeftGame(music), sp, Track(shown))
  /\ UNCHANGED <<view, loads, shown, showcase, started, starting, toggled, moves>>

PagesNext ==
  \/ Reload \/ GoTo \/ SwitchLanguage \/ StartJourney \/ StartAnswered
  \/ Answered \/ Failed \/ ToggleMusic \/ Turn

\* A request is answered or fails; nobody has to move.
PagesSpec == PagesInit /\ [][PagesNext]_pagesVars /\ WF_pagesVars(Answered \/ Failed)
-----------------------------------------------------------------------------
PagesTypeOK ==
  /\ page \in Pages /\ slug \in Slugs /\ lang \in Langs
  /\ loads \subseteq [slug : Slugs, lang : Langs, live : BOOLEAN]
  /\ shown \in (Slugs \X Langs) \cup {Nothing}
  /\ loading \in BOOLEAN /\ error \in BOOLEAN
  /\ spot \in Spots
  /\ started \in BOOLEAN /\ starting \subseteq Slugs
  /\ music \in [src : Tracks \cup {NoMusic}, playing : BOOLEAN, suppressed : BOOLEAN]
  /\ (music.playing => music.src \in Tracks)
  /\ toggled \in BOOLEAN /\ moves \in 0..MaxMoves

\* A page that waits for nothing shows the tenant of its address in the language
\* chosen, or nothing: an answer that comes after the visitor moved on is never
\* shown in place of the one asked for last.
ShownIsAsked ==
  page # "away" /\ Live = {} /\ (page = "showcase" => ~error) => shown \in {Asked, Nothing}

\* What the page waits for is what it should show, and it waits for one thing.
WaitsForAsked ==
  \A r \in Live : page # "away" /\ <<r.slug, r.lang>> = Asked

\* The song is silent while the player is at the voice note: neither the button,
\* nor a configuration that arrives, nor a play awaited brings it back.
VoiceIsHeard == page = "game" /\ spot = "voice" => ~music.playing

\* Anywhere else in the game the song may be heard again.  (On the other pages
\* this does not hold: nothing ends the suppression when the game is left from
\* the voice note, and the button of the showcase is dead until the next game.)
GameUnmutes == page = "game" => (music.suppressed <=> spot = "voice")

\* In the game, the suppression is on exactly at the voice note, and effective.
VoiceAlone == VoiceIsHeard /\ GameUnmutes

\* No song plays before the visitor started a journey or pressed play.
MusicAsked == music.playing => started \/ toggled

\* The showcase is never heard with the song of another tenant or language.
ShowcaseOwnMusic == page = "showcase" /\ music.playing => music.src = Track(shown)

\* The types, what is waited for, who started the song, and whose it is.
PagesInv == PagesTypeOK /\ WaitsForAsked /\ MusicAsked /\ ShowcaseOwnMusic

Loading == page = "showcase" /\ loading

\* The showcase does not load for ever.
LoadingEnds == Loading ~> ~Loading
=============================================================================
