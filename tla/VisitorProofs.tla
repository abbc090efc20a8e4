--------------------------- MODULE VisitorProofs ---------------------------
(***************************************************************************)
(* Proofs about what a visitor of a site meets.                            *)
(*                                                                         *)
(* LoveGame, for any limits, any number of timers, and any configurations  *)
(* that arrive: GameInv is inductive; it adds to what the page shows what  *)
(* the pending timers will do to it.                                       *)
(*                                                                         *)
(* PublicPages, for any tenants, languages and songs: a page shows what    *)
(* was asked for last, the voice note is heard alone, and the song is      *)
(* started by the visitor and is the one of the page shown.  What each     *)
(* function does to the audio element is stated once, and the actions are  *)
(* then cases of these lemmas.                                             *)
(***************************************************************************)
EXTENDS LoveGame, PublicPages, SequenceTheorems, TLAPS

\* While the question is shown, a pending move knows the refusals it answers to.
YesKnown == step = "challenge" /\ yesTimers > 0 => yesAccepted /\ branch = Branch(noCount)

\* A lone pending message finds the one the effect of the envelope ran for last.
SpinKnown == ~doubled => spinTimers <= 1 /\ (spinTimers = 1 => seen[3] = surprise)

\* What the page shows is in the lists of the configuration it shows.
Indices == ~crashed => ~Broken

GameInv ==
  /\ TypeOK /\ GateHeld
  /\ BranchFits /\ YesKnown
  /\ EnvelopeWillOpen /\ SpinKnown
  /\ Indices

-----------------------------------------------------------------------------
(* The flow of the stages.                                                 *)

\* Which stages there are, and where.
LEMMA FlowStages ==
  ASSUME config \in Config
  PROVE  \/ Flow = <<"surprise", "voice", "unlock", "photos", "videos">>
         \/ Flow = <<"surprise", "voice", "unlock", "photos">>
         \/ Flow = <<"surprise", "unlock", "photos", "videos">>
         \/ Flow = <<"surprise", "unlock", "photos">>
<1> DEFINE first == <<"surprise">>
           voice == IF config.voice THEN <<"voice">> ELSE <<>>
           middle == <<"unlock", "photos">>
           videos == IF config.videos > 0 THEN <<"videos">> ELSE <<>>
           opening == first \o voice
           most == opening \o middle
           all == most \o videos
<1>1. Flow = all
  BY Zenon DEF Flow
<1>2. first \in Seq(Stages) /\ Len(first) = 1 /\ first[1] = "surprise"
  BY DEF Stages
<1>3. middle \in Seq(Stages) /\ Len(middle) = 2 /\ middle[1] = "unlock" /\ middle[2] = "photos"
  BY DEF Stages
<1>4. /\ voice \in Seq(Stages)
      /\ Len(voice) = 0 \/ (Len(voice) = 1 /\ voice[1] = "voice")
  <2>1. CASE config.voice
    BY <2>1 DEF Stages
  <2>2. CASE ~config.voice
    BY <2>2
  <2>3. QED
    BY <2>1, <2>2
<1>5. /\ videos \in Seq(Stages)
      /\ Len(videos) = 0 \/ (Len(videos) = 1 /\ videos[1] = "videos")
  <2>1. CASE config.videos > 0
    BY <2>1 DEF Stages, Config
  <2>2. CASE ~(config.videos > 0)
    BY <2>2
  <2>3. QED
    BY <2>1, <2>2
<1> HIDE DEF first, voice, middle, videos
<1>6. /\ opening \in Seq(Stages) /\ Len(opening) = 1 + Len(voice)
      /\ opening[1] = "surprise" /\ (Len(voice) = 1 => opening[2] = "voice")
  <2>1. /\ opening \in Seq(Stages) /\ Len(opening) = Len(first) + Len(voice)
        /\ \A i \in 1..(Len(first) + Len(voice)) :
             opening[i] = IF i <= Len(first) THEN first[i] ELSE voice[i - Len(first)]
    BY <1>2, <1>4, ConcatProperties
  <2> HIDE DEF opening
  <2>2. QED
    BY <1>2, <1>4, <2>1
<1> HIDE DEF opening
<1>7. /\ most \in Seq(Stages) /\ Len(most) = 3 + Len(voice)
      /\ most[1] = "surprise" /\ (Len(voice) = 1 => most[2] = "voice")
      /\ most[Len(voice) + 2] = "unlock" /\ most[Len(voice) + 3] = "photos"
  <2>1. /\ most \in Seq(Stages) /\ Len(most) = Len(opening) + Len(middle)
        /\ \A i \in 1..(Len(opening) + Len(middle)) :
             most[i] = IF i <= Len(opening) THEN opening[i] ELSE middle[i - Len(opening)]
    <3>1. opening \in Seq(Stages) /\ middle \in Seq(Stages)
      BY <1>3, <1>6
    <3>2. QED
      BY <3>1, ConcatProperties
  <2> HIDE DEF most
  <2>2. CASE Len(voice) = 0
    BY <1>3, <1>6, <2>1, <2>2
  <2>3. CASE Len(voice) = 1
    BY <1>3, <1>6, <2>1, <2>3
  <2>4. QED
    BY <1>4, <2>2, <2>3
<1> HIDE DEF most
<1>8. /\ all \in Seq(Stages) /\ Len(all) = 3 + Len(voice) + Len(videos)
      /\ all[1] = "surprise" /\ (Len(voice) = 1 => all[2] = "voice")
      /\ all[Len(voice) + 2] = "unlock" /\ all[Len(voice) + 3] = "photos"
      /\ Len(videos) = 1 => all[Len(voice) + 4] = "videos"
  <2>1. /\ all \in Seq(Stages) /\ Len(all) = Len(most) + Len(videos)
        /\ \A i \in 1..(Len(most) + Len(videos)) :
             all[i] = IF i <= Len(most) THEN most[i] ELSE videos[i - Len(most)]
    <3>1. most \in Seq(Stages) /\ videos \in Seq(Stages)
      BY <1>5, <1>7
    <3>2. QED
      BY <3>1, ConcatProperties
  <2> HIDE DEF all
  <2>2. QED
    BY <1>4, <1>5, <1>7, <2>1
<1> HIDE DEF all
<1>9. /\ <<"surprise", "voice", "unlock", "photos", "videos">> \in Seq(Stages)
      /\ <<"surprise", "voice", "unlock", "photos">> \in Seq(Stages)
      /\ <<"surprise", "unlock", "photos", "videos">> \in Seq(Stages)
      /\ <<"surprise", "unlock", "photos">> \in Seq(Stages)
  BY DEF Stages
<1>10. CASE Len(voice) = 0 /\ Len(videos) = 0
  BY <1>1, <1>8, <1>9, <1>10, SeqEqual
<1>11. CASE Len(voice) = 0 /\ Len(videos) = 1
  BY <1>1, <1>8, <1>9, <1>11, SeqEqual
<1>12. CASE Len(voice) = 1 /\ Len(videos) = 0
  BY <1>1, <1>8, <1>9, <1>12, SeqEqual
<1>13. CASE Len(voice) = 1 /\ Len(videos) = 1
  BY <1>1, <1>8, <1>9, <1>13, SeqEqual
<1>14. QED
  BY <1>4, <1>5, <1>10, <1>11, <1>12, <1>13

\* Only from the cards, or from the photos, does a step forward lead to the photos
\* or the videos.
LEMMA AfterStage ==
  ASSUME config \in Config, stage \in Stages, ~IsLast
  PROVE  /\ Flow[Position + 1] \in Stages
         /\ Flow[Position + 1] # stage
         /\ Flow[Position + 1] \in {"photos", "videos"} => stage \in {"unlock", "photos"}
<1>1. CASE Flow = <<"surprise", "voice", "unlock", "photos", "videos">>
  BY <1>1 DEF Position, IsLast, Stages
<1>2. CASE Flow = <<"surprise", "voice", "unlock", "photos">>
  BY <1>2 DEF Position, IsLast, Stages
<1>3. CASE Flow = <<"surprise", "unlock", "photos", "videos">>
  BY <1>3 DEF Position, IsLast, Stages
<1>4. CASE Flow = <<"surprise", "unlock", "photos">>
  BY <1>4 DEF Position, IsLast, Stages
<1>5. QED
  BY <1>1, <1>2, <1>3, <1>4, FlowStages

\* Only from the videos does a step back lead to the photos, and none to the videos.
LEMMA BeforeStage ==
  ASSUME config \in Config, stage \in Stages, ~IsFirst
  PROVE  /\ Flow[Position - 1] \in Stages
         /\ Flow[Position - 1] # stage
         /\ Flow[Position - 1] \in {"photos", "videos"} => stage = "videos"
<1>1. CASE Flow = <<"surprise", "voice", "unlock", "photos", "videos">>
  BY <1>1 DEF Position, IsFirst, Stages
<1>2. CASE Flow = <<"surprise", "voice", "unlock", "photos">>
  BY <1>2 DEF Position, IsFirst, Stages
<1>3. CASE Flow = <<"surprise", "unlock", "photos", "videos">>
  BY <1>3 DEF Position, IsFirst, Stages
<1>4. CASE Flow = <<"surprise", "unlock", "photos">>
  BY <1>4 DEF Position, IsFirst, Stages
<1>5. QED
  BY <1>1, <1>2, <1>3, <1>4, FlowStages

-----------------------------------------------------------------------------
(* The types, in two groups.                                               *)

PlayerType ==
  /\ config \in Configs
  /\ noCount \in 0..NoLimit
  /\ yesAccepted \in BOOLEAN /\ noFloating \in BOOLEAN
  /\ step \in Steps /\ branch \in Branches /\ stage \in Stages
  /\ photo \in Nat /\ video \in Nat /\ slides \in Nat
  /\ cards \in 0..CardsShown /\ revealed \in 0..cards
  /\ crashed \in BOOLEAN
EnvelopeType ==
  /\ open \in BOOLEAN /\ surprise \in 0..(SurpriseTotal - 1)
  /\ yesTimers \in 0..MaxTimers /\ openTimers \in 0..MaxTimers
  /\ spinTimers \in 0..MaxTimers
  /\ seen \in Steps \X Stages \X (0..(SurpriseTotal - 1))
  /\ doubled \in BOOLEAN

LEMMA TypeParts == TypeOK <=> PlayerType /\ EnvelopeType
BY Zenon DEF TypeOK, PlayerType, EnvelopeType

LEMMA ConfigType ==
  ASSUME NEW c \in Configs
  PROVE  /\ c \in Config
         /\ c.photos \in Nat /\ c.photos > 0 /\ c.videos \in Nat /\ c.notes \in Nat
<1>1. c \in Config
  BY GameAssumption
<1>2. QED
  BY <1>1 DEF Config

LEMMA InitGame == Init => GameInv
<1> SUFFICES ASSUME Init PROVE GameInv
  OBVIOUS
<1>1. PlayerType
  <2>1. /\ noCount \in 0..NoLimit /\ photo \in Nat /\ video \in Nat /\ slides \in Nat
        /\ cards \in 0..CardsShown /\ revealed \in 0..cards
    BY GameAssumption DEF Init
  <2>2. QED
    BY <2>1, Zenon DEF Init, PlayerType, Steps, Branches, Stages
<1>2. EnvelopeType
  <2>1. seen \in Steps \X Stages \X (0..(SurpriseTotal - 1))
    BY GameAssumption DEF Init, Steps, Stages
  <2>2. /\ surprise \in 0..(SurpriseTotal - 1)
        /\ yesTimers \in 0..MaxTimers /\ openTimers \in 0..MaxTimers /\ spinTimers \in 0..MaxTimers
    BY GameAssumption DEF Init
  <2>3. QED
    BY <2>1, <2>2, Zenon DEF Init, EnvelopeType
<1>3. GateHeld /\ BranchFits /\ YesKnown /\ EnvelopeWillOpen /\ SpinKnown
  BY DEF Init, GateHeld, BranchFits, YesKnown, EnvelopeWillOpen, Sealed, At, SpinKnown
<1>4. Indices
  BY DEF Init, Indices, Broken, Unreadable, At
<1>5. QED
  BY <1>1, <1>2, <1>3, <1>4, TypeParts DEF GameInv

LEMMA PlayerTypeStep == TypeOK /\ [Next]_vars => PlayerType'
<1> SUFFICES ASSUME PlayerType, [Next]_vars PROVE PlayerType'
  BY TypeParts
<1>1. CASE ClickNo
  <2>1. noCount' \in 0..NoLimit
    BY <1>1, GameAssumption DEF ClickNo, Least, PlayerType
  <2>2. noFloating' \in BOOLEAN
    BY <1>1 DEF ClickNo
  <2>3. UNCHANGED <<config, yesAccepted, step, branch, stage, photo, video, slides, cards, revealed, crashed>>
    BY <1>1, Zenon DEF ClickNo, frame, unlock
  <2>4. QED
    BY <2>1, <2>2, <2>3, Zenon DEF PlayerType
<1>2. CASE ClickYes
  <2>1. branch' \in Branches
    BY <1>2 DEF ClickYes, Branch, Branches
  <2>2. QED
    BY <1>2, <2>1 DEF ClickYes, frame, unlock, PlayerType
<1>3. CASE YesTimer
  BY <1>3 DEF YesTimer, frame, unlock, PlayerType, Steps
<1>4. CASE MoveToJourney
  <2>1. cards' \in 0..CardsShown /\ revealed' \in 0..cards'
    BY <1>4, ConfigType, GameAssumption DEF MoveToJourney, Least, Candidates, PlayerType
  <2>2. QED
    BY <1>4, <2>1 DEF MoveToJourney, choice, frame, PlayerType, Steps, Stages
<1>5. CASE NextStage
  <2>1. stage' \in Stages
    BY <1>5, AfterStage, ConfigType, Zenon DEF NextStage, PlayerType
  <2>2. QED
    BY <1>5, <2>1 DEF NextStage, choice, frame, unlock, PlayerType
<1>6. CASE PreviousStage
  <2>1. stage' \in Stages /\ step' \in Steps
    BY <1>6, BeforeStage, ConfigType, Zenon DEF PreviousStage, PlayerType, Steps
  <2>2. QED
    BY <1>6, <2>1 DEF PreviousStage, choice, frame, unlock, PlayerType
<1>7. CASE RevealUnlockCard
  <2>1. revealed' \in 0..cards
    BY <1>7, GameAssumption DEF RevealUnlockCard, Required, Least, PlayerType
  <2>2. QED
    BY <1>7, <2>1 DEF RevealUnlockCard, choice, frame, PlayerType
<1>8. CASE TurnPhoto \/ SlideShow
  <2>1. photo' \in Nat
    BY <1>8, ConfigType DEF TurnPhoto, SlideShow, PlayerType
  <2>2. crashed' \in BOOLEAN
    BY <1>8, Zenon DEF TurnPhoto, SlideShow, Unreadable, PlayerType
  <2>3. QED
    BY <1>8, <2>1, <2>2 DEF TurnPhoto, SlideShow, choice, unlock, PlayerType
<1>9. CASE SelectVideo
  <2>1. video' \in Nat
    BY <1>9, ConfigType DEF SelectVideo, PlayerType
  <2>2. QED
    BY <1>9, <2>1 DEF SelectVideo, choice, unlock, PlayerType
<1>10. CASE ConfigArrives
  <2>1. crashed' \in BOOLEAN
    BY <1>10, Zenon DEF ConfigArrives, Unreadable
  <2>2. QED
    BY <1>10, <2>1 DEF ConfigArrives, choice, frame, unlock, PlayerType
<1>11. CASE ResetGame \/ PlayAgain
  <2>1. Restart /\ config' \in Configs /\ crashed' \in BOOLEAN /\ (slides' = slides \/ slides' = 0)
    BY <1>11, Zenon DEF ResetGame, PlayAgain, PlayerType
  <2>2. /\ noCount' \in 0..NoLimit /\ photo' \in Nat /\ video' \in Nat
        /\ cards' \in 0..CardsShown /\ revealed' \in 0..cards'
    BY <2>1, GameAssumption DEF Restart
  <2>3. slides' \in Nat
    BY <2>1 DEF PlayerType
  <2>4. QED
    BY <2>1, <2>2, <2>3, Zenon DEF Restart, PlayerType, Steps, Branches, Stages
<1>12. CASE Effects
  <2>1. photo' \in Nat /\ video' \in Nat /\ slides' \in Nat
    BY <1>12, ConfigType DEF Effects, ListEffects, Corrected, SlideLength, PlayerType
  <2>2. QED
    BY <1>12, <2>1 DEF Effects, choice, unlock, PlayerType
<1>13. CASE RevealAnotherMessage \/ SpinTimer \/ OpenTimer \/ UNCHANGED vars
  <2>1. UNCHANGED <<config, noCount, yesAccepted, noFloating, step, branch, stage, photo, video, slides,
                    cards, revealed, crashed>>
    BY <1>13, Zenon DEF RevealAnotherMessage, SpinTimer, OpenTimer, choice, frame,
       unlock, vars
  <2>2. QED
    BY <2>1 DEF PlayerType
<1>14. QED
  BY <1>1, <1>2, <1>3, <1>4, <1>5, <1>6, <1>7, <1>8, <1>9, <1>10, <1>11, <1>12, <1>13, Zenon
     DEF Next, Timers, Clicks

LEMMA EnvelopeTypeStep == TypeOK /\ [Next]_vars => EnvelopeType'
<1> SUFFICES ASSUME PlayerType, EnvelopeType, [Next]_vars PROVE EnvelopeType'
  BY TypeParts
<1>1. CASE ClickYes
  <2>1. yesTimers' \in 0..MaxTimers
    BY <1>1, GameAssumption DEF ClickYes, EnvelopeType
  <2>2. UNCHANGED <<open, surprise, openTimers, spinTimers, seen, doubled>>
    BY <1>1, Zenon DEF ClickYes, envelope
  <2>3. QED
    BY <2>1, <2>2, Zenon DEF EnvelopeType
<1>2. CASE YesTimer
  <2>1. yesTimers' \in 0..MaxTimers
    BY <1>2, GameAssumption DEF YesTimer, EnvelopeType
  <2>2. UNCHANGED <<open, surprise, openTimers, spinTimers, seen, doubled>>
    BY <1>2, Zenon DEF YesTimer, envelope
  <2>3. QED
    BY <2>1, <2>2, Zenon DEF EnvelopeType
<1>3. CASE RevealAnotherMessage
  <2>1. spinTimers' \in 0..MaxTimers /\ doubled' \in BOOLEAN
    BY <1>3, GameAssumption DEF RevealAnotherMessage, EnvelopeType
  <2>2. open' = FALSE /\ UNCHANGED <<surprise, yesTimers, openTimers, seen>>
    BY <1>3, Zenon DEF RevealAnotherMessage
  <2>3. QED
    BY <2>1, <2>2, Zenon DEF EnvelopeType
<1>4. CASE SpinTimer
  <2>1. spinTimers' \in 0..MaxTimers /\ surprise' \in 0..(SurpriseTotal - 1)
    BY <1>4, GameAssumption DEF SpinTimer, AnotherMessage, EnvelopeType
  <2>2. UNCHANGED <<open, yesTimers, openTimers, seen, doubled>>
    BY <1>4, Zenon DEF SpinTimer
  <2>3. QED
    BY <2>1, <2>2, Zenon DEF EnvelopeType
<1>5. CASE Effects
  <2>1. openTimers' \in 0..MaxTimers
    BY <1>5, GameAssumption DEF Effects, Least, EnvelopeType
  <2>2. open' \in BOOLEAN /\ UNCHANGED <<surprise, yesTimers, spinTimers, doubled>>
    BY <1>5, Zenon DEF Effects, EnvelopeType
  <2>3. seen' \in Steps \X Stages \X (0..(SurpriseTotal - 1))
    BY <1>5 DEF Effects, PlayerType, EnvelopeType
  <2>4. QED
    BY <2>1, <2>2, <2>3, Zenon DEF EnvelopeType
<1>6. CASE OpenTimer
  <2>1. openTimers' \in 0..MaxTimers
    BY <1>6, GameAssumption DEF OpenTimer, EnvelopeType
  <2>2. open' = TRUE /\ UNCHANGED <<surprise, yesTimers, spinTimers, seen, doubled>>
    BY <1>6, Zenon DEF OpenTimer
  <2>3. QED
    BY <2>1, <2>2, Zenon DEF EnvelopeType
<1>7. CASE ResetGame \/ PlayAgain
  <2>1. Restart /\ doubled' \in BOOLEAN
    BY <1>7, Zenon DEF ResetGame, PlayAgain, EnvelopeType
  <2>2. seen' = seen \/ seen' = <<"challenge", "surprise", 0>>
    BY <1>7, Zenon DEF ResetGame, PlayAgain
  <2>3. seen' \in Steps \X Stages \X (0..(SurpriseTotal - 1))
    BY <2>2, GameAssumption DEF EnvelopeType, Steps, Stages
  <2>4. /\ surprise' \in 0..(SurpriseTotal - 1) /\ yesTimers' \in 0..MaxTimers
        /\ openTimers' \in 0..MaxTimers /\ spinTimers' \in 0..MaxTimers
    BY <2>1, GameAssumption DEF Restart
  <2>5. QED
    BY <2>1, <2>3, <2>4, Zenon DEF Restart, EnvelopeType
<1>8. CASE ClickNo \/ MoveToJourney \/ NextStage \/ PreviousStage \/ RevealUnlockCard \/ TurnPhoto
           \/ SlideShow \/ SelectVideo \/ ConfigArrives \/ UNCHANGED vars
  <2>1. UNCHANGED <<open, surprise, yesTimers, openTimers, spinTimers, seen, doubled>>
    BY <1>8, Zenon DEF ClickNo, MoveToJourney, NextStage, PreviousStage, RevealUnlockCard,
       TurnPhoto, SlideShow, SelectVideo, ConfigArrives, envelope, clock, vars
  <2>2. QED
    BY <2>1, Zenon DEF EnvelopeType
<1>9. QED
  BY <1>1, <1>2, <1>3, <1>4, <1>5, <1>6, <1>7, <1>8, Zenon DEF Next, Timers, Clicks

LEMMA TypeStep == TypeOK /\ [Next]_vars => TypeOK'
BY PlayerTypeStep, EnvelopeTypeStep, Zenon DEF TypeOK, PlayerType, EnvelopeType

-----------------------------------------------------------------------------
(* The cards, and the refusals.                                            *)

LEMMA GateStep == TypeOK /\ GateHeld /\ [Next]_vars => GateHeld'
<1> SUFFICES ASSUME PlayerType, GateHeld, [Next]_vars PROVE GateHeld'
  BY TypeParts
<1>1. CASE MoveToJourney
  BY <1>1 DEF MoveToJourney, GateHeld
<1>2. CASE NextStage
  <2>1. step = "journey" /\ CanGoNext /\ stage' = Flow[Position + 1] /\ ~IsLast
    BY <1>2, Zenon DEF NextStage
  <2>2. stage' \in {"photos", "videos"} => stage \in {"unlock", "photos"}
    BY <2>1, AfterStage, ConfigType, Zenon DEF PlayerType
  <2>3. step' = step /\ revealed' = revealed /\ cards' = cards
    BY <1>2, Zenon DEF NextStage, unlock
  <2>4. QED
    BY <2>1, <2>2, <2>3 DEF CanGoNext, GateHeld, Required
<1>3. CASE PreviousStage
  <2>1. revealed' = revealed /\ cards' = cards /\ step = "journey"
    BY <1>3, Zenon DEF PreviousStage, unlock
  <2>2. CASE ~IsFirst /\ stage' = Flow[Position - 1]
    <3>1. stage' \in {"photos", "videos"} => stage = "videos"
      BY <2>2, BeforeStage, ConfigType, Zenon DEF PlayerType
    <3>2. QED
      BY <2>1, <3>1 DEF GateHeld, Required
  <2>3. CASE step' = "romantic"
    BY <2>3 DEF GateHeld
  <2>4. QED
    BY <1>3, <2>2, <2>3, Zenon DEF PreviousStage
<1>4. CASE RevealUnlockCard
  BY <1>4 DEF RevealUnlockCard, At, PlayerType, GateHeld
<1>5. CASE YesTimer \/ ResetGame \/ PlayAgain
  BY <1>5 DEF YesTimer, ResetGame, PlayAgain, Restart, GateHeld
<1>6. CASE ClickNo \/ ClickYes \/ RevealAnotherMessage \/ SpinTimer \/ Effects \/ OpenTimer
           \/ TurnPhoto \/ SlideShow \/ SelectVideo \/ ConfigArrives \/ UNCHANGED vars
  <2>1. UNCHANGED <<step, stage, cards, revealed>>
    BY <1>6, Zenon DEF ClickNo, ClickYes, RevealAnotherMessage, SpinTimer, Effects,
       OpenTimer, TurnPhoto, SlideShow, SelectVideo, ConfigArrives, unlock, vars
  <2>2. QED
    BY <2>1 DEF GateHeld, Required
<1>7. QED
  BY <1>1, <1>2, <1>3, <1>4, <1>5, <1>6, Zenon DEF Next, Timers, Clicks

LEMMA BranchStep ==
  TypeOK /\ BranchFits /\ YesKnown /\ [Next]_vars => BranchFits' /\ YesKnown'
<1> SUFFICES ASSUME PlayerType, EnvelopeType, BranchFits, YesKnown, [Next]_vars
             PROVE  BranchFits' /\ YesKnown'
  BY TypeParts
<1>1. CASE ClickNo
  <2>1. yesTimers = 0
    BY <1>1, GameAssumption DEF ClickNo, NoHidden, YesKnown, EnvelopeType
  <2>2. step' = "challenge" /\ yesTimers' = 0
    BY <1>1, <2>1, Zenon DEF ClickNo, clock
  <2>3. QED
    BY <2>2 DEF BranchFits, YesKnown
<1>2. CASE ClickYes
  BY <1>2, Zenon DEF ClickYes, BranchFits, YesKnown
<1>3. CASE YesTimer
  <2>1. branch = Branch(noCount)
    BY <1>3, Zenon DEF YesTimer, BranchFits, YesKnown
  <2>2. step' = "romantic" /\ noCount' = noCount /\ branch' = branch
    BY <1>3, Zenon DEF YesTimer
  <2>3. QED
    BY <2>1, <2>2 DEF BranchFits, YesKnown, Branch
<1>4. CASE MoveToJourney \/ PreviousStage
  <2>1. step # "challenge" /\ step' # "challenge" /\ noCount' = noCount /\ branch' = branch
    BY <1>4 DEF MoveToJourney, PreviousStage, choice
  <2>2. QED
    BY <2>1, Zenon DEF BranchFits, YesKnown, Branch
<1>5. CASE ResetGame \/ PlayAgain
  BY <1>5 DEF ResetGame, PlayAgain, Restart, BranchFits, YesKnown
<1>6. CASE NextStage \/ RevealAnotherMessage \/ SpinTimer \/ Effects \/ OpenTimer
           \/ RevealUnlockCard \/ TurnPhoto \/ SlideShow \/ SelectVideo \/ ConfigArrives
           \/ UNCHANGED vars
  <2>1. UNCHANGED <<step, yesTimers, noCount, branch, yesAccepted>>
    BY <1>6, Zenon DEF NextStage, RevealAnotherMessage, SpinTimer, Effects, OpenTimer,
       RevealUnlockCard, TurnPhoto, SlideShow, SelectVideo, ConfigArrives, choice, clock, vars
  <2>2. QED
    BY <2>1, Zenon DEF BranchFits, YesKnown, Branch
<1>7. QED
  BY <1>1, <1>2, <1>3, <1>4, <1>5, <1>6, Zenon DEF Next, Timers, Clicks

-----------------------------------------------------------------------------
(* The envelope.                                                           *)

LEMMA SeenParts ==
  ASSUME EnvelopeType, PlayerType
  PROVE  EnvelopeDue <=> seen[1] # step \/ seen[2] # stage \/ seen[3] # surprise
BY DEF EnvelopeType, PlayerType, EnvelopeDue

LEMMA EnvelopeStep ==
  TypeOK /\ EnvelopeWillOpen /\ SpinKnown /\ [Next]_vars => EnvelopeWillOpen' /\ SpinKnown'
<1> SUFFICES ASSUME TypeOK, EnvelopeWillOpen, SpinKnown, [Next]_vars
             PROVE  EnvelopeWillOpen' /\ SpinKnown'
  OBVIOUS
<1>1. PlayerType /\ EnvelopeType /\ PlayerType' /\ EnvelopeType'
  BY TypeParts, PlayerTypeStep, EnvelopeTypeStep
<1>2. EnvelopeDue <=> seen[1] # step \/ seen[2] # stage \/ seen[3] # surprise
  BY <1>1, SeenParts
<1>3. EnvelopeDue' <=> seen'[1] # step' \/ seen'[2] # stage' \/ seen'[3] # surprise'
  BY <1>1 DEF EnvelopeType, PlayerType, EnvelopeDue
\* Whoever comes to the surprise, or leaves it, has an effect due.
<1>4. ASSUME ~EffectDue, step' # step \/ stage' # stage,
             UNCHANGED <<seen, surprise, spinTimers, doubled>>
      PROVE  EnvelopeWillOpen' /\ SpinKnown'
  <2>1. EnvelopeDue'
    BY <1>2, <1>3, <1>4 DEF EffectDue
  <2>2. QED
    BY <1>4, <2>1, Zenon DEF EnvelopeWillOpen, SpinKnown
<1>5. CASE MoveToJourney
  BY <1>4, <1>5, Zenon DEF MoveToJourney, Click, envelope, clock
<1>6. CASE NextStage
  <2>1. stage' # stage
    BY <1>1, <1>6, AfterStage, ConfigType, Zenon DEF NextStage, PlayerType
  <2>2. QED
    BY <1>4, <1>6, <2>1, Zenon DEF NextStage, Click, envelope, clock
<1>7. CASE PreviousStage
  <2>1. step' # step \/ stage' # stage
    <3>1. CASE ~IsFirst /\ stage' = Flow[Position - 1]
      BY <1>1, <3>1, BeforeStage, ConfigType, Zenon DEF PlayerType
    <3>2. CASE step' = "romantic"
      BY <1>7, <3>2 DEF PreviousStage
    <3>3. QED
      BY <1>7, <3>1, <3>2, Zenon DEF PreviousStage
  <2>2. QED
    BY <1>4, <1>7, <2>1, Zenon DEF PreviousStage, Click, envelope, clock
<1>8. CASE RevealAnotherMessage
  <2>1. spinTimers' = spinTimers + 1 /\ seen' = seen /\ surprise' = surprise
    BY <1>8, Zenon DEF RevealAnotherMessage
  <2>2. spinTimers \in Nat /\ seen[3] = surprise
    BY <1>1, <1>2, <1>8, GameAssumption DEF RevealAnotherMessage, Click, EffectDue, EnvelopeType
  <2>3. ~doubled' => ~(spinTimers > 0)
    BY <1>8, Zenon DEF RevealAnotherMessage
  <2>4. QED
    BY <2>1, <2>2, <2>3 DEF EnvelopeWillOpen, SpinKnown
<1>9. CASE SpinTimer
  <2>1. /\ surprise' # surprise /\ seen' = seen /\ doubled' = doubled
        /\ spinTimers > 0 /\ spinTimers' = spinTimers - 1 /\ spinTimers \in Nat
    BY <1>1, <1>9, GameAssumption DEF SpinTimer, AnotherMessage, EnvelopeType
  <2>2. CASE doubled
    BY <2>1, <2>2, Zenon DEF EnvelopeWillOpen, SpinKnown
  <2>3. CASE ~doubled
    <3>1. spinTimers = 1 /\ seen[3] = surprise
      BY <2>1, <2>3 DEF SpinKnown
    <3>2. EnvelopeDue' /\ spinTimers' = 0
      BY <1>3, <2>1, <3>1
    <3>3. SpinKnown'
      BY <3>2 DEF SpinKnown
    <3>4. QED
      BY <3>2, <3>3, Zenon DEF EnvelopeWillOpen
  <2>4. QED
    BY <2>2, <2>3
<1>10. CASE Effects
  <2>1. seen' = <<step, stage, surprise>> /\ surprise' = surprise
        /\ UNCHANGED <<step, stage, spinTimers, doubled, crashed>>
    BY <1>10, Zenon DEF Effects
  <2>2. EnvelopeWillOpen'
    <3>1. CASE EnvelopeDue /\ At("surprise")
      <4>1. openTimers' > 0
        BY <1>1, <1>10, <3>1, GameAssumption DEF Effects, Least, EnvelopeType
      <4>2. QED
        BY <4>1, Zenon DEF EnvelopeWillOpen
    <3>2. CASE ~EnvelopeDue /\ At("surprise")
      <4>1. UNCHANGED <<open, openTimers>>
        BY <1>10, <3>2, Zenon DEF Effects
      <4>2. QED
        BY <2>1, <3>2, <4>1 DEF EnvelopeWillOpen, Sealed, At
    <3>3. CASE ~At("surprise")
      BY <2>1, <3>3 DEF EnvelopeWillOpen, Sealed, At
    <3>4. QED
      BY <3>1, <3>2, <3>3
  <2>3. seen'[3] = surprise'
    BY <2>1
  <2>4. SpinKnown'
    BY <2>1, <2>3, Zenon DEF SpinKnown
  <2>5. QED
    BY <2>2, <2>4
<1>11. CASE OpenTimer
  BY <1>11, Zenon DEF OpenTimer, EnvelopeWillOpen, Sealed, SpinKnown
<1>12. CASE YesTimer
  <2>1. step' = "romantic" /\ UNCHANGED <<seen, surprise, spinTimers, doubled>>
    BY <1>12, Zenon DEF YesTimer, envelope
  <2>2. ~Sealed'
    BY <2>1 DEF Sealed, At
  <2>3. QED
    BY <2>1, <2>2, Zenon DEF EnvelopeWillOpen, SpinKnown
<1>13. CASE ResetGame \/ PlayAgain
  <2>1. step' = "challenge" /\ spinTimers' = 0
    BY <1>13, Zenon DEF ResetGame, PlayAgain, Restart
  <2>2. QED
    BY <2>1 DEF EnvelopeWillOpen, Sealed, At, SpinKnown
<1>14. CASE ConfigArrives \/ SlideShow
  <2>1. ~crashed /\ UNCHANGED <<step, stage, open, surprise, openTimers, spinTimers, seen, doubled>>
    BY <1>14, Zenon DEF ConfigArrives, SlideShow, envelope, clock
  <2>2. QED
    BY <2>1, Zenon DEF EnvelopeWillOpen, Sealed, At, EnvelopeDue, SpinKnown
<1>15. CASE ClickNo \/ ClickYes \/ RevealUnlockCard \/ TurnPhoto \/ SelectVideo
            \/ UNCHANGED vars
  <2>1. UNCHANGED <<step, stage, open, surprise, openTimers, spinTimers, seen, crashed, doubled>>
    BY <1>15, Zenon DEF ClickNo, ClickYes, RevealUnlockCard, TurnPhoto, SelectVideo,
       envelope, clock, vars
  <2>2. QED
    BY <2>1, Zenon DEF EnvelopeWillOpen, Sealed, At, EnvelopeDue, SpinKnown
<1>16. QED
  BY <1>5, <1>6, <1>7, <1>8, <1>9, <1>10, <1>11, <1>12, <1>13, <1>14, <1>15, Zenon
     DEF Next, Timers, Clicks

-----------------------------------------------------------------------------
(* The indices.                                                            *)

LEMMA IndexStep == TypeOK /\ Indices /\ [Next]_vars => Indices'
<1> SUFFICES ASSUME PlayerType, Indices, [Next]_vars PROVE Indices'
  BY TypeParts
<1>1. config \in Configs /\ photo \in Nat /\ video \in Nat
  BY DEF PlayerType
\* Whoever comes to the photos or the videos has the effects behind them.
<1>2. ASSUME ~EffectDue, UNCHANGED <<config, photo, video>>
      PROVE  Indices'
  <2>1. photo = Corrected(photo, config.photos) /\ video = Corrected(video, config.videos)
    BY <1>2, Zenon DEF EffectDue, ListsDue
  <2>2. photo < config.photos /\ (video < config.videos \/ config.videos = 0)
    BY <1>1, <2>1, ConfigType DEF Corrected
  <2>3. QED
    BY <1>1, <1>2, <2>2, ConfigType DEF Indices, Broken, Unreadable
<1>3. CASE ClickNo \/ ClickYes \/ MoveToJourney \/ NextStage \/ PreviousStage
           \/ RevealAnotherMessage \/ RevealUnlockCard
  <2>1. Click /\ UNCHANGED <<config, photo, video>>
    BY <1>3, Zenon DEF ClickNo, ClickYes, MoveToJourney, NextStage, PreviousStage,
       RevealAnotherMessage, RevealUnlockCard, frame
  <2>2. QED
    BY <1>2, <2>1, Zenon DEF Click
<1>4. CASE TurnPhoto
  <2>1. photo' < config.photos /\ config' = config /\ UNCHANGED <<step, stage>>
    BY <1>1, <1>4, ConfigType DEF TurnPhoto
  <2>2. photo' \in Nat /\ At("photos")'
    BY <1>1, <1>4, ConfigType DEF TurnPhoto, At
  <2>3. QED
    BY <1>1, <2>1, <2>2, ConfigType DEF Indices, Broken, Unreadable, At
<1>5. CASE SelectVideo
  <2>1. video' < config.videos /\ video' \in Nat /\ config' = config /\ At("videos")'
    BY <1>1, <1>5, ConfigType DEF SelectVideo, At
  <2>2. QED
    BY <1>1, <2>1, ConfigType DEF Indices, Broken, Unreadable, At
<1>6. CASE SlideShow \/ ConfigArrives
  <2>1. crashed' = Unreadable(config', photo', video') /\ UNCHANGED <<step, stage>>
    BY <1>6, Zenon DEF SlideShow, ConfigArrives, frame
  <2>2. QED
    BY <2>1 DEF Indices, Broken, Unreadable, At
<1>7. CASE Effects
  <2>1. photo' = Corrected(photo, config.photos) /\ video' = Corrected(video, config.videos)
        /\ config' = config
    BY <1>7, Zenon DEF Effects, ListEffects
  <2>2. photo' \in Nat /\ video' \in Nat /\ photo' < config'.photos
        /\ (video' < config'.videos \/ config'.videos = 0)
    BY <1>1, <2>1, ConfigType DEF Corrected
  <2>3. QED
    BY <1>1, <2>1, <2>2, ConfigType DEF Indices, Broken, Unreadable
<1>8. CASE YesTimer \/ ResetGame \/ PlayAgain
  <2>1. step' # "journey"
    BY <1>8 DEF YesTimer, ResetGame, PlayAgain, Restart
  <2>2. QED
    BY <2>1 DEF Indices, Broken, Unreadable, At
<1>9. CASE SpinTimer \/ OpenTimer \/ UNCHANGED vars
  <2>1. UNCHANGED <<config, photo, video, step, stage, crashed>>
    BY <1>9, Zenon DEF SpinTimer, OpenTimer, frame, vars
  <2>2. QED
    BY <2>1 DEF Indices, Broken, Unreadable, At
<1>10. QED
  BY <1>3, <1>4, <1>5, <1>6, <1>7, <1>8, <1>9, Zenon DEF Next, Timers, Clicks

\* A page that reads what is there reads something that is not there only when a
\* configuration with less arrives, or when the slide show of a longer list ticks.
LEMMA BreakStep ==
  ASSUME TypeOK, Indices, [Next]_vars, ~crashed, crashed' \/ Broken'
  PROVE  \/ config'.photos < config.photos \/ config'.videos < config.videos
         \/ slides > config.photos
<1>1. /\ config \in Configs /\ config' \in Configs
      /\ photo \in Nat /\ video \in Nat /\ slides \in Nat
  BY TypeParts, PlayerTypeStep DEF PlayerType
<1>2. crashed'
  BY IndexStep, Zenon DEF Indices
<1>3. CASE ConfigArrives
  <2>1. Unreadable(config', photo, video) /\ ~Unreadable(config, photo, video) /\ ~EffectDue
    BY <1>2, <1>3, Zenon DEF ConfigArrives, Indices, Broken
  <2>2. video = Corrected(video, config.videos)
    BY <2>1, Zenon DEF EffectDue, ListsDue
  <2>3. video < config.videos \/ video = 0
    BY <1>1, <2>2, ConfigType DEF Corrected
  <2>4. QED
    BY <1>1, <2>1, <2>3, ConfigType DEF Unreadable
<1>4. CASE SlideShow
  <2>1. /\ Unreadable(config, photo', video) /\ ~Unreadable(config, photo, video)
        /\ photo' = (photo + 1) % slides /\ slides > 0
    BY <1>2, <1>4 DEF SlideShow, Indices, Broken
  <2>2. photo' >= config.photos
    BY <2>1 DEF Unreadable
  <2>3. photo' \in Nat /\ photo' < slides
    BY <1>1, <2>1
  <2>4. QED
    BY <1>1, <2>2, <2>3, ConfigType
<1>5. CASE ~ConfigArrives /\ ~SlideShow
  <2>1. crashed' = crashed \/ crashed' = FALSE
    BY <1>5, Zenon DEF Next, Timers, Clicks, ClickNo, ClickYes, YesTimer, MoveToJourney,
       NextStage, PreviousStage, RevealAnotherMessage, SpinTimer, Effects, OpenTimer,
       RevealUnlockCard, TurnPhoto, SelectVideo, ResetGame, PlayAgain, vars
  <2>2. QED
    BY <1>2, <2>1, Zenon
<1>6. QED
  BY <1>3, <1>4, <1>5

-----------------------------------------------------------------------------
LEMMA GameStep == GameInv /\ [Next]_vars => GameInv'
BY TypeStep, GateStep, BranchStep, EnvelopeStep, IndexStep, Zenon DEF GameInv

\* The inductive invariant: the types, the cards, the refusals, the envelope and what
\* is read of the lists, and what the pending timers know.
THEOREM GameInvHolds == Spec => []GameInv
<1>1. Init => GameInv
  BY InitGame
<1>2. GameInv /\ [Next]_vars => GameInv'
  BY GameStep
<1>3. QED
  BY <1>1, <1>2, PTL DEF Spec

\* The types, the page that speaks to the refusals there were, and the envelope that
\* has something pending to open it (handleYesClick, revealAnotherMessage).
THEOREM InvHolds == Spec => []Inv
<1>1. GameInv => Inv
  BY DEF GameInv, Inv
<1>2. QED
  BY <1>1, GameInvHolds, PTL

\* The photos and the videos stay behind the cards (goToNextStage, moveToJourney).
THEOREM GateAlwaysHeld == Spec => []GateHeld
<1>1. GameInv => GateHeld
  BY DEF GameInv
<1>2. QED
  BY <1>1, GameInvHolds, PTL

\* The page breaks only on the answer that shortens the list shown, or on a tick of
\* the slide show of the longer list before its effects have run.
THEOREM BreaksOnlyThen == Spec => BreaksOnlyWhenShorter
<1>1. GameInv /\ [Next]_vars =>
        [~crashed /\ (crashed' \/ Broken') =>
           \/ config'.photos < config.photos
           \/ config'.videos < config.videos
           \/ slides > config.photos]_vars
  BY BreakStep DEF GameInv
<1>2. QED
  BY <1>1, GameInvHolds, PTL DEF Spec, BreaksOnlyWhenShorter
-----------------------------------------------------------------------------
(* PublicPages *)

Audio == [src : Tracks \cup {NoMusic}, playing : BOOLEAN, suppressed : BOOLEAN]
Songs == Tracks \cup {NoMusic}
PageConfigs == (Slugs \X Langs) \cup {Nothing}

\* The audio element plays a file or nothing.
Sound(m) == m.playing => m.src \in Tracks

PagesIInv ==
  PagesTypeOK /\ WaitsForAsked /\ MusicAsked /\ ShowcaseOwnMusic /\ ShownIsAsked /\ VoiceAlone
-----------------------------------------------------------------------------
(* The audio element.                                                      *)

LEMMA TrackType ==
  ASSUME NEW c \in PageConfigs
  PROVE  Track(c) \in Songs
<1>1. CASE c = Nothing BY <1>1 DEF Track, Songs
<1>2. CASE c # Nothing
  <2>1. c \in Slugs \X Langs BY <1>2 DEF PageConfigs
  <2> QED BY <1>2, <2>1, PagesAssumption DEF Track, Songs
<1> QED BY <1>1, <1>2

\* Another source starts nothing that was not playing.
LEMMA GetAudioEffect ==
  ASSUME NEW m \in Audio, NEW t \in Tracks, NEW n \in GetAudio(m, t)
  PROVE  /\ n \in Audio
         /\ n.suppressed = m.suppressed
         /\ n.src = t
         /\ n.playing => m.playing
<1>1. CASE t = m.src BY <1>1 DEF GetAudio
<1>2. CASE t # m.src BY <1>2 DEF GetAudio, Audio, Songs
<1> QED BY <1>1, <1>2

\* Play changes nothing, or moves to the song asked for, unless it is suppressed.
LEMMA PlayEffect ==
  ASSUME NEW m \in Audio, NEW t \in Songs, NEW n \in Play(m, t)
  PROVE  /\ n \in Audio
         /\ n.suppressed = m.suppressed
         /\ n = m \/ (~m.suppressed /\ t \in Tracks /\ n.src = t)
<1>1. CASE m.suppressed \/ t \notin Tracks BY <1>1 DEF Play
<1>2. CASE ~m.suppressed /\ t \in Tracks
  <2>1. PICK k \in GetAudio(m, t) : n = k \/ n = [k EXCEPT !.playing = TRUE]
    BY <1>2 DEF Play
  <2>2. k \in Audio /\ k.suppressed = m.suppressed /\ k.src = t
    BY <1>2, <2>1, GetAudioEffect
  <2> QED BY <1>2, <2>1, <2>2 DEF Audio
<1> QED BY <1>1, <1>2

LEMMA PlayIfStartedEffect ==
  ASSUME NEW m \in Audio, NEW t \in Songs, NEW n \in PlayIfStarted(m, t)
  PROVE  /\ n \in Audio
         /\ n.suppressed = m.suppressed
         /\ n = m \/ (started /\ ~m.suppressed /\ t \in Tracks /\ n.src = t)
<1>1. CASE started
  <2>1. n \in Play(m, t) BY <1>1 DEF PlayIfStarted
  <2> QED BY <1>1, <2>1, PlayEffect
<1>2. CASE ~started BY <1>2 DEF PlayIfStarted
<1> QED BY <1>1, <1>2

LEMMA SuppressEffect ==
  ASSUME NEW m \in Audio, NEW v \in BOOLEAN
  PROVE  /\ Suppress(m, v) \in Audio
         /\ Suppress(m, v).suppressed = v
         /\ Suppress(m, v).src = m.src
         /\ Suppress(m, v).playing <=> (m.playing /\ ~v)
BY DEF Suppress, Audio

LEMMA PauseEffect ==
  ASSUME NEW m \in Audio
  PROVE  Pause(m) \in Audio /\ ~Pause(m).playing /\ Pause(m).suppressed = m.suppressed
BY DEF Pause, Audio

\* The mood of the game: silent and suppressed at the voice note, neither
\* suppressed elsewhere nor started by anything but the journey.
LEMMA GameMoodEffect ==
  ASSUME NEW m \in Audio, NEW sp \in Spots, NEW t \in Songs, NEW n \in GameMood(m, sp, t)
  PROVE  /\ n \in Audio
         /\ n.suppressed <=> sp = "voice"
         /\ sp = "voice" => ~n.playing
         /\ n.playing => m.playing \/ started
         /\ Sound(m) => Sound(n)
<1>1. CASE sp = "before"
  <2>1. n = Suppress(m, FALSE) BY <1>1 DEF GameMood
  <2> QED BY <1>1, <2>1, SuppressEffect DEF Sound
<1>2. CASE sp = "voice"
  <2>1. n = Suppress(m, TRUE) BY <1>2 DEF GameMood
  <2> QED BY <1>2, <2>1, SuppressEffect DEF Sound
<1>3. CASE sp \in {"one", "other"}
  <2> DEFINE k == Suppress(m, FALSE)
  <2>1. n \in PlayIfStarted(k, t) BY <1>3 DEF GameMood
  <2>2. k \in Audio /\ ~k.suppressed /\ k.src = m.src /\ (k.playing <=> m.playing)
    BY SuppressEffect
  <2> HIDE DEF k
  <2>3. /\ n \in Audio /\ n.suppressed = k.suppressed
        /\ n = k \/ (started /\ ~k.suppressed /\ t \in Tracks /\ n.src = t)
    BY <2>1, <2>2, PlayIfStartedEffect
  <2> QED BY <1>3, <2>2, <2>3 DEF Sound
<1> QED BY <1>1, <1>2, <1>3 DEF Spots

\* Leaving a stage with music ends the suppression and never starts anything.
LEMMA LeftGameEffect ==
  ASSUME NEW m \in Audio
  PROVE  /\ LeftGame(m) \in Audio
         /\ LeftGame(m).src = m.src
         /\ LeftGame(m).playing <=> m.playing
BY SuppressEffect DEF LeftGame

LEMMA ShowcaseMoodEffect ==
  ASSUME NEW m \in Audio, NEW t \in Songs, NEW n \in ShowcaseMood(m, t)
  PROVE  /\ n \in Audio
         /\ n.playing => t \in Tracks /\ n.src = t
         /\ n.playing => m.playing \/ started
<1>1. CASE t \in Tracks
  <2>1. PICK k \in GetAudio(m, t) : n \in PlayIfStarted(k, t)
    BY <1>1 DEF ShowcaseMood
  <2>2. k \in Audio /\ k.src = t /\ (k.playing => m.playing)
    BY <1>1, <2>1, GetAudioEffect
  <2>3. n \in Audio /\ (n = k \/ (started /\ n.src = t))
    BY <2>1, <2>2, PlayIfStartedEffect
  <2> QED BY <1>1, <2>2, <2>3
<1>2. CASE t \notin Tracks
  <2>1. n = Pause(m) BY <1>2 DEF ShowcaseMood
  <2> QED BY <2>1, PauseEffect
<1> QED BY <1>1, <1>2

\* What a page does with the music when its configuration becomes c.
LEMMA MusicOfEffect ==
  ASSUME PagesIInv, NEW c \in PageConfigs, NEW n \in MusicOf(music, c)
  PROVE  /\ n \in Audio /\ Sound(n)
         /\ n.playing => music.playing \/ started
         /\ page = "showcase" /\ n.playing => n.src = Track(c)
         /\ page = "game" => (n.suppressed <=> spot = "voice")
         /\ page = "game" /\ spot = "voice" => ~n.playing
<1>1. music \in Audio /\ Sound(music) /\ spot \in Spots /\ page \in Pages
  BY DEF PagesIInv, PagesTypeOK, Audio, Sound
<1>2. Track(c) \in Songs BY TrackType
<1>3. /\ page = "game" => (music.suppressed <=> spot = "voice")
      /\ page = "game" /\ spot = "voice" => ~music.playing
      /\ page = "showcase" /\ music.playing => music.src = Track(shown)
  BY DEF PagesIInv, VoiceAlone, VoiceIsHeard, GameUnmutes, ShowcaseOwnMusic
<1>4. CASE Track(c) = Track(shown)
  <2>1. n = music BY <1>4 DEF MusicOf
  <2> QED BY <1>1, <1>3, <1>4, <2>1
<1>5. CASE Track(c) # Track(shown) /\ page = "game"
  <2>1. PICK k \in GameMood(music, spot, Track(c)) : n \in PlayIfStarted(k, Track(c))
    BY <1>5 DEF MusicOf
  <2>2. /\ k \in Audio
        /\ k.suppressed <=> spot = "voice"
        /\ spot = "voice" => ~k.playing
        /\ k.playing => music.playing \/ started
        /\ Sound(k)
    BY <1>1, <1>2, <2>1, GameMoodEffect
  <2>3. /\ n \in Audio
        /\ n.suppressed = k.suppressed
        /\ n = k \/ (started /\ ~k.suppressed /\ Track(c) \in Tracks /\ n.src = Track(c))
    BY <1>2, <2>1, <2>2, PlayIfStartedEffect
  <2> QED BY <1>5, <2>2, <2>3 DEF Sound
<1>6. CASE Track(c) # Track(shown) /\ page = "showcase"
  <2>1. n \in ShowcaseMood(music, Track(c)) BY <1>6 DEF MusicOf
  <2> QED BY <1>1, <1>2, <1>6, <2>1, ShowcaseMoodEffect DEF Sound
<1>7. CASE Track(c) # Track(shown) /\ page \notin {"game", "showcase"}
  <2>1. n = music BY <1>7 DEF MusicOf
  <2> QED BY <1>1, <1>7, <2>1
<1> QED BY <1>4, <1>5, <1>6, <1>7
-----------------------------------------------------------------------------
(* The requests.                                                           *)

Requests == [slug : Slugs, lang : Langs, live : BOOLEAN]

\* A load leaves only its own request listened to.
LEMMA LoadEffect ==
  ASSUME NEW p \in Pages, NEW s \in Slugs, NEW l \in Langs, loads \subseteq Requests,
         Load(p, s, l), page' = p, slug' = s, lang' = l
  PROVE  /\ loads' \subseteq Requests
         /\ WaitsForAsked'
         /\ p # "away" => Live' # {}
<1> DEFINE before == {[r EXCEPT !.live = FALSE] : r \in loads}
           own == [slug |-> s, lang |-> l, live |-> TRUE]
<1>1. before \subseteq Requests /\ \A r \in before : ~r.live BY DEF Requests
<1>2. own \in Requests /\ own.live /\ own.slug = s /\ own.lang = l BY DEF Requests
<1>3. loads' = IF p = "away" THEN before ELSE before \cup {own} BY DEF Load
<1> HIDE DEF before, own
<1>4. loads' \subseteq Requests BY <1>1, <1>2, <1>3
<1>5. \A r \in loads' : r.live => p # "away" /\ r = own BY <1>1, <1>3
<1>6. WaitsForAsked' BY <1>2, <1>5 DEF WaitsForAsked, Live, Asked
<1>7. p # "away" => Live' # {} BY <1>2, <1>3 DEF Live
<1> QED BY <1>4, <1>6, <1>7
-----------------------------------------------------------------------------
(* The actions.                                                            *)

LEMMA InitPages == ASSUME PagesInit PROVE PagesIInv
<1> DEFINE own == [slug |-> slug, lang |-> lang, live |-> TRUE]
<1>1. own \in Requests /\ own.live /\ own.slug = slug /\ own.lang = lang
  BY DEF PagesInit, Requests
<1>2. loads = IF page = "away" THEN {} ELSE {own} BY DEF PagesInit
<1> HIDE DEF own
<1>3. loads \subseteq Requests BY <1>1, <1>2
<1>4. PagesTypeOK
  <2>1. moves \in 0..MaxMoves BY PagesAssumption DEF PagesInit
  <2>2. music \in Audio /\ ~music.playing BY DEF PagesInit, Silent, Audio
  <2>3. loading \in BOOLEAN /\ error \in BOOLEAN BY DEF PagesInit
  <2> QED BY <1>3, <2>1, <2>2, <2>3 DEF PagesInit, PagesTypeOK, Requests, Audio, Spots
<1>5. WaitsForAsked BY <1>1, <1>2 DEF WaitsForAsked, Live, Asked
<1>6. MusicAsked /\ ShowcaseOwnMusic BY DEF PagesInit, Silent, MusicAsked, ShowcaseOwnMusic
<1>7. ShownIsAsked BY DEF PagesInit, ShownIsAsked
<1>8. VoiceAlone BY DEF PagesInit, Silent, VoiceAlone, VoiceIsHeard, GameUnmutes
<1> QED BY <1>4, <1>5, <1>6, <1>7, <1>8 DEF PagesIInv

LEMMA ReloadKeeps == ASSUME PagesIInv, Reload PROVE PagesIInv'
<1> DEFINE own == [slug |-> slug, lang |-> lang, live |-> TRUE]
<1>1. own \in Requests /\ own.live /\ own.slug = slug /\ own.lang = lang
  BY DEF PagesIInv, PagesTypeOK, Requests
<1>2. loads' = IF page = "away" THEN {} ELSE {own} BY DEF Reload
<1> HIDE DEF own
<1>3. loads' \subseteq Requests BY <1>1, <1>2
<1>4. PagesTypeOK'
  <2>1. moves' \in 0..MaxMoves
    BY PagesAssumption DEF PagesIInv, PagesTypeOK, Reload
  <2> QED BY <1>3, <2>1
        DEF PagesIInv, PagesTypeOK, Reload, view, Requests, Silent, Spots
<1>5. WaitsForAsked' BY <1>1, <1>2 DEF Reload, view, WaitsForAsked, Live, Asked
<1>6. MusicAsked' /\ ShowcaseOwnMusic'
  BY DEF Reload, Silent, MusicAsked, ShowcaseOwnMusic
<1>7. ShownIsAsked' BY DEF Reload, ShownIsAsked
<1>8. VoiceAlone' BY DEF Reload, Silent, VoiceAlone, VoiceIsHeard, GameUnmutes
<1> QED BY <1>4, <1>5, <1>6, <1>7, <1>8 DEF PagesIInv

\* Moving to a page: the song of the page left does not sound on the next one.
LEMMA ShowKeeps ==
  ASSUME PagesIInv, NEW p \in Pages, NEW s \in Slugs, Show(p, s),
         UNCHANGED <<started, toggled>>, starting' \subseteq Slugs, moves' \in 0..MaxMoves
  PROVE  PagesIInv'
<1>1. PagesTypeOK BY DEF PagesIInv
<1>2. page' = p /\ slug' = s /\ lang' = lang BY DEF Show
<1>3. /\ loads' \subseteq Requests
      /\ WaitsForAsked'
      /\ p # "away" => Live' # {}
  BY <1>1, <1>2, LoadEffect DEF Show, PagesTypeOK, Requests
<1>4. ShownIsAsked' BY <1>2, <1>3 DEF ShownIsAsked
<1>5. CASE p = page
  <2>1. UNCHANGED <<shown, showcase, spot, music>> BY <1>5 DEF Show
  <2>2. PagesTypeOK' BY <1>1, <1>2, <1>3, <2>1 DEF PagesTypeOK, showcase, Requests
  <2>3. MusicAsked' BY <2>1 DEF PagesIInv, MusicAsked
  <2>4. ShowcaseOwnMusic'
    BY <1>2, <1>5, <2>1 DEF PagesIInv, ShowcaseOwnMusic, Track
  <2>5. VoiceAlone'
    BY <1>2, <1>5, <2>1 DEF PagesIInv, VoiceAlone, VoiceIsHeard, GameUnmutes
  <2> QED BY <1>3, <1>4, <2>2, <2>3, <2>4, <2>5 DEF PagesIInv
<1>6. CASE p # page
  <2> DEFINE left == LeftGame(music)
  <2>1. music \in Audio /\ Sound(music) BY <1>1 DEF PagesTypeOK, Audio, Sound
  <2>2. left \in Audio /\ left.src = music.src /\ (left.playing <=> music.playing)
    BY <2>1, LeftGameEffect
  <2>3. /\ shown' = Nothing /\ spot' = "before"
        /\ loading' = (p = "showcase") /\ error' = FALSE
        /\ music' \in CASE p = "game" -> GameMood(left, "before", NoMusic)
                        [] p = "showcase" -> ShowcaseMood(left, NoMusic)
                        [] OTHER -> {left}
    BY <1>6 DEF Show
  <2> HIDE DEF left
  <2>4. NoMusic \in Songs /\ "before" \in Spots BY DEF Songs, Spots
  <2>5. /\ music' \in Audio /\ Sound(music')
        /\ music'.playing => music.playing \/ started
        /\ p = "showcase" => ~music'.playing
        /\ p = "game" => ~music'.suppressed
    <3>1. CASE p = "game"
      <4>1. music' \in GameMood(left, "before", NoMusic) BY <3>1, <2>3
      <4> QED BY <3>1, <2>1, <2>2, <2>4, <4>1, GameMoodEffect DEF Sound
    <3>2. CASE p = "showcase"
      <4>1. music' \in ShowcaseMood(left, NoMusic) BY <3>2, <2>3
      <4> QED BY <3>2, <2>2, <2>4, <4>1, ShowcaseMoodEffect, PagesAssumption DEF Sound
    <3>3. CASE p \notin {"game", "showcase"}
      <4>1. music' = left BY <3>3, <2>3
      <4> QED BY <3>3, <2>1, <2>2, <4>1 DEF Sound
    <3> QED BY <3>1, <3>2, <3>3
  <2>6. PagesTypeOK'
    BY <1>1, <1>2, <1>3, <2>3, <2>4, <2>5 DEF PagesTypeOK, Requests, Audio, Sound
  <2>7. MusicAsked' BY <2>5 DEF PagesIInv, MusicAsked
  <2>8. ShowcaseOwnMusic' BY <1>2, <2>5 DEF ShowcaseOwnMusic
  <2>9. VoiceAlone' BY <1>2, <2>3, <2>5 DEF VoiceAlone, VoiceIsHeard, GameUnmutes
  <2> QED BY <1>3, <1>4, <2>6, <2>7, <2>8, <2>9 DEF PagesIInv
<1> QED BY <1>5, <1>6

LEMMA GoToKeeps == ASSUME PagesIInv, GoTo PROVE PagesIInv'
<1>1. PICK p \in Pages, s \in Slugs :
        Show(p, s) /\ moves' = moves + (IF p = page THEN 1 ELSE 0)
  BY DEF GoTo
<1>2. moves' \in 0..MaxMoves
  BY <1>1, PagesAssumption DEF GoTo, PagesIInv, PagesTypeOK
<1>3. starting' \subseteq Slugs BY DEF GoTo, PagesIInv, PagesTypeOK
<1>4. UNCHANGED <<started, toggled>> BY DEF GoTo
<1> QED BY <1>1, <1>2, <1>3, <1>4, ShowKeeps

LEMMA SwitchLanguageKeeps ==
  ASSUME PagesIInv, SwitchLanguage PROVE PagesIInv'
<1>1. PagesTypeOK BY DEF PagesIInv
<1>2. PICK l \in Langs : lang' = l /\ Load(page, slug, l) BY DEF SwitchLanguage
<1>3. UNCHANGED <<page, slug, shown, showcase, spot, started, starting, music, toggled>>
  BY DEF SwitchLanguage
<1>4. moves' \in 0..MaxMoves BY <1>1, PagesAssumption DEF SwitchLanguage, PagesTypeOK
<1>5. /\ loads' \subseteq Requests
      /\ WaitsForAsked'
      /\ page # "away" => Live' # {}
  BY <1>1, <1>2, <1>3, LoadEffect DEF PagesTypeOK, Requests
<1>6. PagesTypeOK' BY <1>1, <1>2, <1>3, <1>4, <1>5 DEF PagesTypeOK, showcase, Requests
<1>7. MusicAsked' BY <1>3 DEF PagesIInv, MusicAsked
<1>8. ShowcaseOwnMusic' BY <1>3 DEF PagesIInv, ShowcaseOwnMusic, Track
<1>9. ShownIsAsked' BY <1>3, <1>5 DEF ShownIsAsked
<1>10. VoiceAlone' BY <1>3 DEF PagesIInv, VoiceAlone, VoiceIsHeard, GameUnmutes
<1> QED BY <1>5, <1>6, <1>7, <1>8, <1>9, <1>10 DEF PagesIInv

\* The play of the journey changes the song only where the visitor asks for it.
LEMMA StartJourneyKeeps == ASSUME PagesIInv, StartJourney PROVE PagesIInv'
<1>1. PagesTypeOK BY DEF PagesIInv
<1>2. UNCHANGED <<page, slug, lang, loads, shown, loading, error, spot, toggled, moves>>
  BY DEF StartJourney, view, showcase
<1>3. page = "home" /\ started' /\ starting' = starting \cup {slug} BY DEF StartJourney
<1>4. music \in Audio /\ Sound(music) /\ shown \in PageConfigs
  BY <1>1 DEF PagesTypeOK, Audio, Sound, PageConfigs
<1>5. music' \in Audio /\ Sound(music')
  <2>1. Track(shown) \in Songs BY <1>4, TrackType
  <2>2. music' \in Play(music, Track(shown)) BY DEF StartJourney
  <2> QED BY <1>4, <2>1, <2>2, PlayEffect DEF Sound
<1>6. PagesTypeOK'
  <2>1. started' \in BOOLEAN BY DEF StartJourney
  <2>2. starting' \subseteq Slugs BY <1>1, <1>3 DEF PagesTypeOK
  <2> QED BY <1>1, <1>2, <1>5, <2>1, <2>2 DEF PagesTypeOK, Audio, Sound
<1>7. WaitsForAsked' BY <1>2 DEF PagesIInv, WaitsForAsked, Live, Asked
<1>8. MusicAsked' /\ ShowcaseOwnMusic' BY <1>2, <1>3 DEF MusicAsked, ShowcaseOwnMusic
<1>9. ShownIsAsked' BY <1>2 DEF PagesIInv, ShownIsAsked, Live, Asked
<1>10. VoiceAlone' BY <1>2, <1>3 DEF VoiceAlone, VoiceIsHeard, GameUnmutes
<1> QED BY <1>6, <1>7, <1>8, <1>9, <1>10 DEF PagesIInv

LEMMA StartAnsweredKeeps ==
  ASSUME PagesIInv, StartAnswered PROVE PagesIInv'
<1>1. PICK s \in starting :
        /\ starting' = starting \ {s}
        /\ IF <<page, slug>> = <<"game", s>>
           THEN UNCHANGED <<view, loads, shown, showcase, spot, music>>
           ELSE Show("game", s)
  BY DEF StartAnswered
<1>2. UNCHANGED <<started, toggled, moves>> BY DEF StartAnswered
<1>3. PagesTypeOK /\ s \in Slugs /\ starting' \subseteq Slugs
  BY <1>1 DEF PagesIInv, PagesTypeOK
<1>4. CASE <<page, slug>> = <<"game", s>>
  <2>1. UNCHANGED <<page, slug, lang, loads, shown, loading, error, spot, music>>
    BY <1>1, <1>4 DEF view, showcase
  <2>2. PagesTypeOK' BY <1>2, <1>3, <2>1 DEF PagesTypeOK
  <2> QED BY <1>2, <2>1, <2>2 DEF PagesIInv, WaitsForAsked, Live, Asked, MusicAsked,
       ShowcaseOwnMusic, Track, ShownIsAsked, VoiceAlone, VoiceIsHeard, GameUnmutes
<1>5. CASE <<page, slug>> # <<"game", s>>
  <2>1. Show("game", s) BY <1>1, <1>5
  <2>2. "game" \in Pages BY DEF Pages
  <2>3. moves' \in 0..MaxMoves BY <1>2, <1>3 DEF PagesTypeOK
  <2> QED BY <1>2, <1>3, <2>1, <2>2, <2>3, ShowKeeps
<1> QED BY <1>4, <1>5

\* An answer that is heard is of what the page should show; another changes nothing.
LEMMA AnsweredKeeps == ASSUME PagesIInv, Answered PROVE PagesIInv'
<1>1. PICK r \in loads :
        /\ loads' = loads \ {r}
        /\ IF Heard(r) /\ page # "away"
           THEN /\ shown' = <<r.slug, r.lang>>
                /\ loading' = FALSE
                /\ music' \in MusicOf(music, <<r.slug, r.lang>>)
           ELSE UNCHANGED <<shown, loading, music>>
  BY DEF Answered
<1>2. UNCHANGED <<page, slug, lang, error, spot, started, starting, toggled, moves>>
  BY DEF Answered, view
<1>3. PagesTypeOK BY DEF PagesIInv
<1>4. WaitsForAsked'
  BY <1>1, <1>2 DEF PagesIInv, WaitsForAsked, Live, Asked
<1>5. CASE Heard(r) /\ page # "away"
  <2> DEFINE c == <<r.slug, r.lang>>
  <2>1. c = Asked BY <1>1, <1>5 DEF Heard, Live, PagesIInv, WaitsForAsked
  <2>2. c \in PageConfigs BY <1>3, <2>1 DEF PagesTypeOK, PageConfigs, Asked
  <2>3. shown' = c /\ loading' = FALSE /\ music' \in MusicOf(music, c) BY <1>1, <1>5
  <2> HIDE DEF c
  <2>4. /\ music' \in Audio /\ Sound(music')
        /\ music'.playing => music.playing \/ started
        /\ page = "showcase" /\ music'.playing => music'.src = Track(c)
        /\ page = "game" => (music'.suppressed <=> spot = "voice")
        /\ page = "game" /\ spot = "voice" => ~music'.playing
    BY <2>2, <2>3, MusicOfEffect
  <2>5. PagesTypeOK'
    BY <1>1, <1>2, <1>3, <2>2, <2>3, <2>4 DEF PagesTypeOK, PageConfigs, Audio, Sound
  <2>6. MusicAsked' BY <1>2, <2>4 DEF PagesIInv, MusicAsked
  <2>7. ShowcaseOwnMusic' BY <1>2, <2>3, <2>4 DEF ShowcaseOwnMusic, Track
  <2>8. ShownIsAsked' BY <1>2, <2>1, <2>3 DEF ShownIsAsked, Asked
  <2>9. VoiceAlone' BY <1>2, <2>4 DEF VoiceAlone, VoiceIsHeard, GameUnmutes
  <2> QED BY <1>4, <2>5, <2>6, <2>7, <2>8, <2>9 DEF PagesIInv
<1>6. CASE ~(Heard(r) /\ page # "away")
  <2>1. UNCHANGED <<shown, loading, music>> BY <1>1, <1>6
  <2>2. PagesTypeOK' BY <1>1, <1>2, <1>3, <2>1 DEF PagesTypeOK
  <2>3. page # "away" => Live' = Live BY <1>1, <1>6 DEF Live, Heard
  <2>4. ShownIsAsked' BY <1>2, <2>1, <2>3 DEF PagesIInv, ShownIsAsked, Asked
  <2> QED BY <1>2, <1>4, <2>1, <2>2, <2>4 DEF PagesIInv, MusicAsked, ShowcaseOwnMusic,
       Track, VoiceAlone, VoiceIsHeard, GameUnmutes
<1> QED BY <1>5, <1>6

LEMMA FailedKeeps == ASSUME PagesIInv, Failed PROVE PagesIInv'
<1>1. PICK r \in loads :
        /\ loads' = loads \ {r}
        /\ IF Heard(r) /\ page = "showcase"
           THEN error' = TRUE /\ loading' = FALSE ELSE UNCHANGED showcase
        /\ IF Heard(r) /\ page \in {"home", "game"}
           THEN shown' = Nothing /\ music' \in MusicOf(music, Nothing)
           ELSE UNCHANGED <<shown, music>>
  BY DEF Failed
<1>2. UNCHANGED <<page, slug, lang, spot, started, starting, toggled, moves>>
  BY DEF Failed, view
<1>3. PagesTypeOK BY DEF PagesIInv
<1>4. WaitsForAsked'
  BY <1>1, <1>2 DEF PagesIInv, WaitsForAsked, Live, Asked
<1>5. CASE Heard(r) /\ page \in {"home", "game"}
  <2>1. shown' = Nothing /\ music' \in MusicOf(music, Nothing) BY <1>1, <1>5
  <2>2. UNCHANGED <<loading, error>> BY <1>1, <1>5 DEF showcase
  <2>3. Nothing \in PageConfigs BY DEF PageConfigs
  <2>4. /\ music' \in Audio /\ Sound(music')
        /\ music'.playing => music.playing \/ started
        /\ page = "game" => (music'.suppressed <=> spot = "voice")
        /\ page = "game" /\ spot = "voice" => ~music'.playing
    BY <2>1, <2>3, MusicOfEffect
  <2>5. PagesTypeOK'
    BY <1>1, <1>2, <1>3, <2>1, <2>2, <2>4 DEF PagesTypeOK, Audio, Sound
  <2>6. MusicAsked' BY <1>2, <2>4 DEF PagesIInv, MusicAsked
  <2>7. ShowcaseOwnMusic' BY <1>2, <1>5 DEF ShowcaseOwnMusic
  <2>8. ShownIsAsked' BY <2>1 DEF ShownIsAsked
  <2>9. VoiceAlone' BY <1>2, <2>4 DEF VoiceAlone, VoiceIsHeard, GameUnmutes
  <2> QED BY <1>4, <2>5, <2>6, <2>7, <2>8, <2>9 DEF PagesIInv
<1>6. CASE ~(Heard(r) /\ page \in {"home", "game"})
  <2>1. UNCHANGED <<shown, music>> BY <1>1, <1>6
  <2>2. \/ Heard(r) /\ page = "showcase" /\ error' = TRUE /\ loading' = FALSE
        \/ ~(Heard(r) /\ page = "showcase") /\ UNCHANGED <<loading, error>>
    BY <1>1 DEF showcase
  <2>3. PagesTypeOK' BY <1>1, <1>2, <1>3, <2>1, <2>2 DEF PagesTypeOK
  <2>4. ShownIsAsked'
    <3>1. CASE Heard(r) /\ page = "showcase"
      BY <1>2, <2>2, <3>1 DEF ShownIsAsked
    <3>2. CASE ~(Heard(r) /\ page = "showcase")
      <4>1. page # "away" => Live' = Live
        BY <1>1, <1>3, <1>6, <3>2 DEF Live, Heard, PagesTypeOK, Pages
      <4>2. error' = error BY <2>2, <3>2
      <4> QED BY <1>2, <2>1, <4>1, <4>2 DEF PagesIInv, ShownIsAsked, Asked
    <3> QED BY <3>1, <3>2
  <2> QED BY <1>2, <1>4, <2>1, <2>3, <2>4 DEF PagesIInv, MusicAsked, ShowcaseOwnMusic,
       Track, VoiceAlone, VoiceIsHeard, GameUnmutes
<1> QED BY <1>5, <1>6

\* The button plays the song of the configuration shown, and not at the voice note.
LEMMA ToggleMusicKeeps == ASSUME PagesIInv, ToggleMusic PROVE PagesIInv'
<1>1. PagesTypeOK BY DEF PagesIInv
<1>2. UNCHANGED <<page, slug, lang, loads, shown, loading, error, spot, started, starting, moves>>
  BY DEF ToggleMusic, view, showcase
<1>3. music \in Audio /\ Sound(music) /\ shown \in PageConfigs
  BY <1>1 DEF PagesTypeOK, Audio, Sound, PageConfigs
<1>4. toggled' = (toggled \/ ~music.playing) BY DEF ToggleMusic
<1>5. /\ music' \in Audio /\ Sound(music')
      /\ music'.suppressed = music.suppressed
      /\ music'.playing => ~music.suppressed /\ ~music.playing /\ music'.src = Track(shown)
  <2>1. CASE music.playing
    <3>1. music' = Pause(music) BY <2>1 DEF ToggleMusic
    <3> QED BY <1>3, <3>1, PauseEffect DEF Sound
  <2>2. CASE ~music.playing
    <3>1. music' \in Play(music, Track(shown)) BY <2>2 DEF ToggleMusic
    <3>2. Track(shown) \in Songs BY <1>3, TrackType
    <3> QED BY <1>3, <2>2, <3>1, <3>2, PlayEffect DEF Sound
  <2> QED BY <2>1, <2>2
<1>6. PagesTypeOK'
  <2>1. toggled' \in BOOLEAN BY <1>4
  <2> QED BY <1>1, <1>2, <1>5, <2>1 DEF PagesTypeOK, Audio, Sound
<1>7. WaitsForAsked' BY <1>2 DEF PagesIInv, WaitsForAsked, Live, Asked
<1>8. MusicAsked' BY <1>4, <1>5 DEF MusicAsked
<1>9. ShowcaseOwnMusic' BY <1>2, <1>5 DEF ShowcaseOwnMusic, Track
<1>10. ShownIsAsked' BY <1>2 DEF PagesIInv, ShownIsAsked, Live, Asked
<1>11. VoiceAlone'
  BY <1>2, <1>5 DEF PagesIInv, VoiceAlone, VoiceIsHeard, GameUnmutes
<1> QED BY <1>6, <1>7, <1>8, <1>9, <1>10, <1>11 DEF PagesIInv

LEMMA TurnKeeps == ASSUME PagesIInv, Turn PROVE PagesIInv'
<1>1. PagesTypeOK BY DEF PagesIInv
<1>2. UNCHANGED <<page, slug, lang, loads, shown, loading, error, started, starting, toggled, moves>>
  BY DEF Turn, view, showcase
<1>3. page = "game" BY DEF Turn
<1>4. PICK sp \in Spots : spot' = sp /\ music' \in GameMood(LeftGame(music), sp, Track(shown))
  BY DEF Turn
<1> DEFINE left == LeftGame(music)
<1>5. music \in Audio /\ Sound(music) /\ Track(shown) \in Songs
  BY <1>1, TrackType DEF PagesTypeOK, Audio, Sound, PageConfigs
<1>6. left \in Audio /\ left.src = music.src /\ (left.playing <=> music.playing)
  BY <1>5, LeftGameEffect
<1>7. music' \in GameMood(left, sp, Track(shown)) BY <1>4
<1> HIDE DEF left
<1>8. /\ music' \in Audio /\ Sound(music')
      /\ music'.suppressed <=> sp = "voice"
      /\ sp = "voice" => ~music'.playing
      /\ music'.playing => music.playing \/ started
  BY <1>5, <1>6, <1>7, GameMoodEffect DEF Sound
<1>9. PagesTypeOK' BY <1>1, <1>2, <1>4, <1>8 DEF PagesTypeOK, Audio, Sound
<1>10. WaitsForAsked' BY <1>2 DEF PagesIInv, WaitsForAsked, Live, Asked
<1>11. MusicAsked' BY <1>2, <1>8 DEF PagesIInv, MusicAsked
<1>12. ShowcaseOwnMusic' BY <1>2, <1>3 DEF ShowcaseOwnMusic
<1>13. ShownIsAsked' BY <1>2 DEF PagesIInv, ShownIsAsked, Live, Asked
<1>14. VoiceAlone' BY <1>4, <1>8 DEF VoiceAlone, VoiceIsHeard, GameUnmutes
<1> QED BY <1>9, <1>10, <1>11, <1>12, <1>13, <1>14 DEF PagesIInv
-----------------------------------------------------------------------------
LEMMA NextKeeps ==
  ASSUME PagesIInv, [PagesNext]_pagesVars PROVE PagesIInv'
<1>1. CASE Reload BY <1>1, ReloadKeeps
<1>2. CASE GoTo BY <1>2, GoToKeeps
<1>3. CASE SwitchLanguage BY <1>3, SwitchLanguageKeeps
<1>4. CASE StartJourney BY <1>4, StartJourneyKeeps
<1>5. CASE StartAnswered BY <1>5, StartAnsweredKeeps
<1>6. CASE Answered BY <1>6, AnsweredKeeps
<1>7. CASE Failed BY <1>7, FailedKeeps
<1>8. CASE ToggleMusic BY <1>8, ToggleMusicKeeps
<1>9. CASE Turn BY <1>9, TurnKeeps
<1>10. CASE UNCHANGED pagesVars
  <2>1. UNCHANGED <<page, slug, lang, loads, shown, loading, error, spot, started,
                    starting, music, toggled, moves>>
    BY <1>10 DEF pagesVars, view, showcase
  <2>2. PagesTypeOK' BY <2>1 DEF PagesIInv, PagesTypeOK
  <2> QED BY <2>1, <2>2 DEF PagesIInv, WaitsForAsked, Live, Asked, MusicAsked,
       ShowcaseOwnMusic, Track, ShownIsAsked, VoiceAlone, VoiceIsHeard, GameUnmutes
<1> QED BY <1>1, <1>2, <1>3, <1>4, <1>5, <1>6, <1>7, <1>8, <1>9, <1>10 DEF PagesNext

\* The invariant of the pages: of the requests, of what is shown and of the song.
THEOREM PagesIInvHolds == PagesSpec => []PagesIInv
<1>1. PagesInit => PagesIInv BY InitPages
<1>2. PagesIInv /\ [PagesNext]_pagesVars => PagesIInv' BY NextKeeps
<1> QED BY <1>1, <1>2, PTL DEF PagesSpec

\* A page waits for one thing, the one it should show; no song plays before the
\* visitor asked for one; and the showcase plays its own.
THEOREM PagesInvHolds == PagesSpec => []PagesInv
<1>1. PagesIInv => PagesInv BY DEF PagesIInv, PagesInv
<1> QED BY <1>1, PagesIInvHolds, PTL

\* An answer that comes late is never shown in place of the one asked for last,
\* however the visitor goes between tenants, pages and languages.
THEOREM AlwaysShownAsAsked == PagesSpec => []ShownIsAsked
<1>1. PagesIInv => ShownIsAsked BY DEF PagesIInv
<1> QED BY <1>1, PagesIInvHolds, PTL

\* The song is silent at the voice note of the game, and muted nowhere else in it.
THEOREM VoiceAlwaysAlone == PagesSpec => []VoiceAlone
<1>1. PagesIInv => VoiceAlone BY DEF PagesIInv
<1> QED BY <1>1, PagesIInvHolds, PTL
=============================================================================
