------------------------------ MODULE LoveGame ------------------------------
(***************************************************************************)
(* The interactive game of a public page, one player on one page: a        *)
(* question that grows harder to refuse, a romantic page, and a journey    *)
(* through a surprise, a voice note, memory cards that must be unlocked,   *)
(* photos and videos.  A click is handled and rendered, its effects        *)
(* included, before the next one.  Timers and the answer with the          *)
(* configuration come whenever they come: the passive effects of the       *)
(* render that one of them caused may run only after the next one, and the *)
(* slide show goes on over the old list until they have.  Lines of text,   *)
(* the place of the No button, the hearts and the direction of the         *)
(* animation are left out; a set of things shown is its size.              *)
(***************************************************************************)
EXTENDS Naturals, Sequences

CONSTANTS
  NoLimit,        \* NO_LIMIT: the refusals that are counted
  Dramatic,       \* the refusals from which the romantic page is dramatic
  SurpriseTotal,  \* SURPRISE_TOTAL: the surprise messages
  UnlockRequired, \* UNLOCK_REQUIRED: the cards to unlock, if there are as many
  CardsShown,     \* the cards shown to choose from, at most
  Configs,        \* the configurations that may arrive, the missing one included
  MaxTimers       \* bound: the timers of one kind that may be pending at once

\* What the game takes from a configuration: photos with a picture (or the
\* fallback pictures, so at least one), videos, a voice note, memory cards.
Config == [photos : Nat \ {0}, videos : Nat, voice : BOOLEAN, notes : Nat]

ASSUME GameAssumption ==
  /\ NoLimit \in Nat \ {0} /\ Dramatic \in Nat \ {0}
  /\ SurpriseTotal \in Nat \ {0, 1}
  /\ UnlockRequired \in Nat /\ CardsShown \in Nat \ {0}
  /\ Configs \subseteq Config
  /\ MaxTimers \in Nat \ {0}

VARIABLES
  config,    \* the configuration shown
  noCount, yesAccepted, noFloating,
  step,      \* "challenge", "romantic" or "journey"
  branch,    \* how the romantic page speaks
  stage,     \* the stage of the journey
  open,      \* the envelope of the surprise
  surprise,  \* which message it holds
  photo, video,
  cards,     \* how many cards were picked
  revealed,  \* how many of them are unlocked
  yesTimers, \* pending: the move to the romantic page
  openTimers,\* pending: the envelope opens
  spinTimers,\* pending: another message
  seen,      \* what the effect of the envelope last ran for
  slides,    \* the photos the slide show that is set steps through; 0: none is set
  crashed,   \* a render read a photo or a video that is not there
  doubled    \* history: another message was asked for before the last one came

clock == <<yesTimers, openTimers, spinTimers>>
choice == <<noCount, yesAccepted, noFloating, branch>>
envelope == <<open, surprise>>
unlock == <<cards, revealed>>
frame == <<photo, video>>
vars == <<config, choice, step, stage, envelope, frame, unlock, clock, seen,
          slides, crashed, doubled>>

Least(a, b) == IF a < b THEN a ELSE b

\* resolveRomanticBranch
Branch(n) == IF n >= Dramatic THEN "dramatic" ELSE IF n >= 1 THEN "playful" ELSE "instant"
Branches == {"instant", "playful", "dramatic"}

Steps == {"challenge", "romantic", "journey"}
Stages == {"surprise", "voice", "unlock", "photos", "videos"}

\* journeyFlow: the stages this configuration has, in their order.
Flow ==
  <<"surprise">> \o (IF config.voice THEN <<"voice">> ELSE <<>>)
    \o <<"unlock", "photos">> \o (IF config.videos > 0 THEN <<"videos">> ELSE <<>>)

\* journeyIndex + 1; 0 for a stage this configuration does not have.
Position ==
  IF \E i \in 1..Len(Flow) : Flow[i] = stage
  THEN CHOOSE i \in 1..Len(Flow) : Flow[i] = stage ELSE 0

\* unlockCandidates: the memory cards, or the photos when there are none.
Candidates == IF config.notes > 0 THEN config.notes ELSE config.photos

Required == Least(UnlockRequired, cards)

\* noHidden: after Yes, or after the last refusal, there is no No button.
NoHidden == yesAccepted \/ noCount >= NoLimit

-----------------------------------------------------------------------------
Init ==
  /\ noCount = 0 /\ yesAccepted = FALSE /\ noFloating = FALSE
  /\ step = "challenge" /\ branch = "instant" /\ stage = "surprise"
  /\ open = FALSE /\ surprise = 0
  /\ photo = 0 /\ video = 0
  /\ cards = 0 /\ revealed = 0
  /\ yesTimers = 0 /\ openTimers = 0 /\ spinTimers = 0
  /\ config \in Configs
  /\ seen = <<"challenge", "surprise", 0>> /\ slides = 0
  /\ crashed = FALSE /\ doubled = FALSE

At(s) == step = "journey" /\ stage = s

\* mutant: an index too large is left as it is.
KeptIndex(i, n) == i

\* What the effects make of an index into a list of n.
Corrected(i, n) == IF i + 1 <= n THEN i ELSE 0

\* The list the slide show is to step through.
SlideLength == IF At("photos") /\ config.photos >= 2 THEN config.photos ELSE 0

EnvelopeDue == seen # <<step, stage, surprise>>

ListsDue ==
  \/ slides # SlideLength
  \/ photo # Corrected(photo, config.photos)
  \/ video # Corrected(video, config.videos)

EffectDue == EnvelopeDue \/ ListsDue

\* React runs what is left of the effects, and renders what they set together
\* with what a click asks for.
Click == ~crashed /\ ~EffectDue

ClickNo ==
  /\ Click /\ step = "challenge" /\ ~NoHidden
  /\ noCount' = Least(noCount + 1, NoLimit)
  /\ noFloating' = (noCount + 1 < NoLimit)
  /\ UNCHANGED <<config, yesAccepted, branch, step, stage, envelope, frame, unlock,
                 clock, seen, slides, crashed, doubled>>

\* The Yes button stays while its timer runs, so it may be pressed again.
ClickYes ==
  /\ Click /\ step = "challenge"
  /\ yesTimers < MaxTimers
  /\ yesAccepted' = TRUE /\ noFloating' = FALSE
  /\ branch' = Branch(noCount)
  /\ yesTimers' = yesTimers + 1
  /\ UNCHANGED <<config, noCount, step, stage, envelope, frame, unlock, openTimers,
                 spinTimers, seen, slides, crashed, doubled>>

\* The timer moves to the romantic page from wherever the player is by then.
YesTimer ==
  /\ ~crashed /\ yesTimers > 0
  /\ yesTimers' = yesTimers - 1
  /\ step' = "romantic" /\ yesAccepted' = FALSE
  /\ UNCHANGED <<config, noCount, noFloating, branch, stage, envelope, frame, unlock,
                 openTimers, spinTimers, seen, slides, crashed, doubled>>

\* mutant: a new journey goes on where the last one was left.
MoveToJourneyKeepsStage ==
  /\ Click /\ step = "romantic"
  /\ step' = "journey"
  /\ cards' = Least(CardsShown, Candidates) /\ revealed' = 0
  /\ UNCHANGED <<config, choice, stage, envelope, frame, clock, seen,
                 slides, crashed, doubled>>

MoveToJourney ==
  /\ Click /\ step = "romantic"
  /\ step' = "journey" /\ stage' = "surprise"
  /\ cards' = Least(CardsShown, Candidates) /\ revealed' = 0
  /\ UNCHANGED <<config, choice, envelope, frame, clock, seen,
                 slides, crashed, doubled>>
-----------------------------------------------------------------------------
(* The stages of the journey.                                              *)

IsFirst == Position <= 1
IsLast == Position = Len(Flow)
CanGoNext == stage = "unlock" => revealed >= Required

NextStage ==
  /\ Click /\ step = "journey" /\ ~IsLast
  /\ CanGoNext
  /\ stage' = Flow[Position + 1]
  /\ UNCHANGED <<config, choice, step, envelope, frame, unlock, clock, seen,
                 slides, crashed, doubled>>

\* "Previous" leads from the first stage back to the romantic page; a stage the
\* configuration no longer has shows no such button.
PreviousStage ==
  /\ Click /\ step = "journey"
  /\ \/ ~IsFirst /\ stage' = Flow[Position - 1] /\ UNCHANGED step
     \/ IsFirst /\ stage = "surprise" /\ step' = "romantic" /\ UNCHANGED stage
  /\ UNCHANGED <<config, choice, envelope, frame, unlock, clock, seen,
                 slides, crashed, doubled>>

\* The button waits for an open envelope.
RevealAnotherMessage ==
  /\ Click /\ At("surprise") /\ open
  /\ spinTimers < MaxTimers
  /\ open' = FALSE
  /\ spinTimers' = spinTimers + 1
  /\ doubled' = (spinTimers > 0)
  /\ UNCHANGED <<config, choice, step, stage, surprise, frame, unlock, yesTimers,
                 openTimers, seen, slides, crashed>>

\* spinSurprise: any other message.
AnotherMessage == (0..(SurpriseTotal - 1)) \ {surprise}

SpinTimer ==
  /\ ~crashed /\ spinTimers > 0
  /\ spinTimers' = spinTimers - 1
  /\ surprise' \in AnotherMessage
  /\ UNCHANGED <<config, choice, step, stage, open, frame, unlock, yesTimers,
                 openTimers, seen, slides, crashed, doubled>>

\* The effects of a render: the indices are corrected, the slide show is set
\* again, and entering the surprise, or another message in it, shuts the envelope.
ListEffects ==
  /\ photo' = Corrected(photo, config.photos)
  /\ video' = Corrected(video, config.videos)
  /\ slides' = SlideLength

\* mutant: the envelope is shut by every run of the effect and opened by none.
EffectsShut ==
  /\ ~crashed /\ EffectDue
  /\ ListEffects
  /\ seen' = <<step, stage, surprise>>
  /\ IF EnvelopeDue /\ At("surprise") THEN open' = FALSE ELSE UNCHANGED open
  /\ UNCHANGED <<config, choice, step, stage, surprise, unlock, yesTimers,
                 openTimers, spinTimers, crashed, doubled>>

\* The passive effects of a render run one after another; the envelope they shut
\* opens a moment later.
Effects ==
  /\ ~crashed /\ EffectDue
  /\ ListEffects
  /\ seen' = <<step, stage, surprise>>
  /\ IF EnvelopeDue /\ At("surprise")
     THEN open' = FALSE /\ openTimers' = Least(openTimers + 1, MaxTimers)
     ELSE UNCHANGED <<open, openTimers>>
  /\ UNCHANGED <<config, choice, step, stage, surprise, unlock, yesTimers,
                 spinTimers, crashed, doubled>>

\* Nothing cancels this timer when the stage is left.
OpenTimer ==
  /\ ~crashed /\ openTimers > 0
  /\ openTimers' = openTimers - 1
  /\ open' = TRUE
  /\ UNCHANGED <<config, choice, step, stage, surprise, frame, unlock, yesTimers,
                 spinTimers, seen, slides, crashed, doubled>>

\* mutant: a card too many may be opened.
RevealAnyCard ==
  /\ Click /\ At("unlock")
  /\ revealed <= cards
  /\ revealed' = revealed + 1
  /\ UNCHANGED <<config, choice, step, stage, envelope, frame, cards, clock, seen,
                 slides, crashed, doubled>>

RevealUnlockCard ==
  /\ Click /\ At("unlock")
  /\ revealed < Required
  /\ revealed' = revealed + 1
  /\ UNCHANGED <<config, choice, step, stage, envelope, frame, cards, clock, seen,
                 slides, crashed, doubled>>

\* The chapter reads photos[photoIndex] or videos[videoIndex] while it renders.
Unreadable(c, p, v) ==
  \/ At("photos") /\ p >= c.photos
  \/ At("videos") /\ c.videos > 0 /\ v >= c.videos

Broken == Unreadable(config, photo, video)

\* The arrows, and a click on a small picture.
TurnPhoto ==
  /\ Click /\ At("photos")
  /\ \/ photo' = (photo + 1) % config.photos
     \/ photo' = (photo + config.photos - 1) % config.photos
     \/ photo' \in 0..(config.photos - 1)
  /\ UNCHANGED <<config, choice, step, stage, envelope, video, unlock, clock, seen,
                 slides, crashed, doubled>>

\* The interval steps through the list it was set with, also after the render of
\* a shorter one and until the effects of that render have run.
SlideShow ==
  /\ ~crashed /\ slides > 0
  /\ photo' = (photo + 1) % slides
  /\ crashed' = Unreadable(config, photo', video)
  /\ UNCHANGED <<config, choice, step, stage, envelope, video, unlock, clock, seen,
                 slides, doubled>>

SelectVideo ==
  /\ Click /\ At("videos") /\ config.videos > 0
  /\ video' \in 0..(config.videos - 1)
  /\ UNCHANGED <<config, choice, step, stage, envelope, photo, unlock, clock, seen,
                 slides, crashed, doubled>>
-----------------------------------------------------------------------------
\* The configuration arrives, in the language chosen last, or the request for it
\* fails and there is none.  React runs what is left of the effects before this
\* render, and those of the render after it: it is rendered with the indices as
\* they are, and without an error boundary a render that fails ends the page.
ConfigArrives ==
  /\ ~crashed /\ ~EffectDue
  /\ config' \in Configs
  /\ crashed' = Unreadable(config', photo, video)
  /\ UNCHANGED <<choice, step, stage, envelope, frame, unlock, clock, seen, slides,
                 doubled>>

Restart ==
  /\ noCount' = 0 /\ yesAccepted' = FALSE /\ noFloating' = FALSE
  /\ step' = "challenge" /\ branch' = "instant" /\ stage' = "surprise"
  /\ open' = FALSE /\ surprise' = 0
  /\ photo' = 0 /\ video' = 0
  /\ cards' = 0 /\ revealed' = 0
  /\ yesTimers' = 0 /\ openTimers' = 0 /\ spinTimers' = 0

ResetGame ==
  /\ Click /\ step # "challenge"
  /\ Restart
  /\ UNCHANGED <<config, seen, slides, crashed, doubled>>

\* The player leaves, or finishes, and plays again: the timers are cleared when
\* the game goes away.
PlayAgain ==
  /\ Restart
  /\ config' \in Configs
  /\ seen' = <<"challenge", "surprise", 0>> /\ slides' = 0
  /\ crashed' = FALSE /\ doubled' = FALSE

Timers == YesTimer \/ SpinTimer \/ OpenTimer \/ Effects

Clicks ==
  \/ ClickNo \/ ClickYes \/ MoveToJourney \/ NextStage \/ PreviousStage
  \/ RevealAnotherMessage \/ RevealUnlockCard \/ TurnPhoto \/ SelectVideo
  \/ ResetGame

Next == Timers \/ Clicks \/ SlideShow \/ ConfigArrives \/ PlayAgain

\* A timer fires and an effect runs; nobody has to click, and nothing has to arrive.
Spec ==
  /\ Init /\ [][Next]_vars
  /\ WF_vars(YesTimer) /\ WF_vars(SpinTimer) /\ WF_vars(OpenTimer)
  /\ WF_vars(Effects)
-----------------------------------------------------------------------------
TypeOK ==
  /\ config \in Configs
  /\ noCount \in 0..NoLimit
  /\ yesAccepted \in BOOLEAN /\ noFloating \in BOOLEAN
  /\ step \in Steps /\ branch \in Branches /\ stage \in Stages
  /\ open \in BOOLEAN /\ surprise \in 0..(SurpriseTotal - 1)
  /\ photo \in Nat /\ video \in Nat
  /\ cards \in 0..CardsShown /\ revealed \in 0..cards
  /\ yesTimers \in 0..MaxTimers /\ openTimers \in 0..MaxTimers
  /\ spinTimers \in 0..MaxTimers
  /\ seen \in Steps \X Stages \X (0..(SurpriseTotal - 1))
  /\ slides \in Nat
  /\ crashed \in BOOLEAN /\ doubled \in BOOLEAN

\* The photos and the videos are behind the cards: whatever the player did, went
\* back to, was thrown out of by a late timer, and whatever configuration
\* arrived in between, the cards of this journey have been unlocked first.
GateHeld ==
  step = "journey" /\ stage \in {"photos", "videos"} => revealed >= Required

\* The romantic page speaks to the number of refusals there really were: none
\* can be added between the Yes and the page that follows it.
BranchFits == step # "challenge" => branch = Branch(noCount)

Sealed == At("surprise") /\ ~open /\ ~crashed

\* A shut envelope always has something pending that will open it.
EnvelopeWillOpen ==
  Sealed /\ ~doubled => EnvelopeDue \/ openTimers > 0 \/ spinTimers > 0

\* The types, what the romantic page says, and what a shut envelope waits for.
Inv == TypeOK /\ BranchFits /\ EnvelopeWillOpen

\* The envelope of the surprise opens, unless the player leaves it.  Only a
\* message asked for while another one is pending may leave it shut: the two may
\* come back to the message shown before the effect has seen the first.
EnvelopeOpens == (Sealed /\ ~doubled) ~> (~Sealed \/ doubled)

\* The page breaks only on the answer that shortens the list being shown, or on
\* a tick of the slide show of the longer list before the effects of that answer
\* have run: neither the arrows, nor another stage, nor a slide show that was set
\* for the present list finds an index too large.
BreaksOnlyWhenShorter ==
  [][~crashed /\ (crashed' \/ Broken') =>
       \/ config'.photos < config.photos
       \/ config'.videos < config.videos
       \/ slides > config.photos]_vars
=============================================================================
