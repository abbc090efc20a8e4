----------------------------- MODULE MCVisitor -----------------------------
(* The public pages, and the game that is played on one of them, side by side: *)
(* the first step says which of the two moves, and the other stays where it    *)
(* started.  Of the game, the pages know only where the player is.             *)
EXTENDS LoveGame, PublicPages

CONSTANTS a, b, id, en, x, y

VARIABLE machine

\* No configuration (the fallback pictures), one with everything, one with fewer
\* photos and videos and no voice note.
MCConfigs ==
  { [photos |-> 2, videos |-> 0, voice |-> FALSE, notes |-> 0],
    [photos |-> 3, videos |-> 2, voice |-> TRUE, notes |-> 1],
    [photos |-> 1, videos |-> 1, voice |-> FALSE, notes |-> 3] }

\* Two tenants in two languages: one has a song in one language and another in
\* the other, the second a song in one language only.
MCMusic ==
  [c \in {a, b} \X {id, en} |->
     IF c = <<a, id>> THEN x ELSE IF c = <<b, en>> THEN NoMusic ELSE y]

AllInit ==
  /\ Init /\ PagesInit
  /\ \/ machine = "game" /\ page = "away" /\ slug = a /\ lang = id
     \/ machine = "site" /\ config.videos = 0

AllNext ==
  /\ UNCHANGED machine
  /\ \/ machine = "game" /\ Next /\ UNCHANGED pagesVars
     \/ machine = "site" /\ PagesNext /\ UNCHANGED vars

\* The fairness of each machine, asked only of the one that moves.
AllFairness ==
  /\ WF_vars(machine = "game" /\ YesTimer)
  /\ WF_vars(machine = "game" /\ SpinTimer)
  /\ WF_vars(machine = "game" /\ OpenTimer)
  /\ WF_vars(machine = "game" /\ Effects)
  /\ WF_pagesVars(machine = "site" /\ (Answered \/ Failed))

AllSpec == AllInit /\ [][AllNext]_<<vars, pagesVars, machine>> /\ AllFairness

=============================================================================
