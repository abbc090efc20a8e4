\* The game: three configurations, two refusals, two surprises, two cards to
\* unlock.  The pages: two tenants, two languages, two songs, three requests,
\* two moves.
SPECIFICATION AllSpec
CONSTANTS
  NoLimit = 2
  Dramatic = 2
  SurpriseTotal = 2
  UnlockRequired = 2
  CardsShown = 3
  MaxTimers = 2
  Configs <- MCConfigs
  a = a  b = b  id = id  en = en  x = x  y = y
  Slugs = {a, b}
  Langs = {id, en}
  Tracks = {x, y}
  Music <- MCMusic
  NoMusic = NoMusic
  Nothing = Nothing
  MaxLoads = 3
  MaxMoves = 2
INVARIANTS Inv GateHeld PagesInv ShownIsAsked VoiceAlone
PROPERTIES EnvelopeOpens BreaksOnlyWhenShorter LoadingEnds
