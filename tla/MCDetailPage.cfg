CONSTANTS
  Texts = {a, b}
  Channels = {c}
  Starts = {"rejected"}
  MaxVersion = 2
  MaxQueue = 2
  None = None
SPECIFICATION FairSpec
INVARIANT TransitionLandsWhereSeen
INVARIANT RevivalsCarryReason
 
PROPERTY KnownVersionsAreShown
CHECK_DEADLOCK FALSE
