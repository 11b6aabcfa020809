CONSTANTS
  Texts = {a}
  Channels = {c, d}
  Starts = {"rejected"}
  MaxVersion = 2
  MaxQueue = 2
  None = None
SPECIFICATION Spec
CHECK_DEADLOCK FALSE
INVARIANT UntouchedSelectsAreKept
