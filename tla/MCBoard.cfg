CONSTANTS
  Apps = {a1}
  Starts = {"draft", "final_round"}
  MaxVersion = 3
  MaxQueue = 3
  None = None
SPECIFICATION FairSpec
INVARIANT MovesLandOnTheFetchedRow
INVARIANT ConflictsHaveACause
PROPERTY KnownVersionsAreShown
CHECK_DEADLOCK FALSE
