CONSTANTS
  None = None
  Limit = 1
  MAX_PINS = 1
  MaxId = 3
  Stages = {"rejected"}
  Tables <- TwoRows
  Company <- CompanyOf
  Source <- SourceOf
  Level <- LevelOf
  Companies = {}
  Sources = {}
  Levels = {}
  Terms = {w}
  Mentions <- Found
  Pinnable = {1}
  Junk <- OldPins
  MaxTickets = 2
  MaxWrites = 1
  Outages = TRUE
  Transitions <- Arrived
SPECIFICATION Spec
INVARIANT TypeOK
 
 
 
INVARIANT LoadingMeansWaiting
PROPERTY NothingMoves
CHECK_DEADLOCK FALSE
