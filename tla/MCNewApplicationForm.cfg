CONSTANTS
  c1 = c1
  c2 = c2
  g = g
  link = link
  pasted = pasted
  None = None
  Companies = {c1, c2}
  Channels = {"agent"}
  Agencies = {g}
  Links = {link}
  Pastes = {pasted}
  extract <- Readings
  MaxCreates = 2
  MaxLost = 1
  MaxQueue = 2
SPECIFICATION Spec
INVARIANT CreatedAsShown
INVARIANT WarningIsOfTheSettledCompany
INVARIANT DuplicatesNeedALostAnswer
