CONSTANTS
  a1 = a1
  a2 = a2
  a3 = a3
  u1 = u1
  u2 = u2
  Apps = {a1, a2, a3}
  Users = {u1, u2}
  Owner <- TwoUsers
  Runs = {j1}
  LastDay = 0
  BusinessDays = {0}
  Dates = {0}
  Calendar <- NewYear2027
  national_holidays <- NewYearsDay
  NoDate = NoDate
  None = None
  LOOKBACK = 1
  Attempts = 1
  VapidConfigured = TRUE
  MaxRestarts = 0
SPECIFICATION Spec
INVARIANT ClaimedIsNeverLost
CHECK_DEADLOCK FALSE
