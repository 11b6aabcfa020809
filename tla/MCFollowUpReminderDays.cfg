CONSTANTS
  a1 = a1
  a2 = a2
  a3 = a3
  u1 = u1
  u2 = u2
  Apps = {a1}
  Users = {u1}
  Owner <- OneApp
  Runs = {j1}
  LastDay = 9
  BusinessDays <- OpenDays
  Dates = {0, 1}
  Calendar <- NewYear2027
  national_holidays <- NewYearsDay
  NoDate = NoDate
  None = None
  LOOKBACK = 8
  Attempts = 2
  VapidConfigured = FALSE
  MaxRestarts = 1
SPECIFICATION FairSpec
 
PROPERTY HeldRemindersFire
PROPERTY QuietOverNewYear
CHECK_DEADLOCK FALSE
