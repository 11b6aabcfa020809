CONSTANTS
  Tabs = {t1, t2}
  Apps = {a1}
  Details = {d1, d2}
  ReminderKeys = {}
  None = None
  MaxVersion = 1
SPECIFICATION FairSpec
PROPERTY RequestsEnd
