CONSTANTS
  Tabs = {t1, t2}
  Users = {u1, u2}
  None = None
  Demo = {u2}
  MaxRotations = 1
  MaxChallenges = 1
  MaxEndpoints = 1
SPECIFICATION Spec
SYMMETRY Symmetry
INVARIANT LabelsNameTheSession
INVARIANT PasskeysEnrollTheirAccount
INVARIANT AckedDevicesHaveRows
INVARIANT RedirectsEnd
CHECK_DEADLOCK FALSE
