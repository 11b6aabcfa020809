CONSTANTS
  Ids = {i1, i2, i3}
  Vals = {v1, v2}
  Writers = {w1, w2}
  Readers = {r1}
  Kinds = {"create", "update", "destroy"}
  None = None
  MaxClock = 3
  MaxDate = 1
SPECIFICATION OrderedSpec
SYMMETRY Symmetry
INVARIANT TypeOK
 
 
 
CHECK_DEADLOCK FALSE
