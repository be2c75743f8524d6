CONSTANTS
  s1 = s1
  s2 = s2
  s3 = s3
  s4 = s4
  Server = {s1,s2,s3,s4}
  Members = {s1,s2,s3,s4}
  First = s1
  Down = {}
  None = None
  Command = {}
  Faults = {}
  MaxElections = 2
  MaxTerm = 1
  MaxLogLen = 1
  MaxTicks = 0
  MaxCrashes = 0
  MaxChanges = 0
SPECIFICATION Spec
CHECK_DEADLOCK FALSE
SYMMETRY AllAlike
INVARIANTS ElectionSafety
