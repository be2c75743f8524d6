CONSTANTS
  s1 = s1
  s2 = s2
  s3 = s3
  s4 = s4
  s5 = s5
  Server = {s1,s2,s3,s4,s5}
  Members = {s1,s2,s3,s4,s5}
  First = s1
  Down = {s5}
  None = None
  Command = {}
  Faults = {}
  MaxElections = 2
  MaxTerm = 2
  MaxLogLen = 1
  MaxTicks = 0
  MaxCrashes = 0
  MaxChanges = 0
SPECIFICATION SpecSomeDown
CHECK_DEADLOCK FALSE
SYMMETRY AllAlike
INVARIANTS TypeOK ElectionSafety
