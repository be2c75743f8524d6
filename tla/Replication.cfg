CONSTANTS
  s1 = s1
  s2 = s2
  s3 = s3
  Server = {s1,s2,s3}
  Members = {s1,s2,s3}
  First = s1
  Down = {}
  None = None
  c1 = c1
  Command = {c1}
  Faults = {}
  MaxElections = 2
  MaxTerm = 2
  MaxLogLen = 2
  MaxTicks = 2
  MaxCrashes = 0
  MaxChanges = 0
SPECIFICATION SpecLed
CHECK_DEADLOCK FALSE
SYMMETRY OthersAlike
INVARIANTS LogMatching
PROPERTIES LeaderAppendOnly LeaderUpToDate
