CONSTANTS
  s1 = s1
  s2 = s2
  s3 = s3
  Server = {s1,s2,s3}
  Members = {s1,s2,s3}
  First = s1
  Down = {}
  None = None
  Command = {}
  Faults = {"lateReply"}
  MaxElections = 4
  MaxTerm = 2
  MaxLogLen = 2
  MaxTicks = 0
  MaxCrashes = 0
  MaxChanges = 0
SPECIFICATION Spec
CHECK_DEADLOCK FALSE
SYMMETRY AllAlike
INVARIANTS ElectionSafety
