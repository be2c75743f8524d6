CONSTANTS
  s1 = s1
  s2 = s2
  s3 = s3
  Server = {s1,s2,s3}
  Members = {s1,s2}
  First = s1
  Down = {}
  None = None
  Command = {}
  Faults = {}
  MaxElections = 1
  MaxTerm = 1
  MaxLogLen = 4
  MaxTicks = 3
  MaxCrashes = 0
  MaxChanges = 2
SPECIFICATION SpecLed
CHECK_DEADLOCK FALSE
INVARIANTS ConfigFollowsLog
