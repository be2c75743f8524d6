CONSTANTS
  s1 = s1
  s2 = s2
  Server = {s1,s2}
  Members = {s1,s2}
  First = s1
  Down = {}
  None = None
  c1 = c1
  Command = {c1}
  Faults = {}
  MaxElections = 1
  MaxTerm = 1
  MaxLogLen = 3
  MaxTicks = 3
  MaxCrashes = 0
  MaxChanges = 0
SPECIFICATION SpecLed
CHECK_DEADLOCK FALSE
INVARIANTS CommittedIsApplied
