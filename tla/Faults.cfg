CONSTANTS
  s1 = s1
  s2 = s2
  Server = {s1,s2}
  Members = {s1,s2}
  First = s1
  Down = {}
  None = None
  c1 = c1
  Command = {c1}
  Faults = {"lateReply", "staleTick", "stopRun", "carelessAdmin"}
  MaxElections = 2
  MaxTerm = 2
  MaxLogLen = 3
  MaxTicks = 2
  MaxCrashes = 1
  MaxChanges = 1
SPECIFICATION SpecLed
CHECK_DEADLOCK FALSE
INVARIANTS LogTermsOrdered LeaderLastEntryOwnTerm
PROPERTIES TermMonotonic
