CONSTANTS
  p1 = p1
  p2 = p2
  Page = {p1,p2}
  Admin = p1
  Loaded = {p2}
  NodeAddress = {a1,a2}
  FirstAddress = a1
  AdminClicks = 3
  MaxClicks <- Clicks
SPECIFICATION WebappSpec
CHECK_DEADLOCK FALSE
INVARIANTS WebappTypeOK RunsOnce FlagIsRunning SwitchShowsFlag AckIsHeard
PROPERTIES Released RunningListens
