CONSTANTS
  s1 = s1
  s2 = s2
  s3 = s3
  s4 = s4
  s5 = s5
  s6 = s6
  Server = {s1,s2,s3,s4,s5,s6}
  None = None
  Command = {}
  Self = s2
  LeaderLogs <- LogsOfThree
  InitialPeers <- PeersOfS2
  MaxRequests = 4
  MaxCrashes = 2
  MaxFailures = 1
  MaxRemovals = 1
SPECIFICATION ListSpec
CHECK_DEADLOCK FALSE
INVARIANTS ListTypeOK LastIndexAgrees PrefixOfALeader AcceptedIsStored StatusFollowsLog RewindFindsEnd
PROPERTIES DurableSpec
