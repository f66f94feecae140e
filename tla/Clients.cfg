SPECIFICATION ClientsSpec
CONSTANTS
  Sock = {s1, s2}
  MaxAttempts = 3
  MaxStray = 1
  None = None
  Devices = {d1, d2}
  MaxPending = 2
  Ttl = 1
  Interval = 1
  MinPoll = 2
  GrantTtl = 1
  MaxFaults = 1
  Viewers = {v1, v2}
  Impatient = {v2}
CHECK_DEADLOCK FALSE
INVARIANTS SoleSocket NeverStuck WishIsKnown SignalingInv LoneViewerGetsOwnAnswer
PROPERTIES ZombieIsReplaced PolledRequestsLeave LoneViewerIsAnswered
