SPECIFICATION PeersSpec
CONSTANTS
  Offer = {o1, o2}
  Session = {b1}
  Ids = 1
  Opened = 2
  Texts = 1
  Images = 2
  None = None
CHECK_DEADLOCK FALSE
INVARIANTS PeersServeTheirSessions FramesReachTheirSocket ProxyInv
PROPERTIES CloseReachesOtherSide NewestImageArrives
