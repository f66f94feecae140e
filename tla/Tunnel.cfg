SPECIFICATION TunnelSpec
CONSTANTS
  Tun = {t1, t2}
  Req = {r1}
  None = None
  MaxChunks = 2
  Ws = {w1}
  Frames = 3
CHECK_DEADLOCK FALSE
INVARIANTS AnswerIsComplete NothingLeftBehind BrowserReceivesInOrder
PROPERTIES EveryRequestEnds CloseReachesOtherSide
