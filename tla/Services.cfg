SPECIFICATION ServicesSpec
CONSTANTS
  Id = {i1, i2}
  Entry = {e1, e2}
  Req = {r1, r2}
  Session = {s1, s2}
  Socket = {w1, w2}
  Call = {c1}
  MaxMessages = 1
  Tab = {p1, p2}
  Code = {k1, k2}
  HostKey = {y1, y2}
  MaxLinks = 2
  Ttl = 1
  MaxTime = 2
  None = None
CHECK_DEADLOCK FALSE
INVARIANTS IdentityFindsOwn ReleasedWithSession RepliesGoToTheAsker ConnectedKnowsCode SecurePageIsHeard TokenLivesWithItsPage
PROPERTY CommandMeetsItsSession
