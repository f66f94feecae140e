SPECIFICATION SessionsHubSpec
CONSTANTS
  Sid = {s1}
  Entry = {e1, e2}
  Conn = {c1, c2}
  Target = {root}
  Root = root
  None = None
  TTL = 1
  HbTTL = 1
  Interval = 1
  SupersedeExisting = TRUE
  Ip = {a1}
  User = {u1}
  Host = {h1}
  Req = {q1, q2}
  Tunnel = {t1, t2, t3}
  Invite = {i1}
  Limit = 1
  Window = 2
  Ttl = 1
  MaxTime = 2
SYMMETRY Symmetry
CHECK_DEADLOCK FALSE
INVARIANTS ReferenceHasHandler RegisteredHasContext LimiterHolds InviteOpensOnce RunningTunnelIsKnown
