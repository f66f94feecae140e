SPECIFICATION FairSpec
CONSTANTS
  Sid = {s1}
  Entry = {e1}
  Conn = {c1, c2}
  Target = {root, app}
  Root = root
  None = None
  TTL = 1
  HbTTL = 1
  Interval = 1
  SupersedeExisting = TRUE
PROPERTIES SweepSparesLiveConnection SilentSessionIsRemoved ClosedConnectionIsReleased
