SPECIFICATION Spec
CONSTANTS
  Session = {s1, s2}
  Conn = {c1, c2}
  Reaper = reaper
  MaxToggles = 1
  None = None
CHECK_DEADLOCK FALSE
INVARIANT ConnectedCountIsLive
