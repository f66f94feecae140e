SPECIFICATION Spec
CONSTANTS
  Id = {i1}
  Entry = {e1, e2}
  Req = {r1, r2}
  None = None
CHECK_DEADLOCK FALSE
INVARIANT HeldByRegistered
