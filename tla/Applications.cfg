SPECIFICATION ApplicationsSpec
CONSTANTS
  Obj = {o1}
  Call = {d1, d2, d3}
  None = None
  Ttls = {0, 1, 2, 3}
  MaxTtl = 2
  Second = 2
  MaxTime = 5
  Apps = {a1, a2}
  Browsers = {b1}
  Tokens = {t1, t2}
  Creds = {c1, c2}
  LinkTtls = {0, 2}
  PairTtl = 2
  LinkTime = 4
  Session = {s1, s2}
  Conn = {w1, w2}
  Reaper = reaper
  MaxToggles = 1
  R1 = r1
  R2 = r2
  R3 = r3
  MaxHandlers = 2
  MaxIncludes = 2
SYMMETRY Symmetry
CHECK_DEADLOCK FALSE
INVARIANTS FoundInTimeAndOnce LastsUntilExpiry RedeemedOnce GrantLivesAsLink BoardIsCurrent DispatchFindsOwner
PROPERTY ImplementsExchange
