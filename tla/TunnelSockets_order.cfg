SPECIFICATION Spec
CONSTANTS
  Ws = {w1}
  Frames = 3
CHECK_DEADLOCK FALSE
INVARIANT LocalReceivesInOrder
