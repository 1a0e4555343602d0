SPECIFICATION Spec
CONSTANTS
  Nothing = Nothing
  Obj = {a, b, c}
  Fin = {a}
  Budget = 3
  SelfTouch = FALSE
  MaxOps = 1
  MaxEdges = 3
CHECK_DEADLOCK FALSE
INVARIANT ReachableIsLive
