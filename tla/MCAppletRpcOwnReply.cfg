SPECIFICATION Spec
CONSTANTS
  Conns = {c1, c2}
  Depth = 1
  Methods = {"plain"}
  None = None
INVARIANT ReplyGoesToItsCaller
CHECK_DEADLOCK FALSE
