SPECIFICATION FairSpec
CONSTANTS
  Conns = {c1, c2, c3}
  Depth = 1
  Methods = {"plain", "oversized", "panicking", "__exit"}
  None = None
INVARIANT TypeOK
INVARIANT CallsAccountedFor
INVARIANT SoloCallersGetOwnReply
PROPERTY CallsAnswered
PROPERTY RefinesCallPool
CHECK_DEADLOCK FALSE
