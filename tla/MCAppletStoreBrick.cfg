SPECIFICATION FairSpec
CONSTANTS
  long = long
  short = short
  unloadable = unloadable
  junk = junk
  Uploads = {u1, u2}
  Elfs = {long, unloadable}
  Blocks <- BlocksOf
  Wellformed = {long, unloadable}
  Loadable = {long}
  Blank = Blank
  Embedded = Embedded
  None = None
PROPERTY SelfRecovers
CHECK_DEADLOCK FALSE
