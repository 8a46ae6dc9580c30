SPECIFICATION FairSpec
CONSTANTS
  long = long
  short = short
  unloadable = unloadable
  junk = junk
  Uploads = {u1, u2, u3}
  Elfs = {long, short, unloadable, junk}
  Blocks <- BlocksOf
  Wellformed = {long, short, unloadable}
  Loadable = {long, short}
  Blank = Blank
  Embedded = Embedded
  None = None
INVARIANT TypeOK
INVARIANT RunsOnlyWholeApplets
PROPERTY UndisturbedUploadRuns
PROPERTY SelfRecoversIfLoadable
CHECK_DEADLOCK FALSE
