SPECIFICATION FairSpec
CONSTANTS
  Tabs = {t1, t2}
  Ids = {c1}
  Absent = Absent
INVARIANTS
  TypeOK
  NothingOpensEarly
  UnsealingHasJob
  RenderedIsStored
PROPERTIES
  UpdatesLoseNothing
  DueCapsulesSettle
