SPECIFICATION FairSpec
CONSTANTS
  Requests = {panel, other}
  Panel = panel
  Loads = {l1, l2}
  MaxRecords = 3
  Length <- RecordLength
  MaxLen = 3
  MaxEntries = 2
  Nothing = Nothing
INVARIANTS
  PanelTypeOK
  RowsFit
  AcknowledgedIsKept
  ReadsAgree
  PanelIsCurrent
CONSTRAINT OneAtATime
PROPERTY PublicationsAnswered
