SPECIFICATION FairSpec
CONSTANTS
  x = x
  y = y
  Top = 3
  Logs = {x, y}
  Origin <- MCOrigin
INVARIANTS
  TypeOK
  HandledOnce
  TrailComplete
PROPERTIES
  EachHopTransfers
  EndToEnd
  NothingStuck
