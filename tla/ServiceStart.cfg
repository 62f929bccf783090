SPECIFICATION Spec
CONSTANTS
  a1 = a1
  a2 = a2
  k = k
  Envelopes = {k}
  Source <- MCSourceChild
  Id <- MCIdChild
  Disturbances = {}
INVARIANT ChildLogsGoUp
