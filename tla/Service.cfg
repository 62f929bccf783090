SPECIFICATION FairSpec
CONSTANTS
  a1 = a1
  a2 = a2
  k = k
  Envelopes = {a1, a2, k}
  Source <- MCSource
  Id <- MCId
  Disturbances = {"crash", "disk", "listen"}
INVARIANTS
  TypeOK
  AnsweredIsRecorded
  SentIsRecorded
  AgentLogsGoUp
PROPERTY
  ShutdownEnds
