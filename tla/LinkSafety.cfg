SPECIFICATION Spec
CONSTANTS
  e1 = e1
  e2 = e2
  s1 = s1
  s2 = s2
  s3 = s3
  NoStream = NoStream
  Starter = Starter
  Looper = Looper
  Retrier = Retrier
  Unlocked = Unlocked
  Envelopes <- MCTwoEnvelopes
  Streams <- MCThreeStreams
  Window = 2
  Disturbances = {"network", "approval", "close", "cancel"}
SYMMETRY MCSymmetry
INVARIANTS
  TypeOK
  AtMostOnce
  SendSerialized
  MutexNotForgotten
  NoOrphanConn
  ReopenUnderMutexLosesNothing
PROPERTY ImplementsTransfer
CHECK_DEADLOCK FALSE
