SPECIFICATION FairSpec
CONSTANTS
  e1 = e1
  e2 = e2
  s1 = s1
  s2 = s2
  s3 = s3
  NoStream = NoStream
  Starter = Starter
  Looper = Looper
  Retrier = Retrier
  Unlocked = Unlocked
  Envelopes <- MCTwoEnvelopes
  Streams <- MCTwoStreams
  Window = 1
  Disturbances = {"network"}
PROPERTIES
  QueueDrains
  SettledDelivers
CHECK_DEADLOCK FALSE
