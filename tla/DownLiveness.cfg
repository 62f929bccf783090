SPECIFICATION FairSpec
CONSTANTS
  c1 = c1
  c2 = c2
  s1 = s1
  s2 = s2
  s3 = s3
  NoStream = NoStream
  All = All
  Anonymous = ""
  Children <- MCOneChild
  Claim <- MCClaimOne
  Streams <- MCTwoStreams
  BufSize = 1
  Window = 1
  MaxSends = 2
  Disturbances = {"network", "approval", "close"}
PROPERTIES
  ImplementsLink
  DownstreamComesBack
  EnqueuedArrives
CHECK_DEADLOCK FALSE
