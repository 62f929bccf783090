SPECIFICATION Spec
CONSTANTS
  c1 = c1
  c2 = c2
  s1 = s1
  s2 = s2
  s3 = s3
  NoStream = NoStream
  All = All
  Anonymous = ""
  Children <- MCTwoChildren
  Claim <- MCClaimMixed
  Streams <- MCThreeStreams
  BufSize = 1
  Window = 1
  MaxSends = 2
  Disturbances = {"network"}
SYMMETRY MCSymmetry
INVARIANTS
  TypeOK
  InOrderOnce
  OneReceiver
  RegistryMatchesHandlers
  NoMisroute
CHECK_DEADLOCK FALSE
