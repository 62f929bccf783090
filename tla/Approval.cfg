SPECIFICATION FairSpec
CONSTANTS
  c1 = c1
  c2 = c2
  c3 = c3
  Anonymous = ""
  Children <- MCThreeChildren
  Claim <- MCClaim
  CommonName <- MCCommonName
  Initial = {"a"}
  Revocable = {"a"}
  Generations = 1
INVARIANTS
  TypeOK
  OnlyApprovedConnect
PROPERTIES
  KnockingIsSeen
  ApprovedGetsIn
