SPECIFICATION FairSpec
CONSTANTS
  c1 = c1
  c2 = c2
  c3 = c3
  Anonymous = ""
  Children <- MCOneChild
  Claim <- MCClaimOne
  CommonName <- MCCommonNameOne
  Initial = {}
  Revocable = {}
  Generations = 1
PROPERTY EntryDisappears
