SPECIFICATION FairSpec
CONSTANTS
  SpecOf <- SpecsApart
  NoRole = "none"
  AttachLimit = 2
  Fallible = {"SecurityGroupResolved"}
  MaxReleases = 2
  MaxLag = 1
  Claim = {c1}
INVARIANTS
  TypeOK
  ReadyOfOneSpec
  InstanceOfOneSpec
PROPERTIES
  SpecKept
  StatusSettles
  DriftSettles
CHECK_DEADLOCK FALSE
