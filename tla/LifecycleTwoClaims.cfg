SPECIFICATION Spec
CONSTANTS
  Claim = {c1, c2}
  NumInstances = 2
  NumTags = 1
  ManagedBy = 1
  MaxTagsPerRequest = 1
  PageSize = 2
  MaxRestarts = 0
CONSTRAINT NoTagging
SYMMETRY ClaimSymmetry
INVARIANTS
  TypeOK
  InstanceOfOneClaim
PROPERTIES
  InstanceInUseKept
  NodeInUseKept
