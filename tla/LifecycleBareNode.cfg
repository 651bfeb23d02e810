SPECIFICATION Spec
CONSTANTS
  Claim = {c1}
  NumInstances = 1
  NumTags = 1
  ManagedBy = 1
  MaxTagsPerRequest = 1
  PageSize = 2
  MaxRestarts = 0
PROPERTIES
  NodeOfNoClaimKept
