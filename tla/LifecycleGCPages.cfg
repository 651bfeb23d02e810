SPECIFICATION Spec
CONSTANTS
  Claim = {c1}
  NumInstances = 2
  NumTags = 1
  ManagedBy = 1
  MaxTagsPerRequest = 1
  PageSize = 1
  MaxRestarts = 0
PROPERTIES
  InstanceInUseKept
