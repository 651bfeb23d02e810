SPECIFICATION FairSpec
CONSTANTS
  Claim = {c1}
  NumInstances = 1
  NumTags = 2
  ManagedBy = 1
  MaxTagsPerRequest = 1
  PageSize = 2
  MaxRestarts = 1
INVARIANTS
  RemovedOnlyWhenGone
  TaggedOnlyWhenComplete
PROPERTIES
  DeletedClaimRemoved
  LaunchedClaimTagged
  LostNodeDeleted
