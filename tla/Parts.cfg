SPECIFICATION Spec
CONSTANTS
  c1 = c1
  c2 = c2
  s1 = s1
  s2 = s2
  q1 = q1
  q2 = q2
  r1 = r1
  Caller <- Callers
  MarkTTL = 2
  MaxMarkTime = 7
  MaxCleaners = 3
  BatchKey = {k1}
  WindowTTL = 1
  AddDelay = 1
  MaxWindowTime = 5
  MaxWindows = 3
  Selector = {s1, s2}
  Query = {q1, q2}
  Resource = {r1}
  Terms <- MCTerms
  Finds <- MCFinds
  Pinned <- MCPinned
  Address = {a1, a2}
  ResolverTTL = 1
  ResolveDelay = 0
  MaxResolveTime = 2
  Zone <- MCZone
  Configured <- MCZone
  Pools <- MCPools
  Volatile <- MCVolatile
  Steady <- MCSteady
  OfferingsTTL = 1
  ListDelay = 0
  MaxListTime = 3
  Specs <- MCSpecs
  MaxTerms = 2
  MaxDataDisks = 2
  Types <- MCTypes
  Installed = {"terway-eniip", "kube-flannel-ds"}
  Mask = {26}
  PerMille = 50
  FixedMemory = 51
  MaxStarts = 2
  Claims <- MCClaims
  TypeLists <- MCTypeLists
  NodeClasses <- MCNodeClasses
SYMMETRY Symmetry
INVARIANTS TypeOK MarkLasts RefusedOnlyByClose MapIsOfOpen AnswerIsRecent OfferingsAreRecent Reappliable DisksAsSent StoredCanLaunch ClaimAsPlanned LabelsMeetClaim
PROPERTY LaunchesOnce
CHECK_DEADLOCK FALSE
