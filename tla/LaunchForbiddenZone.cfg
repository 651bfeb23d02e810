SPECIFICATION Spec
CONSTANTS
  Claims <- MCClaims
  TypeLists <- MCTypeLists
  NodeClasses <- MCNodeClasses
INVARIANT LaunchInRequiredZone
CHECK_DEADLOCK FALSE
