SPECIFICATION Spec
CONSTANTS
  s1 = s1
  s2 = s2
  q1 = q1
  q2 = q2
  r1 = r1
  r2 = r2
  Caller = {c1}
  Selector = {s1, s2}
  Query = {q1, q2}
  Resource = {r1, r2}
  Terms <- MCTerms
  Finds <- MCFinds
  Pinned = {s1, s2}
  Address = {a1}
  CachesEmpty = TRUE
  TTL = 2
  Delay = 1
  MaxTime = 3
INVARIANT AnswerIsOfSelector
CHECK_DEADLOCK FALSE
