SPECIFICATION FairSpec
CONSTANTS
  a1 = a1
  a2 = a2
  a3 = a3
  s1 = s1
  s2 = s2
  s3 = s3
  Article <- MCArticle
  Server <- MCServer
  Target <- MCTarget
  Offline <- MCOffline
  Child = {c1}
  Updater = {u1, u2}
  Retries = 1
  NoArticle = NoArticle
INVARIANTS
  NoneLost
  ExclusiveHands
  NoNeedlessSend
  RejectedIsOver
PROPERTIES
  ClientAnswered
  DeliveredOrBad
CHECK_DEADLOCK FALSE
