\* The process dies with its tasks.
CONSTANTS
  t1 = t1 t2 = t2 n1 = n1 n2 = n2 n3 = n3 a = a b = b T1 = T1 ip1 = ip1
  NoNode = NoNode NoReport = NoReport
  Tasks = {t1}
  Nodes = {n1, n2}
  EvictingNodes = {}
  Reconnecting = {}
  Values = {a}
  Agree <- Equality
  Tiers = {T1}
  TaskTier <- OneTier
  NodeTier <- NodesOneTier
  IPs = {n1, n2}
  NodeIp <- OwnIps
  MaxDepth = 3
  ClonesPerTask = 3
  ConsensusMajority = 2
SPECIFICATION FairSpec
PROPERTY EveryTaskIsAnswered
CHECK_DEADLOCK FALSE
