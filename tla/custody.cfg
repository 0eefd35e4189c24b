\* Two tasks of two clones whose queue has room for three.
CONSTANTS
  t1 = t1 t2 = t2 n1 = n1 n2 = n2 n3 = n3 a = a b = b T1 = T1 ip1 = ip1
  NoNode = NoNode NoReport = NoReport
  Tasks = {t1, t2}
  Nodes = {n1, n2}
  EvictingNodes = {}
  Reconnecting = {}
  Values = {a}
  Agree <- Equality
  Tiers = {T1}
  TaskTier <- OneTier
  NodeTier <- NodesOneTier
  IPs = {n1, n2}
  NodeIp <- OwnIps
  MaxDepth = 3
  ClonesPerTask = 2
  ConsensusMajority = 2
SPECIFICATION Spec
SYMMETRY TaskAndNodeSymmetry
PROPERTY ImplementsCustody
CHECK_DEADLOCK FALSE
