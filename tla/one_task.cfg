\* One task of two clones, three nodes: two behind one address that may have
\* a second connection, and a third that sends TASK_EVICTION.
CONSTANTS
  t1 = t1 t2 = t2 n1 = n1 n2 = n2 n3 = n3 a = a b = b T1 = T1 ip1 = ip1
  NoNode = NoNode NoReport = NoReport
  Tasks = {t1}
  Nodes = {n1, n2, n3}
  EvictingNodes = {n3}
  Reconnecting = {n1, n2}
  Values = {a, b}
  Agree <- Equality
  Tiers = {T1}
  TaskTier <- OneTier
  NodeTier <- NodesOneTier
  IPs <- SharedIps
  NodeIp <- SharedIp
  MaxDepth = 3
  ClonesPerTask = 2
  ConsensusMajority = 2
SPECIFICATION Spec
SYMMETRY OneTaskSymmetry
INVARIANT TypeOK
INVARIANT OnePlace
INVARIANT AntiAffinity
PROPERTY IpAntiAffinity
INVARIANT AssignmentsFollowHolders
INVARIANT NoCloneLost
PROPERTY VerdictStable
CHECK_DEADLOCK FALSE
