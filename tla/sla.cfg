\* The event loop settles a task with its timers, and nodes that stay decide it.
CONSTANTS
  t1 = t1 t2 = t2 n1 = n1 n2 = n2 n3 = n3 a = a b = b T1 = T1 ip1 = ip1
  NoNode = NoNode NoReport = NoReport
  Tasks = {t1}
  Nodes = {n1, n2, n3}
  EvictingNodes = {}
  Reconnecting = {}
  Values = {a, b}
  Agree <- Equality
  Tiers = {T1}
  TaskTier <- OneTier
  NodeTier <- NodesOneTier
  IPs = {n1, n2, n3}
  NodeIp <- OwnIps
  MaxDepth = 3
  ClonesPerTask = 3
  ConsensusMajority = 2
SPECIFICATION HandlerSpec
INVARIANT RunsSeeAllResults
INVARIANT OneVerdict
INVARIANT SlashesHaveMajority
PROPERTY EventuallySettled
PROPERTY SwarmDecides
PROPERTY FullReportDecided
PROPERTY ImplementsLifecycle
CHECK_DEADLOCK FALSE
