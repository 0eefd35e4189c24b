\* Two daemons, one whose profile gives no tier; two work items.
CONSTANTS
  n1 = n1 n2 = n2 s1 = s1 s2 = s2 c1 = c1 c2 = c2
  NoNode = NoNode NoSocket = NoSocket
  Nodes = {n1, n2}
  Sockets = {s1, s2}
  Clones = {c1, c2}
  Trusted = {n1}
  Profiled = {n1}
  Capacity = 1
  MaxSteals = 2
SPECIFICATION FairSpec
PROPERTY HeldIsSettled
PROPERTY WorkFlows
INVARIANT TypeOK
INVARIANT StealsRegistered
INVARIANT RegistryLive
INVARIANT WorkAgreed
INVARIANT OneAnswer
INVARIANT InProgressExact
CHECK_DEADLOCK FALSE
