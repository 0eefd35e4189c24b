\* One task of three clones, three nodes, and no statement fails.
CONSTANTS
  t1 = t1 n1 = n1 n2 = n2 n3 = n3 NoRun = NoRun
  Tasks = {t1}
  Copies = 3
  ConsensusMajority = 2
  Nodes = {n1, n2, n3}
  DatabaseFails = FALSE
SPECIFICATION PaymentsSpec
SYMMETRY Symmetry
INVARIANT CorrectNodesPaid
CHECK_DEADLOCK FALSE
