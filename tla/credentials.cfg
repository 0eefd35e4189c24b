\* Three accounts, two of which may pair nodes; two keys, nodes and codes.
CONSTANTS
  u1 = u1 u2 = u2 u3 = u3 k1 = k1 k2 = k2 n1 = n1 n2 = n2 c1 = c1 c2 = c2 r1 = r1 r2 = r2
  NoUser = NoUser NoNode = NoNode
  Users = {u1, u2, u3}
  Providers = {u1, u2}
  Keys = {k1, k2}
  Nodes = {n1, n2}
  Codes = {c1, c2}
  Requests = {r1, r2}
SPECIFICATION Spec
SYMMETRY Symmetry
INVARIANT RevocationHolds
INVARIANT PairingKept
CHECK_DEADLOCK FALSE
