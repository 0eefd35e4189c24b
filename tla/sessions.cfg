\* One account, logins from two addresses, three requests at a time.
CONSTANTS
  e1 = e1 a1 = a1 a2 = a2 r1 = r1 r2 = r2 r3 = r3
  Emails = {e1}
  Addresses = {a1, a2}
  Requests = {r1, r2, r3}
  Limit = 2
  MaxFailures = 4
  KeysFromEnvironment = TRUE
SPECIFICATION Spec
SYMMETRY Symmetry
INVARIANT LoginLimits
INVARIANT SessionsVerified
CHECK_DEADLOCK FALSE
