\* Three results, as deployed: a chain of numbers and texts of every kind.
CONSTANTS
  zero = zero half = half one = one quoted = quoted date1 = date1 date2 = date2
  list = list infinity = infinity empty = empty
  NoNumber = NoNumber Infinite = Infinite
  Outputs = {zero, half, one, quoted, date1, date2, list, infinity, empty}
  Empty = empty
  Json <- Kinds
  Prefix <- Values
  Tolerance = 2
  ClonesPerTask = 3
  ConsensusMajority = 2
SPECIFICATION Spec
INVARIANT ChoiceAllowed
INVARIANT HashMajorityPaid
INVARIANT OrderIrrelevant
INVARIANT MiddleIsPaid
CHECK_DEADLOCK FALSE
