\* Two tasks and a node; statements fail.
CONSTANTS
  t1 = t1 t2 = t2 n1 = n1
  Tasks = {t1, t2}
  Copies = 1
  Nodes = {n1}
  DatabaseFails = TRUE
SPECIFICATION RowsSpec
SYMMETRY Symmetry
INVARIANT RowsReached
INVARIANT RecoverySweeps
INVARIANT SubmissionCompletes
CHECK_DEADLOCK FALSE
