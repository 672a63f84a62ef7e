\* A second JOIN_CHANNEL call: the assertion of commit_state_updates.
SPECIFICATION Spec
CONSTANTS
  Keys = {1}
  Values = {"a", "b"}
  Absent = Absent
  Ns <- MCNs
  Composite <- MCComposite
  Shapes <- CounterShapes
  Callers = {c1, c2}
  MaxBlocks = 3
  MaxTxs = 1
  MaxCrashes = 0
INVARIANTS CommitAssertion
CHECK_DEADLOCK FALSE
