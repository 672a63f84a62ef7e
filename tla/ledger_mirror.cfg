\* Two JOIN_CHANNEL calls, transactions that read what they write.
SPECIFICATION Spec
CONSTANTS
  Keys = {1, 2}
  Values = {"a", "b"}
  Absent = Absent
  Ns <- MCNs
  Composite <- MCComposite
  Shapes <- PlainShapes
  Callers = {c1, c2}
  MaxBlocks = 3
  MaxTxs = 2
  MaxCrashes = 0
INVARIANTS TypeOK MirrorsPeer NoBlockLost
PROPERTIES ImplementsView
CHECK_DEADLOCK FALSE
