\* Two JOIN_CHANNEL calls, every form of transaction.
SPECIFICATION FairSpec
CONSTANTS
  Keys = {1, 3, 4}
  Values = {"a", "b"}
  Absent = Absent
  Ns <- MCNs
  Composite <- MCComposite
  Shapes <- AnyShapes
  Callers = {c1, c2}
  MaxBlocks = 3
  MaxTxs = 1
  MaxCrashes = 1
INVARIANTS EntriesHaveOrigin OneReaderCommits 
PROPERTIES NoRollback CatchesUp
CHECK_DEADLOCK FALSE
