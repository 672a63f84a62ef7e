\* Any accesses, values and range results that do not fit or are not listed, a ledger
\* enclave behind or ahead.
SPECIFICATION Spec
CONSTANTS
  Keys = {"k", "c1", "c2"}
  Composite = {"c1", "c2"}
  Prefixes = {"all", "one"}
  Match <- MCMatch
  Values = {"a", "big"}
  Large = {"big"}
  RangeText <- MCRangeText
  MaxRange = 2
  RawLimit = 1
  Functions = {"invoke", "__init"}
  MaxOps = 2
  MaxMoves = 1
  Absent = Absent
INVARIANTS TypeOK  MismatchDetected
CHECK_DEADLOCK FALSE
