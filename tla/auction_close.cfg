\* Bids, closes and evaluations that overlap.
SPECIFICATION Spec
CONSTANTS
  Order <- MCOrder
  Values <- MCValues
  MaxCalls = 8
  Absent = Absent
INVARIANTS TypeOK OutcomeOfBidsAtClose
CHECK_DEADLOCK FALSE
