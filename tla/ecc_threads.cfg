\* Three goroutines compete for two permits; two setups, a failure and a restart.
SPECIFICATION FairSpec
CONSTANTS
  Threads = {t1, t2, t3}
  None = None
  TCS = 2
  MaxSetups = 2
  MaxIndex = 2
  MaxFailures = 1
  MaxCrashes = 1
INVARIANTS TypeOK TcsBound PermitsAccounted OwnStubs
PROPERTIES Responds
CHECK_DEADLOCK FALSE
