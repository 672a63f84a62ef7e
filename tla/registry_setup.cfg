\* Two builds of one chaincode, several setups in a block.
SPECIFICATION FairSpec
CONSTANTS
  Chaincodes = {"c", "d"}
  Enclaves = {"c1", "c2", "c3", "c4", "d1", "x1"}
  Of <- MCOf
  Mr <- MCMr
  FileMr <- MCFileMr
  Genuine = {"c1", "c2", "c3", "c4", "d1"}
  MaxBlock = 3
  MaxCalls = 4
  Absent = Absent
INVARIANTS TypeOK RegisteredCodeIsCommitted PluginChecksFile AcceptedAfterRegistration
PROPERTIES MrEnclaveFixed MrEnclaveDefined
CHECK_DEADLOCK FALSE
