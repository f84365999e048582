SPECIFICATION Spec
CONSTANTS
  Cases = {"set", "objects", "ids", "faults", "lost key", "codec", "race"}
  Credentials <- MCCredentials
  FewCredentials <- MCFewCredentials
  PinStates <- MCPinStates
  Counters <- MCCounters
  Arrays <- MCArrays
  Attestations <- MCAttestations
  Rps = {"a", "b"}
  Algs <- MCAlgs
  MaxOrder = 4
  MaxKeys = 4
  MaxFaults = 2
  MaxSteps = 3
  MaxMade = 2
  MaxCredentials = 2
  U32_MAX = 1000
  U64_MAX = 2000
  MaxEdits = 2
  Callers = {"p", "q"}
  MaxInodes = 4
INVARIANTS RoundTrips KeyOfItsEra StoresAgree MadeIsFound
CHECK_DEADLOCK FALSE
