\* A TCP connect that fails at once: does connecting again help?
SPECIFICATION FairSpec
CONSTANTS
  a = a
  b = b
  Caller = {a}
  MaxCalls = 1
  Faults = {"startup"}
  MaxRequests = 1
PROPERTIES
  Reconnects
