\* Two callers, a table of one call, two requests per connection, all faults.
SPECIFICATION FairSpec
CONSTANTS
  a = a
  b = b
  Caller = {a, b}
  MaxCalls = 1
  Faults = {"startup", "reject", "initiate", "late", "conclude"}
  MaxRequests = 2
INVARIANTS
  TypeOK
  BufferOwned
  ConnectionAlive
  CalledBackOnce
PROPERTIES
  CallsReturn
  ReconnectsUnlessFaulted
\* An unreadable initiate response, and a conclude response, block the tick thread for ever.
CHECK_DEADLOCK FALSE
