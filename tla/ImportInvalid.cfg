\* One import cannot be read; no faults.
SPECIFICATION Spec
CONSTANTS
  m1 = m1
  m2 = m2
  m3 = m3
  Message = {m1, m2}
  NoMessage = NoMessage
  QueueName = {"HIGH", "NORMAL", "LOW", "ERROR"}
  Aside = "ERROR"
  Corruptible = {m1}
  NoProtocol = {}
  RemoteSettings = {FALSE}
  FaultKind = {}
  MaxFaults = 0
  MaxResubmits = 0
  Outcomes <- AnyOutcome
INVARIANT InvalidIsPutAside
