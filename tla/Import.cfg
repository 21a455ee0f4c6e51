\* Two imports, two faults of the queue, the store or the process, queues on this machine or on another,
\* any body unreadable, any protocol missing.
SPECIFICATION Spec
CONSTANTS
  m1 = m1
  m2 = m2
  m3 = m3
  Message = {m1, m2}
  NoMessage = NoMessage
  QueueName = {"HIGH", "NORMAL", "LOW", "ERROR"}
  Aside = "ERROR"
  Corruptible = {m1, m2}
  NoProtocol = {m1, m2}
  RemoteSettings = {FALSE, TRUE}
  FaultKind = {"queue", "store", "loss", "crash"}
  MaxFaults = 2
  MaxResubmits = 1
  Outcomes <- AnyOutcome
SYMMETRY Sym
INVARIANTS
  TypeOK
  NoImportLost
  ImportedOncePerFault
  SingleCopy
  PayloadUntilHandled
PROPERTY DeliverySpec
