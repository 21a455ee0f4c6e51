\* Two exports, two faults of any kind, queues on this machine or on another,
\* any body unreadable.
SPECIFICATION Spec
CONSTANTS
  m1 = m1
  m2 = m2
  m3 = m3
  Message = {m1, m2}
  NoMessage = NoMessage
  QueueName = {"HIGH", "NORMAL", "LOW"}
  Aside = "LOW"
  Corruptible = {m1, m2}
  RemoteSettings = {FALSE, TRUE}
  FaultKind = {"database", "queue", "store", "loss", "producer", "operator", "abort", "crash"}
  MaxFaults = 2
  Outcomes <- AnyOutcome
SYMMETRY Sym
INVARIANTS
  TypeOK
  NoMessageLost
  PayloadWhileQueued
  DeliveredIsLogged
  ResendOnlyAfterFault
  RetriedLast
PROPERTY DeliverySpec
