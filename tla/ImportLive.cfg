\* One import always fails, is unreadable or has no protocol, the other is importable;
\* queues on this machine or on another; a queue, the store or a submitter fails once.
SPECIFICATION FairSpec
CONSTANTS
  m1 = m1
  m2 = m2
  m3 = m3
  Message = {m1, m2}
  NoMessage = NoMessage
  QueueName = {"HIGH", "NORMAL", "LOW", "ERROR"}
  Aside = "ERROR"
  Corruptible = {m1}
  NoProtocol = {m1}
  RemoteSettings = {FALSE, TRUE}
  FaultKind = {"queue", "store", "submitter"}
  MaxFaults = 1
  MaxResubmits = 1
  Outcomes <- OneFails
PROPERTY InvalidBlocksNobody
