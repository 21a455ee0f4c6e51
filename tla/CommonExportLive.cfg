\* There is never a rule for one export, two others are accepted,
\* queues on this machine or on another; the database fails once.
SPECIFICATION FairSpec
CONSTANTS
  m1 = m1
  m2 = m2
  m3 = m3
  Message = {m1, m2, m3}
  NoMessage = NoMessage
  QueueName = {"HIGH", "NORMAL", "LOW"}
  Aside = "LOW"
  Corruptible = {}
  RemoteSettings = {FALSE, TRUE}
  FaultKind = {"database"}
  MaxFaults = 1
  Outcomes <- NoRule
PROPERTY MissingRuleBlocksNobody
