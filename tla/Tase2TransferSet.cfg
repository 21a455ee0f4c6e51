\* Two clients, two transfer sets, two points, three ways to enable a set,
\* one event in a queue, two outstanding critical reports.
SPECIFICATION FairSpec
CONSTANTS
  a = a
  b = b
  p = p
  q = q
  Connection = {a, b}
  NoConnection = NoConnection
  MaxSet = 2
  Point = {p, q}
  Refused = Refused
  Config <- Configs
  MaxEvents = 1
  MaxReports = 2
  MaxAnswers = 1
INVARIANTS
  TypeOK
  SetsReleased
  ChangeOwed
PROPERTIES
  EnabledKeepsClient
  ContextKept
  ChangeReported
\* The program may crash.
CHECK_DEADLOCK FALSE
