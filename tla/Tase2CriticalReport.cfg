\* Two critical reports are outstanding, the client answers the first one:
\* is the second one still waited for?
SPECIFICATION Spec
CONSTANTS
  a = a
  b = b
  p = p
  q = q
  Connection = {a}
  NoConnection = NoConnection
  MaxSet = 1
  Point = {p, q}
  Refused = Refused
  Config <- CriticalOnly
  MaxEvents = 1
  MaxReports = 2
  MaxAnswers = 1
PROPERTY AckConfirmsItsReport
\* The program may crash.
CHECK_DEADLOCK FALSE
