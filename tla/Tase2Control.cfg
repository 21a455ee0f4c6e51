\* Two clients with tables of their own, a device of each class, five clock ticks.
SPECIFICATION Spec
CONSTANTS
  c1 = c1
  c2 = c2
  b1 = b1
  b2 = b2
  dev = dev
  direct = direct
  Connection = {c1, c2}
  Blt = {b1, b2}
  NoBlt = NoBlt
  Domain = {"icc1"}
  Vcc = "VCC"
  BltOf <- BltOfClient
  BltDomain <- DomainOfBlt
  BltEntry <- Entries
  ControlPoint = {dev, direct}
  DomainOf <- DomainOfPoint
  Sbo = {dev}
  Tagged = {dev, direct}
  Command = {dev, direct}
  SelectTimeout = 1
  MaxTime = 6
INVARIANT TypeOK
PROPERTIES
  OperateNeedsSelect
  SelectIsExclusive
  TagKeptWhileSelected
  ForeignTagKept
