---------------------- MODULE MCCommonMessageExporter ----------------------
\* Small instances of CommonMessageExporter for TLC.
EXTENDS CommonMessageExporter

CONSTANTS m1, m2, m3

\* Every ending of a send, for every message.
AnyOutcome == [m \in Message |-> Outcome \ {"claim"}]

\* There is no rule for m1, the others are accepted.
NoRule == [m \in Message |-> IF m = m1 THEN {"missing"} ELSE {"ok"}]

Sym == Permutations(Message)
===========================================================================
