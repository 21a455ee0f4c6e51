----------------------- MODULE MCDemMessageExporter -----------------------
\* Small instances of DemMessageExporter for TLC.
EXTENDS DemMessageExporter

CONSTANTS m1, m2, m3

\* Every ending of a send, for every message.
AnyOutcome == [m \in Message |-> Outcome \ {"claim", "metadata"}]

\* m1 always fails, the others are accepted.
OneFails == [m \in Message |-> IF m = m1 THEN {"missing", "other", "metadata"} ELSE {"ok"}]

Sym == Permutations(Message)
===========================================================================
