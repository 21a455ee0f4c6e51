--------------------- MODULE MCImportApplicationManager ---------------------
\* Small instances of ImportApplicationManager for TLC.
EXTENDS ImportApplicationManager

CONSTANTS m1, m2, m3

\* Every ending, for every message.
AnyOutcome == [m \in Message |-> Outcome \ {"claim", "corrupt"}]

\* m1 is never imported, the others always are.
OneFails == [m \in Message |-> IF m = m1 THEN {"win32", "metadata", "failed", "timeout", "empty"}
                               ELSE {"ok"}]

\* No import application ever refuses m1, and m1 is the only one.
Refused == [m \in Message |-> {"failed", "timeout"}]

Sym == Permutations(Message)
=============================================================================
