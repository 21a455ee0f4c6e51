--------------------------- MODULE MCTase2Control ---------------------------
\* Small instances of Tase2Control for TLC: the clients of two tables, a
\* select-before-operate device and a direct one.
EXTENDS Tase2Control

CONSTANTS c1, c2, b1, b2, dev, direct

BltOfClient == [c \in Connection |-> IF c = c1 THEN b1 ELSE b2]
DomainOfBlt == [b \in Blt |-> "icc1"]
Entries == [b \in Blt |-> [cp \in ControlPoint |-> IF b = b1 THEN Right ELSE {"READ", "GET_TAG"}]]
DomainOfPoint == [cp \in ControlPoint |-> IF cp = dev THEN "icc1" ELSE Vcc]
=============================================================================
