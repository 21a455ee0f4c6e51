-------------------------- MODULE MessageDelivery --------------------------
(***************************************************************************)
(* What the queues promise, whoever reads them: a message is owed to its   *)
(* receiver - an external system for an export, an import application for  *)
(* an import - from the moment its producer commits it until it is         *)
(* delivered or given up for one of the reasons the code names.            *)
(***************************************************************************)
CONSTANTS
  Message,
  Reason      \* why a message may be owed no longer; "ok": it was delivered

VARIABLES
  owed,       \* accepted messages that are not settled yet
  ended,      \* how a message that is not owed any more was settled
  delivered   \* messages the receiver has got at least once

vars == <<owed, ended, delivered>>

Init ==
  /\ owed = {}
  /\ ended = [m \in Message |-> "none"]
  /\ delivered = {}

\* Accepted once; a settled message never comes back.
Accept(m) ==
  /\ m \notin owed /\ ended[m] = "none"
  /\ owed' = owed \cup {m}
  /\ UNCHANGED <<ended, delivered>>

Deliver(m) ==
  /\ m \in owed
  /\ delivered' = delivered \cup {m}
  /\ UNCHANGED <<owed, ended>>

\* One transaction may settle several messages, all for the same reason.
Settle(S) ==
  /\ S # {}
  /\ owed' = owed \ S
  /\ \E reason \in Reason :
       /\ reason = "ok" => S \subseteq delivered
       /\ ended' = [m \in Message |-> IF m \in S THEN reason ELSE ended[m]]
  /\ UNCHANGED delivered

Next ==
  \/ \E m \in Message : Accept(m) \/ Deliver(m)
  \/ \E S \in SUBSET owed : Settle(S)

Spec == Init /\ [][Next]_vars
============================================================================
