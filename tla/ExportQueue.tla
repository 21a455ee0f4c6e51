---------------------------- MODULE ExportQueue ----------------------------
(***************************************************************************)
(* The surroundings of a push exporter: the three transactional queues     *)
(* ICC_EXPORT_<module>_HIGH / _NORMAL / _LOW of one module, the            *)
(* claim-check store with the payloads, the message log in the database    *)
(* and the programs that enqueue exports.                                  *)
(***************************************************************************)
EXTENDS MsmqQueue

ASSUME ExportQueueAssumption ==
  /\ QueueName = Priority
  /\ Aside = "LOW"
  /\ FaultKind \subseteq {"database", "queue", "store", "loss", "producer",
                         "operator", "abort", "crash"}

\* How sendExportMessageDelegate ends: it returns, or the class of exception.
Outcome == {"ok", "invalid", "invalidNoId", "metadata", "claim", "missing", "other"}

\* Why a message may leave the queues for good.
Reason == {"ok", "invalid", "invalidNoId", "metadata", "claim", "removed"}

Status == {"Created", "Enqueued", "Transferred", "Failed"}

VARIABLES
  stage,      \* where each export is with the program that produces it
  payload,    \* messages whose payload is in the claim-check store
  log,        \* MESSAGE_HEADER.STATUS
  sends,      \* history: deliveries per message
  lost        \* history: payloads that disappeared by an outside cause

queueVars == <<queue, stage, payload, log, tx, held, heldFrom, requeued, outcome,
               faults, sends, gone, lost>>

QueueInit ==
  /\ MsmqInit
  /\ stage = [m \in Message |-> "new"]
  /\ payload = {}
  /\ log = [m \in Message |-> "Created"]
  /\ sends = [m \in Message |-> 0]
  /\ lost = {}

-----------------------------------------------------------------------------
(* The message log: SetStatusToExportEnqueued only replaces Created, and    *)
(* SetStatusToExportTransferredToHub only Enqueued; SetStatus always writes. *)

\* Mistake: the update looks for the status of a message nobody has enqueued.
LogTransferredFromCreated(m) ==
  [log EXCEPT ![m] = IF @ = "Created" THEN "Transferred" ELSE @]

LogEnqueued(m) == [log EXCEPT ![m] = IF @ = "Created" THEN "Enqueued" ELSE @]
LogTransferred(m) == [log EXCEPT ![m] = IF @ = "Enqueued" THEN "Transferred" ELSE @]
LogFailed(m) == [log EXCEPT ![m] = "Failed"]

-----------------------------------------------------------------------------
(* Everything around the exporter.                                          *)

\* A program stores the payload and, inside its own transaction, sends the
\* message and has the log say so.
ProducerEnqueue(m) ==
  /\ stage[m] = "new"
  /\ stage' = [stage EXCEPT ![m] = "producing"]
  /\ payload' = payload \cup {m}
  /\ log' = LogEnqueued(m)
  /\ UNCHANGED <<queue, TransactionVars, faults, sends, gone, lost>>

ProducerCommit(m, p) ==
  /\ stage[m] = "producing"
  /\ stage' = [stage EXCEPT ![m] = "accepted"]
  /\ queue' = [queue EXCEPT ![p] = Append(@, m)]
  /\ UNCHANGED <<payload, log, TransactionVars, faults, sends, gone, lost>>

\* The database refuses the new status, or the program is killed before its
\* commit: MSMQ keeps nothing, the payload stays.
ProducerFails(m) ==
  /\ stage[m] \in {"new", "producing"}
  /\ Fault("producer")
  /\ stage' = [stage EXCEPT ![m] = "given up"]
  /\ payload' = IF stage[m] = "new" THEN payload \cup {m} ELSE payload
  /\ UNCHANGED <<queue, log, TransactionVars, sends, gone, lost>>

\* "If the problem cannot be resolved, the message can be removed manually."
OperatorRemoves(p, i) ==
  /\ i \in 1..Len(queue[p])
  /\ Fault("operator")
  /\ queue' = [queue EXCEPT ![p] = RemoveAt(@, i)]
  /\ gone' = [gone EXCEPT ![queue[p][i]] = "removed"]
  /\ UNCHANGED <<stage, payload, log, TransactionVars, sends, lost>>

\* A file or blob of the claim-check store disappears.
PayloadDisappears(m) ==
  /\ m \in payload
  /\ Fault("loss")
  /\ payload' = payload \ {m}
  /\ lost' = lost \cup {m}
  /\ UNCHANGED <<queue, stage, log, TransactionVars, sends, gone>>

Environment ==
  \/ \E m \in Message : ProducerEnqueue(m)
  \/ \E m \in Message, p \in Priority : ProducerCommit(m, p)
  \/ \E m \in Message : ProducerFails(m)
  \/ \E p \in QueueName : \E i \in 1..Len(queue[p]) : OperatorRemoves(p, i)
  \/ \E m \in Message : PayloadDisappears(m)

-----------------------------------------------------------------------------
(* What every exporter promises.                                            *)

\* An accepted export is in a queue or in the open transaction, unless it was
\* delivered, given up for one of the reasons, or removed by the operator.
KeptUnless(reasons) ==
  \A m \in Message :
    stage[m] = "accepted" =>
      \/ InSystem(m)
      \/ gone[m] \in reasons \cup {"removed"}
      \/ gone[m] = "ok" /\ sends[m] > 0

Delivery == INSTANCE MessageDelivery WITH
  owed <- {m \in Message : InSystem(m)},
  ended <- [m \in Message |-> IF InSystem(m) THEN "none" ELSE gone[m]],
  delivered <- {m \in Message : sends[m] > 0}

QueueTypeOK ==
  /\ MsmqTypeOK
  /\ stage \in [Message -> {"new", "producing", "accepted", "given up"}]
  /\ payload \subseteq Message
  /\ log \in [Message -> Status]
  /\ outcome \in Outcome
  /\ sends \in [Message -> Nat]
  /\ gone \in [Message -> Outcome \cup {"none", "removed"}]
  /\ lost \subseteq Message
=============================================================================
