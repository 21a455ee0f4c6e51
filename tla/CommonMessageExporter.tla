----------------------- MODULE CommonMessageExporter -----------------------
(***************************************************************************)
(* DataExchangeCommon's MessageExporter, which the EcpAmqp, NpAuction and  *)
(* MassTransit services use.  It differs from the one of                   *)
(* DataExchangeManagerService where things go wrong: only a message without*)
(* a matching rule moves to the LOW queue, in a transaction of its own; any*)
(* other error rolls back and leaves the message where it was; and after   *)
(* any error the thread sleeps.                                            *)
(***************************************************************************)
EXTENDS ExporterThread

vars == <<queueVars, threadVars, siteVars>>

Init == QueueInit /\ ThreadInit

\* Mistake: a message is thought to be found before one was exported.
BeginAsFound == BeginExport(TRUE)

Begin == BeginExport(FALSE)

Dequeue == WaitAny \/ ScanNext \/ DequeueFails \/ ScanReceive

\* Mistake: a message without a rule is taken for an invalid one.
HandlerDiscardsMissing(o) ==
  IF o = "other" THEN "rollback" ELSE "discard"

\* Mistake: a message without a rule stays where it is.
HandlerKeepsMissing(o) ==
  IF o \in {"missing", "other"} THEN "rollback" ELSE "discard"

Handler(o) == CASE o \in {"invalid", "invalidNoId", "metadata", "claim"} -> "discard"
                [] o = "missing" -> "requeue"
                [] OTHER -> "rollback"

Send ==
  \/ SendSucceeds
  \/ \E o \in SendEndings : SendThrows(o, Handler(o))

OnSuccess == Succeed("rollback")

CommitSent == CommitExport("rollback")

DeleteMessageData == DeletePayload("rollback")

CatchInvalid == Discard

OnInvalidMessageException == LogDiscarded

\* Mistake: the inner transaction is not committed.
EnqueueLowUncommitted ==
  /\ pc = "requeue"
  /\ requeued' = TRUE
  /\ log' = LogEnqueued(held)
  /\ Goto("commitLow")
  /\ UNCHANGED <<queue, stage, payload, tx, held, heldFrom, outcome, faults, sends,
                 gone, lost, scanAt, found, escaping, failedSinceSleep>>

\* using (tx): the LOW copy is there when this inner transaction commits,
\* whatever becomes of the one that received the message.
EnqueueLow ==
  /\ pc = "requeue"
  /\ \/ /\ queue' = [queue EXCEPT ![Aside] = Append(@, held)]
        /\ log' = LogEnqueued(held)
        /\ requeued' = TRUE
        /\ Goto("commitLow") /\ NoFault
     \/ /\ Fault("queue") \/ Fault("database")
        /\ Goto("rollback") /\ UNCHANGED <<queue, log, requeued>>
  /\ UNCHANGED <<stage, payload, tx, held, heldFrom, outcome, sends, gone, lost,
                 scanAt, found, escaping, failedSinceSleep>>

\* Mistake: only the inner transaction is committed.
CommitMovedNever ==
  /\ pc = "commitLow"
  /\ Goto("dispose")
  /\ UNCHANGED <<queueVars, scanAt, found, escaping, failedSinceSleep>>

CommitMoved ==
  /\ pc = "commitLow"
  /\ \/ Commit(FALSE) /\ Goto("dispose") /\ NoFault
     \/ CommitThrows /\ Goto("rollback")
  /\ UNCHANGED <<stage, payload, log, sends, lost, scanAt, found, escaping,
                 failedSinceSleep>>

CatchRollback == RollBackExport

EndUsing == Dispose(FALSE)

\* An abort in the try block is caught as any other exception first.
Abort ==
  AbortAt(IF pc \in {"send", "success", "commit", "delete", "requeue", "commitLow"}
          THEN "rollback" ELSE "dispose")

ExportMessage ==
  \/ Begin \/ Dequeue \/ Send \/ OnSuccess \/ CommitSent \/ DeleteMessageData
  \/ CatchInvalid \/ OnInvalidMessageException \/ EnqueueLow \/ CommitMoved
  \/ CatchRollback \/ EndUsing

ThreadStep == (ExportMessage \/ Sleep) /\ UNCHANGED siteVars

Next == ThreadStep \/ ((Abort \/ Crash \/ Restart \/ Surroundings) /\ UNCHANGED siteVars)

Spec == Init /\ [][Next]_vars

\* Windows keeps scheduling the module's thread.
FairSpec == Spec /\ WF_vars(ThreadStep)

-----------------------------------------------------------------------------
(* Properties.                                                              *)

\* The state has the shape the code gives it.
TypeOK == QueueTypeOK /\ ThreadTypeOK

\* ExportMessage's promise, as for the older exporter: with the move to LOW
\* spread over two transactions there may be a copy too many for a while, but
\* never one too few.
NoMessageLost == KeptUnless({"invalid", "invalidNoId", "metadata", "claim"})

\* A message may lose its payload while a copy of it is queued - the copy
\* left when the second of the two commits failed, or the original when an
\* MSDTC vote is lost - but never before it has been delivered.
PayloadUntilDelivered ==
  \A m \in Message : InSystem(m) /\ m \notin payload \cup lost => sends[m] > 0

\* A second delivery of the same export needs a fault between the send and
\* the end of a transaction; every such fault costs one repetition at most.
ResendOnlyAfterFault == \A m \in Message : sends[m] <= 1 + faults

Occurrences(s, m) == Cardinality({i \in 1..Len(s) : s[i] = m})

Copies(m) ==
  Occurrences(queue["HIGH"], m) + Occurrences(queue["NORMAL"], m)
    + Occurrences(queue["LOW"], m)

\* Moving a message to LOW never multiplies it without a fault: each copy too
\* many is the work of one failed commit, crash or abort between the two.
CopyOnlyAfterFault ==
  \A m \in Message : Copies(m) + (IF m \in InTx /\ ~requeued THEN 1 ELSE 0) <= 1 + faults

\* "the system should try to export it after some seconds": no message is
\* sent again before the thread has slept (ExportMessage's summary).
RetryOnlyAfterSleep == pc = "send" => held \notin failedSinceSleep

\* "We move this message to Low priority queue so the message don't block any
\* important messages": what the receiver accepts is delivered in the end,
\* although there is never a rule for another message.
MissingRuleBlocksNobody ==
  \A m \in Message :
    stage[m] = "accepted" /\ Outcomes[m] = {"ok"} ~> gone[m] = "ok"

\* Queues, transactions and retries together behave like one atomic outbox.
DeliverySpec == Delivery!Spec
=============================================================================
