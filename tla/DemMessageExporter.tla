------------------------- MODULE DemMessageExporter -------------------------
(***************************************************************************)
(* DataExchangeManagerService's MessageExporter, run by the thread of a    *)
(* PushExportModule: ExecuteUntilStopped calls ExportMessage again and     *)
(* again, and sleeps when it found no message.  One action per statement   *)
(* that touches the queue, the log, the claim-check store or the receiver, *)
(* because a crash, an abort or another program may come between any two.  *)
(***************************************************************************)
EXTENDS ExporterThread

VARIABLES
  retried,   \* history: the message last moved to the LOW queue
  before     \* history: what was waiting there in front of it

historyVars == <<retried, before>>
vars == <<queueVars, threadVars, historyVars, siteVars>>

Init ==
  /\ QueueInit
  /\ ThreadInit
  /\ retried = NoMessage
  /\ before = {}

-----------------------------------------------------------------------------
(* ExportMessage: an invalid message or a lost payload is discarded, every  *)
(* other error moves the message to the LOW queue.                          *)

Begin == BeginExport(TRUE) /\ UNCHANGED historyVars

Dequeue ==
  \/ (WaitAny \/ ScanNext \/ DequeueFails) /\ UNCHANGED historyVars
  \/ ScanReceive /\ before' = before \ {held'} /\ UNCHANGED retried

\* Mistake: an error the receiver does not explain leaves the message where it is.
HandlerRollsBack(o) ==
  IF o \in {"invalid", "invalidNoId", "claim"} THEN "discard" ELSE "rollback"

Handler(o) == IF o \in {"invalid", "invalidNoId", "claim"} THEN "discard" ELSE "requeue"

Send ==
  /\ \/ SendSucceeds
     \/ \E o \in SendEndings : SendThrows(o, Handler(o))
  /\ UNCHANGED historyVars

OnSuccess == Succeed("requeue") /\ UNCHANGED historyVars

CommitSent == CommitExport("requeue") /\ UNCHANGED historyVars

DeleteMessageData == DeletePayload("requeue") /\ UNCHANGED historyVars

CatchInvalid == Discard /\ UNCHANGED historyVars

OnInvalidMessageException == LogDiscarded /\ UNCHANGED historyVars

\* The message is sent to LOW in the transaction that received it; that
\* throws when this transaction is no longer open.
EnqueueToLowPriority ==
  /\ pc = "requeue"
  /\ \/ /\ tx = "pending" /\ NoFault
        /\ Goto("commitLow") /\ requeued' = TRUE /\ log' = LogEnqueued(held)
     \/ /\ tx = "pending" /\ (Fault("queue") \/ Fault("database"))
        /\ Goto("rollback") /\ UNCHANGED <<requeued, log>>
     \/ /\ tx # "pending" /\ NoFault
        /\ Goto("rollback") /\ UNCHANGED <<requeued, log>>
  /\ UNCHANGED <<queue, stage, payload, tx, held, heldFrom, outcome, sends, gone,
                 lost, scanAt, found, escaping, failedSinceSleep, historyVars>>

\* History: the move to LOW is final, with MSDTC not before the end of the scope.
NoteRetry(final) ==
  IF final THEN retried' = held /\ before' = Contents(Aside)
           ELSE UNCHANGED historyVars

CommitLow ==
  /\ pc = "commitLow"
  /\ \/ /\ Commit(requeued) /\ Goto("dispose") /\ NoFault
        /\ NoteRetry(tx' = "committed")
     \/ CommitThrows /\ Goto("rollback") /\ UNCHANGED historyVars
  /\ UNCHANGED <<stage, payload, log, sends, lost, scanAt, found, escaping,
                 failedSinceSleep>>

CatchRollback == RollBackExport /\ UNCHANGED historyVars

EndUsing == Dispose(requeued) /\ NoteRetry(tx = "complete" /\ requeued /\ NoFault)

SleepTime == Sleep /\ UNCHANGED historyVars

\* An abort in the try block is caught as any other exception first.
Abort ==
  /\ AbortAt(CASE pc \in {"send", "success", "commit", "delete"} -> "requeue"
               [] pc \in {"requeue", "commitLow"} -> "rollback"
               [] OTHER -> "dispose")
  /\ UNCHANGED historyVars

Around == (Crash \/ Restart \/ Surroundings) /\ UNCHANGED historyVars

ExportMessage ==
  \/ Begin \/ Dequeue \/ Send \/ OnSuccess \/ CommitSent \/ DeleteMessageData
  \/ CatchInvalid \/ OnInvalidMessageException \/ EnqueueToLowPriority \/ CommitLow
  \/ CatchRollback \/ EndUsing

ThreadStep == (ExportMessage \/ SleepTime) /\ UNCHANGED siteVars

Next == ThreadStep \/ ((Abort \/ Around) /\ UNCHANGED siteVars)

Spec == Init /\ [][Next]_vars

\* Windows keeps scheduling the module's thread.
FairSpec == Spec /\ WF_vars(ThreadStep)
-----------------------------------------------------------------------------
(* Properties.                                                              *)

\* The state has the shape the code gives it.
TypeOK ==
  /\ QueueTypeOK
  /\ ThreadTypeOK
  /\ retried \in Message \cup {NoMessage}
  /\ before \subseteq Message

\* ExportMessage's promise: whatever fails, in whatever order, an export that
\* was accepted stays in a queue or in the open transaction until it has been
\* delivered, the receiver has called it invalid, its payload is gone, or the
\* operator has removed it; it never falls between two transactions.
NoMessageLost == KeptUnless({"invalid", "invalidNoId", "claim"})

\* DeleteMessageData comes after the commit and there is only one copy of a
\* message: as long as it can be received again, its payload is there.  With
\* MSDTC the commit is only a vote, and the message may come back after it has
\* been delivered and its payload deleted.
PayloadWhileQueued ==
  \A m \in Message :
    InSystem(m) /\ m \notin payload \cup lost => remote /\ sends[m] > 0

\* The conditional updates of the message log never miss: an export that left
\* the queues as delivered is logged as transferred, although the producer,
\* the retries and the LOW requeue all write to the same row.  (An MSDTC
\* commit that fails brings back a message already logged as failed.)
DeliveredIsLogged ==
  \A m \in Message :
    gone[m] = "ok" => log[m] = "Transferred" \/ (remote /\ log[m] = "Failed")

\* A second delivery of the same export needs a fault between the send and
\* the end of the transaction; every such fault costs one repetition at most.
ResendOnlyAfterFault == \A m \in Message : sends[m] <= 1 + faults

\* "If the message already has Low priority then I assume it is put at the
\* back of the queue so all other Low prioritized messages are handled first."
RetriedLast ==
  pc = "send" /\ held = retried => \A m \in before : gone[m] = "removed"

\* A message the receiver accepts is delivered in the end, although another
\* one fails for ever: moving the failing one to LOW keeps the way free.
FailingMessageBlocksNobody ==
  \A m \in Message :
    stage[m] = "accepted" /\ Outcomes[m] = {"ok"} ~> gone[m] = "ok"

\* Queues, transaction and retries together behave like one atomic outbox.
DeliverySpec == Delivery!Spec
=============================================================================
