--------------------------- MODULE ExporterThread ---------------------------
(***************************************************************************)
(* What every push exporter's thread does around ExportMessage: take a     *)
(* message by priority (MsmqDataExchangeQueue.Dequeue), leave the using    *)
(* block of the transaction, go round the loop of TaskBasedModule, die of  *)
(* an exception that escapes, be aborted, crash and be started again.      *)
(* DataExchangeManagerService and DataExchangeCommon have a copy each of   *)
(* this code, the same but for the names.                                  *)
(***************************************************************************)
EXTENDS ExportQueue

CONSTANT
  Outcomes  \* [Message -> SUBSET Outcome]: how sending it may end

ASSUME OutcomesAssumption == Outcomes \in [Message -> SUBSET (Outcome \ {"claim"})]

VARIABLES
  pc,        \* the statement the module thread is at
  scanAt,    \* the queue Dequeue looks at next
  found,     \* IsNewMessageFound
  escaping,  \* an exception is on its way out of ExportMessage
  failedSinceSleep  \* history: sends that failed since the thread last slept

threadVars == <<pc, scanAt, found, escaping, failedSinceSleep>>

ThreadInit ==
  /\ pc = "idle"
  /\ scanAt = "HIGH"
  /\ found = FALSE
  /\ escaping = FALSE
  /\ failedSinceSleep = {}

Goto(l) == pc' = l

-----------------------------------------------------------------------------
(* Dequeue.                                                                 *)

\* WaitAny: one of the queues has a message, or the wait times out.
WaitAny ==
  /\ pc = "wait"
  /\ IF Waiting # {}
     THEN Goto("scan") /\ scanAt' = "HIGH" /\ UNCHANGED found
     ELSE Goto("dispose") /\ found' = FALSE /\ UNCHANGED scanAt
  /\ UNCHANGED <<queueVars, escaping, failedSinceSleep>>

\* The loop over the priorities; it may find that somebody else was faster.
ScanNext ==
  /\ pc = "scan"
  /\ queue[scanAt] = <<>>
  /\ IF scanAt = "LOW"
     THEN Goto("dispose") /\ found' = FALSE /\ UNCHANGED scanAt
     ELSE scanAt' = NextPriority(scanAt) /\ UNCHANGED <<pc, found>>
  /\ UNCHANGED <<queueVars, escaping, failedSinceSleep>>

\* A body that cannot be read throws outside of ExportMessage's try.
ScanReceive ==
  /\ pc = "scan"
  /\ Receive(scanAt)
  /\ IF held' \in corrupt
     THEN Goto("dispose") /\ escaping' = TRUE
     ELSE Goto("send") /\ UNCHANGED escaping
  /\ UNCHANGED <<stage, payload, log, faults, sends, gone, lost, scanAt, found,
                 failedSinceSleep>>

DequeueFails ==
  /\ pc \in {"wait", "scan"}
  /\ Fault("queue")
  /\ Goto("dispose")
  /\ escaping' = TRUE
  /\ UNCHANGED <<queue, stage, payload, log, TransactionVars, sends, gone, lost,
                 scanAt, found, failedSinceSleep>>

-----------------------------------------------------------------------------
(* The statements of ExportMessage.  The two exporters differ in the catch  *)
(* block an error leads to and in what that block does with the message.    *)

BeginExport(isNewMessageFound) ==
  /\ pc = "idle"
  /\ Goto("wait")
  /\ BeginTransaction
  /\ found' = isNewMessageFound
  /\ UNCHANGED <<queue, stage, payload, log, faults, sends, gone, lost, scanAt,
                 escaping, failedSinceSleep>>

SendSucceeds ==
  /\ pc = "send"
  /\ held \in payload
  /\ "ok" \in Outcomes[held]
  /\ sends' = [sends EXCEPT ![held] = @ + 1]
  /\ outcome' = "ok"
  /\ Goto("success")
  /\ UNCHANGED <<queue, stage, payload, log, tx, held, heldFrom, requeued, faults,
                 gone, lost, scanAt, found, escaping, failedSinceSleep>>

\* Without its payload a message ends in a ClaimHandlerException.
SendEndings == IF held \in payload THEN Outcomes[held] \ {"ok"} ELSE {"claim"}

\* Mistake: the payload is deleted however the send ended.
SendThrowsDroppingPayload(o, handler) ==
  /\ pc = "send"
  /\ o \in SendEndings
  /\ outcome' = o
  /\ Goto(handler)
  /\ failedSinceSleep' = failedSinceSleep \cup {held}
  /\ payload' = payload \ {held}
  /\ UNCHANGED <<queue, stage, log, tx, held, heldFrom, requeued, faults, sends,
                 gone, lost, scanAt, found, escaping>>

SendThrows(o, handler) ==
  /\ pc = "send"
  /\ o \in SendEndings
  /\ outcome' = o
  /\ Goto(handler)
  /\ failedSinceSleep' = failedSinceSleep \cup {held}
  /\ UNCHANGED <<queue, stage, payload, log, tx, held, heldFrom, requeued, faults,
                 sends, gone, lost, scanAt, found, escaping>>

\* Mistake: a status that is not Enqueued any more is taken for an error.
SucceedIfEnqueued(onError) ==
  /\ pc = "success"
  /\ \/ /\ log[held] = "Enqueued"
        /\ log' = LogTransferred(held) /\ Goto("commit") /\ NoFault
     \/ log[held] # "Enqueued" /\ Goto(onError) /\ NoFault /\ UNCHANGED log
     \/ Fault("database") /\ Goto(onError) /\ UNCHANGED log
  /\ UNCHANGED <<queue, stage, payload, TransactionVars, sends, gone, lost, scanAt,
                 found, escaping, failedSinceSleep>>

\* OnSuccess: SetStatusToExportTransferredToHub.
Succeed(onError) ==
  /\ pc = "success"
  /\ \/ log' = LogTransferred(held) /\ Goto("commit") /\ NoFault
     \/ Fault("database") /\ Goto(onError) /\ UNCHANGED log
  /\ UNCHANGED <<queue, stage, payload, TransactionVars, sends, gone, lost, scanAt,
                 found, escaping, failedSinceSleep>>

CommitExport(onError) ==
  /\ pc = "commit"
  /\ \/ Commit(FALSE) /\ Goto("delete") /\ NoFault
     \/ CommitThrows /\ Goto(onError)
  /\ UNCHANGED <<stage, payload, log, sends, lost, scanAt, found, escaping,
                 failedSinceSleep>>

DeletePayload(onError) ==
  /\ pc = "delete"
  /\ \/ payload' = payload \ {held} /\ found' = TRUE /\ Goto("dispose") /\ NoFault
     \/ Fault("store") /\ Goto(onError) /\ UNCHANGED <<payload, found>>
  /\ UNCHANGED <<queue, stage, log, TransactionVars, sends, gone, lost, scanAt,
                 escaping, failedSinceSleep>>

\* A commit that throws inside a catch block leaves ExportMessage.
Discard ==
  /\ pc = "discard"
  /\ \/ Commit(FALSE) /\ Goto("failed") /\ NoFault /\ UNCHANGED escaping
     \/ CommitThrows /\ Goto("dispose") /\ escaping' = TRUE
  /\ UNCHANGED <<stage, payload, log, sends, lost, scanAt, found, failedSinceSleep>>

\* OnInvalidMessageException: the status of the message the exception names.
\* Some name none, and invalid metadata comes with an id or without.
LogDiscarded ==
  /\ pc = "failed"
  /\ Goto("dispose")
  /\ \/ outcome \in {"invalidNoId", "metadata"} /\ NoFault /\ UNCHANGED <<log, escaping>>
     \/ /\ outcome # "invalidNoId"
        /\ \/ log' = LogFailed(held) /\ NoFault /\ UNCHANGED escaping
           \/ Fault("database") /\ escaping' = TRUE /\ UNCHANGED log
  /\ UNCHANGED <<queue, stage, payload, TransactionVars, sends, gone, lost, scanAt,
                 found, failedSinceSleep>>

RollBackExport ==
  /\ pc = "rollback"
  /\ Goto("dispose")
  /\ \/ Rollback /\ UNCHANGED escaping
     \/ /\ RollbackThrows /\ escaping' = TRUE
        /\ UNCHANGED <<queue, gone, TransactionVars>>
  /\ UNCHANGED <<stage, payload, log, faults, sends, lost, scanAt, found,
                 failedSinceSleep>>

-----------------------------------------------------------------------------
(* The end of the using block and the loop of TaskBasedModule.              *)

AfterExport(e) ==
  Goto(IF e THEN "dead" ELSE IF found THEN "idle" ELSE "sleep")

\* sentToLow: the LOW copy was sent in this very transaction.
Dispose(sentToLow) ==
  /\ pc = "dispose"
  /\ \/ DisposeCommits(sentToLow) /\ NoFault /\ AfterExport(escaping)
     \/ tx = "pending" /\ DisposeAborts /\ NoFault /\ AfterExport(escaping)
     \/ DisposeNothing /\ NoFault /\ AfterExport(escaping)
     \/ tx = "complete" /\ DisposeAborts /\ Fault("queue") /\ AfterExport(TRUE)
  /\ escaping' = FALSE
  /\ UNCHANGED <<stage, payload, log, sends, lost, scanAt, found, failedSinceSleep>>

Sleep ==
  /\ pc = "sleep"
  /\ Goto("idle")
  /\ failedSinceSleep' = {}
  /\ UNCHANGED <<queueVars, scanAt, found, escaping>>

\* Thread.Abort: the catch blocks for any exception run (where they begin is
\* for the exporter to say), then the abort goes on.
AbortAt(handler) ==
  /\ pc \notin {"dead", "down", "dispose"}
  /\ Fault("abort")
  /\ IF pc \in {"idle", "sleep"}
     THEN Goto("dead") /\ UNCHANGED escaping
     ELSE Goto(handler) /\ escaping' = TRUE
  /\ UNCHANGED <<queue, stage, payload, log, TransactionVars, sends, gone, lost,
                 scanAt, found, failedSinceSleep>>

\* The process ends; every open transaction is aborted.
Crash ==
  /\ pc # "down"
  /\ Fault("crash")
  /\ \/ DisposeAborts
     \/ DisposeNothing
  /\ Goto("down")
  /\ escaping' = FALSE
  /\ UNCHANGED <<stage, payload, log, sends, lost, scanAt, found, failedSinceSleep>>

\* The service is started again; nothing restarts a single dead thread.
Restart ==
  /\ pc \in {"dead", "down"}
  /\ Goto("idle")
  /\ failedSinceSleep' = {}
  /\ UNCHANGED <<queueVars, scanAt, found, escaping>>

Surroundings == Environment /\ UNCHANGED threadVars

-----------------------------------------------------------------------------
ThreadTypeOK ==
  /\ pc \in {"idle", "wait", "scan", "send", "success", "commit", "delete",
             "discard", "failed", "requeue", "commitLow", "rollback", "dispose",
             "sleep", "dead", "down"}
  /\ scanAt \in Priority
  /\ found \in BOOLEAN
  /\ escaping \in BOOLEAN
  /\ failedSinceSleep \subseteq Message
=============================================================================
