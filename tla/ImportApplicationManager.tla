---------------------- MODULE ImportApplicationManager ----------------------
(***************************************************************************)
(* ImportApplicationManagerService: its one thread takes imports by        *)
(* priority and runs an import application for each.  What cannot be       *)
(* imported goes to the error queue in the same transaction; what the      *)
(* import application refuses is left to the message log; what nobody      *)
(* expects escapes, and the message is tried again at once.                *)
(***************************************************************************)
EXTENDS ImportQueue

CONSTANT
  Outcomes    \* [Message -> SUBSET Outcome]: how handling it may end

ASSUME OutcomesAssumption ==
  Outcomes \in [Message -> SUBSET (Outcome \ {"claim", "corrupt"})]

VARIABLES
  pc,         \* the statement the service's thread is at
  scanAt,     \* the queue Dequeue looks at next
  moreWork,   \* possiblyMoreWork
  escaping    \* an exception is on its way out of RunIteration

threadVars == <<pc, scanAt, moreWork, escaping>>
vars == <<queueVars, threadVars, siteVars>>

Goto(l) == pc' = l

Init ==
  /\ QueueInit
  /\ pc = "idle"
  /\ scanAt = "HIGH"
  /\ moreWork = FALSE
  /\ escaping = FALSE

-----------------------------------------------------------------------------
(* ProcessNextImportMessage.                                                *)

Begin ==
  /\ pc = "idle"
  /\ Goto("wait")
  /\ BeginTransaction
  /\ moreWork' = FALSE
  /\ UNCHANGED <<queue, faults, gone, submitVars, adminVars, historyVars, scanAt, escaping>>

\* WaitAny over the three import queues.
WaitAny ==
  /\ pc = "wait"
  /\ IF \E p \in Priority : queue[p] # <<>>
     THEN Goto("scan") /\ scanAt' = "HIGH"
     ELSE Goto("rollback") /\ UNCHANGED scanAt
  /\ UNCHANGED <<queueVars, moreWork, escaping>>

ScanNext ==
  /\ pc = "scan"
  /\ queue[scanAt] = <<>>
  /\ IF scanAt = "LOW"
     THEN Goto("rollback") /\ UNCHANGED scanAt
     ELSE scanAt' = NextPriority(scanAt) /\ UNCHANGED pc
  /\ UNCHANGED <<queueVars, moreWork, escaping>>

\* A body that cannot be read is an invalid message.
ScanReceive ==
  /\ pc = "scan"
  /\ Receive(scanAt)
  /\ IF held' \in corrupt
     THEN Goto("invalid") /\ UNCHANGED moreWork
     ELSE Goto("run") /\ moreWork' = TRUE
  /\ UNCHANGED <<faults, gone, submitVars, adminVars, historyVars, scanAt, escaping>>

\* There is no message object then: EnqueueErroneousImportMessage(null) throws,
\* this is only logged, and the message counts as handled.
CatchInvalidMessage ==
  /\ pc = "invalid"
  /\ outcome' = "corrupt"
  /\ Goto("commit")
  /\ UNCHANGED <<queue, tx, held, heldFrom, requeued, faults, gone, submitVars, adminVars,
                 historyVars, scanAt, moreWork, escaping>>

DequeueFails ==
  /\ pc \in {"wait", "scan"}
  /\ Fault("queue")
  /\ Goto("dispose")
  /\ escaping' = TRUE
  /\ UNCHANGED <<queue, TransactionVars, gone, submitVars, adminVars, historyVars, scanAt, moreWork>>

\* Without its payload a message ends in a ClaimHandlerException.
RunEndings == IF held \in payload THEN Outcomes[held] ELSE {"claim"}

\* Mistake: a message that no import application exists for is tried again.
AfterRunRetryingWin32(o) ==
  CASE o \in Ending -> "delete"
    [] o \in {"metadata", "claim"} -> "moveToError"
    [] OTHER -> "dispose"

\* Mistake: a message whose protocol nobody knows is dropped.
AfterRunDroppingMetadata(o) ==
  CASE o \in Ending -> "delete"
    [] o \in {"win32", "claim"} -> "moveToError"
    [] o = "metadata" -> "commit"
    [] OTHER -> "dispose"

\* Mistake: the transaction of an imported message is left to Dispose.
AfterRunUncommitted(o) ==
  CASE o \in Ending \ {"ok"} -> "delete"
    [] o \in {"win32", "metadata", "claim"} -> "moveToError"
    [] OTHER -> "dispose"

\* HandleMessageWithExceptionHandling: the clause that catches each ending.
AfterRun(o) ==
  CASE o \in Ending -> "delete"
    [] o \in {"win32", "metadata", "claim"} -> "moveToError"
    [] OTHER -> "dispose"

\* HandleMessage: an import application runs, if the message is not empty.
Run ==
  /\ pc = "run"
  /\ \E o \in RunEndings :
       /\ outcome' = o
       /\ Goto(AfterRun(o))
       /\ escaping' = (o = "other")
       /\ imports' = IF o = "ok" THEN [imports EXCEPT ![held] = @ + 1] ELSE imports
       /\ endings' = IF o \in Ending THEN [endings EXCEPT ![held] = @ \cup {o}] ELSE endings
  /\ UNCHANGED <<queue, tx, held, heldFrom, requeued, faults, gone, submitVars, adminVars,
                 scanAt, moreWork>>

\* DeleteMessageData, before the commit; if the store refuses, nothing catches
\* the exception, not even after a run that has been successful.
DeleteMessageData ==
  /\ pc = "delete"
  /\ \/ payload' = payload \ {held} /\ Goto("commit") /\ NoFault /\ UNCHANGED escaping
     \/ Fault("store") /\ Goto("dispose") /\ escaping' = TRUE /\ UNCHANGED payload
  /\ UNCHANGED <<queue, TransactionVars, gone, stage, lost, adminVars, historyVars, scanAt, moreWork>>

\* Mistake: the error queue gets its message in a transaction of its own.
EnqueueErroneousAtOnce ==
  /\ pc = "moveToError"
  /\ \/ /\ queue' = [queue EXCEPT ![Aside] = Append(@, held)]
        /\ requeued' = FALSE /\ Goto("commit") /\ NoFault /\ UNCHANGED escaping
     \/ /\ Fault("queue")
        /\ Goto("dispose") /\ escaping' = TRUE /\ UNCHANGED <<requeued, queue>>
  /\ UNCHANGED <<tx, held, heldFrom, outcome, gone, submitVars, adminVars, historyVars,
                 scanAt, moreWork>>

\* EnqueueErroneousImportMessage, in the transaction that received the message.
EnqueueErroneous ==
  /\ pc = "moveToError"
  /\ \/ requeued' = TRUE /\ Goto("commit") /\ NoFault /\ UNCHANGED escaping
     \/ Fault("queue") /\ Goto("dispose") /\ escaping' = TRUE /\ UNCHANGED requeued
  /\ UNCHANGED <<queue, tx, held, heldFrom, outcome, gone, submitVars, adminVars, historyVars,
                 scanAt, moreWork>>

CommitHandled ==
  /\ pc = "commit"
  /\ Goto("dispose")
  /\ \/ Commit(requeued) /\ NoFault /\ UNCHANGED escaping
     \/ CommitThrows /\ escaping' = TRUE
  /\ UNCHANGED <<submitVars, adminVars, historyVars, scanAt, moreWork>>

\* No message: HandleMessage(null) is not handled.
RollbackNothing ==
  /\ pc = "rollback"
  /\ Goto("dispose")
  /\ Rollback
  /\ UNCHANGED <<faults, submitVars, adminVars, historyVars, scanAt, moreWork, escaping>>

\* RunIteration asks for the next message as long as there was one; after an
\* exception ServiceThread starts the next iteration at once.
NextIteration(e) == Goto(IF e \/ moreWork THEN "idle" ELSE "sleep")

EndUsing ==
  /\ pc = "dispose"
  /\ \/ DisposeCommits(requeued) /\ NoFault /\ NextIteration(escaping)
     \/ tx = "pending" /\ DisposeAborts /\ NoFault /\ NextIteration(escaping)
     \/ DisposeNothing /\ NoFault /\ NextIteration(escaping)
     \/ tx = "complete" /\ DisposeAborts /\ Fault("queue") /\ NextIteration(TRUE)
  /\ escaping' = FALSE
  /\ UNCHANGED <<submitVars, adminVars, historyVars, scanAt, moreWork>>

Sleep ==
  /\ pc = "sleep"
  /\ Goto("idle")
  /\ UNCHANGED <<queueVars, scanAt, moreWork, escaping>>

\* The process ends; an open transaction is aborted.
Crash ==
  /\ pc # "down"
  /\ Fault("crash")
  /\ DisposeAborts \/ DisposeNothing
  /\ Goto("down")
  /\ escaping' = FALSE
  /\ UNCHANGED <<submitVars, adminVars, historyVars, scanAt, moreWork>>

Restart ==
  /\ pc = "down"
  /\ Goto("idle")
  /\ UNCHANGED <<queueVars, scanAt, moreWork, escaping>>

ProcessNextImportMessage ==
  \/ Begin \/ WaitAny \/ ScanNext \/ ScanReceive \/ DequeueFails
  \/ CatchInvalidMessage \/ Run \/ DeleteMessageData \/ EnqueueErroneous
  \/ CommitHandled \/ RollbackNothing \/ EndUsing

Surroundings == (Submitters \/ Administration) /\ UNCHANGED threadVars

ThreadStep == (ProcessNextImportMessage \/ Sleep) /\ UNCHANGED siteVars

Next == ThreadStep \/ ((Crash \/ Restart \/ Surroundings) /\ UNCHANGED siteVars)

Spec == Init /\ [][Next]_vars

\* Windows keeps scheduling the service's thread.
FairSpec == Spec /\ WF_vars(ThreadStep)

-----------------------------------------------------------------------------
(* Properties.                                                              *)

\* The state has the shape the code gives it.
TypeOK ==
  /\ QueueTypeOK
  /\ pc \in {"idle", "wait", "scan", "invalid", "run", "delete", "moveToError", "commit",
             "rollback", "dispose", "sleep", "down"}
  /\ scanAt \in Priority
  /\ moreWork \in BOOLEAN
  /\ escaping \in BOOLEAN

\* An accepted import stays in a queue or in the open transaction until an
\* import application has taken it, has refused it or has not answered, it is
\* empty, it cannot be read, or the user has deleted it.
NoImportLost ==
  \A m \in Message :
    stage[m] = "accepted" =>
      \/ InSystem(m)
      \/ gone[m] \in endings[m]
      \/ gone[m] = "deleted"
      \/ gone[m] \in {"corrupt", "unreadable"} /\ m \in corrupt

\* An import is run to success once, and once more for every fault: moving
\* it to the error queue and back never adds a run by itself.
ImportedOncePerFault == \A m \in Message : imports[m] <= 1 + faults

\* There is never a second copy of an import: not between the import queues
\* and the error queue, and not while a transaction holds it.
SingleCopy ==
  /\ \A p \in QueueName : Cardinality(Contents(p)) = Len(queue[p])
  /\ \A p, q \in QueueName : p # q => Contents(p) \cap Contents(q) = {}
  /\ InTx \cap Waiting = {}

\* The payload is deleted before the commit, so a message may come back
\* without it; but only a message whose handling had come to an end, so that
\* nothing is lost that has not been imported, refused or found empty.
PayloadUntilHandled ==
  \A m \in Message : InSystem(m) /\ m \notin payload \cup lost => endings[m] # {}

\* What an import application can take is imported in the end, whatever is
\* wrong with another message: that one goes to the error queue or out.
InvalidBlocksNobody ==
  \A m \in Message :
    stage[m] = "accepted" /\ m \notin NoProtocol \cup corrupt /\ Outcomes[m] = {"ok"}
      ~> imports[m] > 0

Delivery == INSTANCE MessageDelivery WITH
  owed <- Waiting \cup InTx,
  ended <- [m \in Message |-> IF InSystem(m) THEN "none" ELSE gone[m]],
  delivered <- {m \in Message : imports[m] > 0}

\* Import queues, error queue, transactions and the administration tool
\* together behave like one atomic inbox.
DeliverySpec == Delivery!Spec

\* "An invalid message should not be left on the import queue [...] It should
\* be placed on the error queue and handled manually"
\* (RunIteration_NextMessageIsInvalid_MessageIsPlacedInErrorQueue).
InvalidIsPutAside == \A m \in Message : gone[m] # "corrupt"
=============================================================================
