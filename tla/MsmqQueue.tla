----------------------------- MODULE MsmqQueue -----------------------------
(***************************************************************************)
(* The transactional message queues of one module and the one transaction  *)
(* its thread has open at a time: three queues by priority, one queue that *)
(* failing messages are moved to, at most one message received and at most *)
(* one sent on (IDataExchangeQueue, IDataExchangeQueueTransaction).        *)
(*                                                                         *)
(* MSMQ and System.Transactions are not part of the repository: they are   *)
(* modelled from how DataExchangeAPI uses them.                            *)
(***************************************************************************)
EXTENDS Naturals, FiniteSets, SequencesExt

CONSTANTS
  Message,    \* the messages
  NoMessage,  \* null
  QueueName,  \* the queues
  Aside,      \* the queue a failing message is moved to
  Corruptible,     \* messages whose serialised body may be impossible to read back
  RemoteSettings,  \* the values QueuesAreOnRemoteMachine() may have
  FaultKind,  \* the kinds of fault that may happen
  MaxFaults   \* bound: faults of all kinds together

Priority == {"HIGH", "NORMAL", "LOW"}

ASSUME MsmqQueueAssumption ==
  /\ NoMessage \notin Message
  /\ Priority \subseteq QueueName
  /\ Aside \in QueueName
  /\ Corruptible \subseteq Message
  /\ RemoteSettings \subseteq BOOLEAN
  /\ MaxFaults \in Nat

\* The order of MsmqDataExchangeQueueFactory.OrderedPriorities.
NextPriority(p) == IF p = "HIGH" THEN "NORMAL" ELSE "LOW"

VARIABLES
  remote,     \* the queues are on another machine: MSDTC, not MSMQ transactions
  corrupt,    \* messages whose body cannot be read back
  queue,      \* [QueueName -> Seq(Message)], the committed contents
  tx,         \* the thread's dequeue transaction
  held,       \* the message received in it; the local variable "message"
  heldFrom,   \* the queue it was received from
  requeued,   \* the message has been sent to the queue Aside in this pass
  outcome,    \* how this pass's handling of the message ended
  faults,     \* number of faults so far
  gone        \* history: why the last copy received left the queues

siteVars == <<remote, corrupt>>

Contents(p) == ToSet(queue[p])

Waiting == UNION {Contents(p) : p \in QueueName}

\* The transaction still owns the message it received.
InTx == IF tx \in {"pending", "complete"} /\ held # NoMessage THEN {held} ELSE {}

InSystem(m) == m \in Waiting \cup InTx

Fault(kind) == kind \in FaultKind /\ faults < MaxFaults /\ faults' = faults + 1
NoFault == UNCHANGED faults

MsmqInit ==
  /\ remote \in RemoteSettings
  /\ corrupt \in SUBSET Corruptible
  /\ queue = [p \in QueueName |-> <<>>]
  /\ tx = "none"
  /\ held = NoMessage
  /\ heldFrom = Aside
  /\ requeued = FALSE
  /\ outcome = "ok"
  /\ faults = 0
  /\ gone = [m \in Message |-> "none"]

-----------------------------------------------------------------------------
(* The dequeue transaction.                                                 *)

TransactionVars == <<tx, held, heldFrom, requeued, outcome>>

BeginTransaction ==
  /\ tx' = "pending"
  /\ held' = NoMessage
  /\ requeued' = FALSE
  /\ UNCHANGED <<heldFrom, outcome>>

\* Receive(0) on queue p: the message is invisible until the transaction ends.
Receive(p) ==
  /\ queue[p] # <<>>
  /\ held' = Head(queue[p])
  /\ heldFrom' = p
  /\ queue' = [queue EXCEPT ![p] = Tail(@)]
  /\ UNCHANGED <<tx, requeued, outcome>>

\* Mistake: the requeued message goes back to the queue it came from.
MakeFinalInPlace(sentAside) ==
  /\ queue' = IF sentAside THEN [queue EXCEPT ![heldFrom] = Append(@, held)] ELSE queue
  /\ gone' = IF requeued \/ held = NoMessage THEN gone ELSE [gone EXCEPT ![held] = outcome]

\* Mistake: the send is not part of the transaction that commits.
MakeFinalWithoutSends(sentAside) ==
  /\ UNCHANGED queue
  /\ gone' = IF requeued \/ held = NoMessage THEN gone ELSE [gone EXCEPT ![held] = outcome]

\* The receive becomes final, and with it the sends made in the transaction.
MakeFinal(sentAside) ==
  /\ queue' = IF sentAside THEN [queue EXCEPT ![Aside] = Append(@, held)] ELSE queue
  /\ gone' = IF requeued \/ held = NoMessage THEN gone ELSE [gone EXCEPT ![held] = outcome]

\* Mistake: the receive was not part of the transaction.
PutBackNothing == UNCHANGED <<queue, gone>>

\* Mistake: nobody looks whether a message was received at all.
PutBackAnything ==
  /\ queue' = [queue EXCEPT ![heldFrom] = <<held>> \o @]
  /\ UNCHANGED gone

\* The message is back where it was, in front of its queue.
PutBack ==
  /\ queue' = IF held = NoMessage THEN queue
              ELSE [queue EXCEPT ![heldFrom] = <<held>> \o @]
  /\ UNCHANGED gone

\* Commit() of the wrapper: at once for MSMQ, a vote for MSDTC.
Commit(sentAside) ==
  /\ tx = "pending"
  /\ IF remote
     THEN tx' = "complete" /\ UNCHANGED <<queue, gone>>
     ELSE tx' = "committed" /\ MakeFinal(sentAside)
  /\ UNCHANGED <<held, heldFrom, requeued, outcome>>

\* Rollback() of the wrapper: MSDTC has none.
Rollback ==
  /\ IF remote
     THEN UNCHANGED <<tx, queue, gone>>
     ELSE tx = "pending" /\ tx' = "aborted" /\ PutBack
  /\ UNCHANGED <<held, heldFrom, requeued, outcome>>

\* Complete() of an open TransactionScope does not throw.
CommitThrows ==
  /\ ~remote /\ Fault("queue")
  /\ UNCHANGED <<tx, held, heldFrom, requeued, outcome, queue, gone>>

\* MessageQueueTransaction.Abort() throws unless the transaction is pending.
RollbackThrows == ~remote /\ tx # "pending"

EndTransaction ==
  /\ tx' = "none"
  /\ held' = NoMessage
  /\ requeued' = FALSE
  /\ UNCHANGED <<heldFrom, outcome>>

\* Dispose(): a vote is acted on now, an open transaction is aborted.
DisposeCommits(sentAside) == tx = "complete" /\ MakeFinal(sentAside) /\ EndTransaction
DisposeAborts == tx \in {"pending", "complete"} /\ PutBack /\ EndTransaction
DisposeNothing == tx \in {"none", "committed", "aborted"} /\ EndTransaction
                  /\ UNCHANGED <<queue, gone>>

-----------------------------------------------------------------------------
\* How a pass ends and why a message left is for the component to say.
MsmqTypeOK ==
  /\ remote \in BOOLEAN
  /\ corrupt \subseteq Message
  /\ queue \in [QueueName -> Seq(Message)]
  /\ tx \in {"none", "pending", "complete", "committed", "aborted"}
  /\ held \in Message \cup {NoMessage}
  /\ heldFrom \in QueueName
  /\ requeued \in BOOLEAN
  /\ faults \in 0..MaxFaults
=============================================================================
