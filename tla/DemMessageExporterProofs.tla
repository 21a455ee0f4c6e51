---------------------- MODULE DemMessageExporterProofs ----------------------
(***************************************************************************)
(* Proofs about DataExchangeManagerService's exporter, for any number of   *)
(* messages and faults, for queues on this machine and on another one:     *)
(* its state is well-typed, no message is lost, and it implements the      *)
(* outbox of MessageDelivery.                                              *)
(***************************************************************************)
EXTENDS DemMessageExporter, ExporterThreadProofs

\* A message may leave the queues for one of these reasons.
Discarded == {"invalid", "invalidNoId", "claim"}

HistoryOK == retried \in Message \cup {NoMessage} /\ before \subseteq Message

\* A payload is there until its message has an ending, or the MSDTC vote on
\* its delivery is on the way.
PayloadKept ==
  /\ \A m \in Message : stage[m] \in {"producing", "accepted"} =>
       m \in payload \cup lost \/ gone[m] # "none" \/ (remote /\ sends[m] > 0)
  /\ pc = "delete" => gone[held] # "none" \/ (remote /\ sends[held] > 0)

\* What the log may say of a message that has been sent.
Logged(m) == log[m] = "Transferred" \/ (remote /\ log[m] = "Failed")

\* What the log says of a message, from the producer's first statement on.
LogKept ==
  /\ \A m \in Message : stage[m] = "new" => log[m] = "Created"
  /\ \A m \in Message : stage[m] \in {"producing", "accepted"} =>
       /\ log[m] # "Created"
       /\ ~remote /\ gone[m] = "none" => log[m] # "Failed"
  /\ pc = "commit" => Logged(held)
  /\ tx = "complete" /\ outcome = "ok" /\ ~requeued => Logged(held)
  /\ pc = "failed" => outcome \in Discarded
  /\ pc = "failed" => IF remote THEN tx = "complete"
                      ELSE gone[held] \in Discarded \cup {"removed"}

\* The message that was sent, on the way out of the queues.
Leaving(m) ==
  /\ m = held /\ outcome = "ok" /\ ~requeued
  /\ pc \in {"success", "commit"} \/ tx = "complete"

\* Deliveries made and the one to come, against the faults so far.
SendsPaid ==
  \A m \in Message :
    /\ sends[m] <= 1 + faults
    /\ m \in Owed /\ ~Leaving(m) => sends[m] <= faults
    /\ stage[m] # "accepted" => sends[m] = 0

\* Whatever of "before" is left still waits in front of the retried message.
AheadOf(i) ==
  \A m \in before : gone[m] = "removed" \/ \E j \in 1..(i - 1) : queue["LOW"][j] = m

AllAhead == \A m \in before : gone[m] = "removed"

RetryBehind ==
  retried # NoMessage =>
    \/ gone[retried] # "none"
    \/ AllAhead
    \/ \E i \in 1..Len(queue["LOW"]) : queue["LOW"][i] = retried /\ AheadOf(i)

Places == Unique /\ Settled

IInv ==
  /\ TypeOK /\ Control(Discarded) /\ Unaccepted /\ NoMessageLost
  /\ Places /\ PayloadKept /\ LogKept /\ DeliveredIsLogged /\ SendsPaid /\ RetryBehind

\* The actions that are this exporter's own.
Own == EnqueueToLowPriority \/ CommitLow \/ EndUsing

LEMMA Parts == TypeOK <=> ThreadOK /\ HistoryOK
BY DEF TypeOK, ThreadOK, HistoryOK

-----------------------------------------------------------------------------
(* Every action is one that both exporters have, or the exporter's own.     *)

LEMMA Splits ==
  ASSUME TypeOK, Control(Discarded), Next
  PROVE  (Still(Discarded) \/ Moving \/ Own) /\ UNCHANGED siteVars
<1>1. UNCHANGED siteVars  BY DEF Next, ThreadStep
<1>2. Still(Discarded) \/ Moving \/ Own
  <2>1. CASE Begin  BY <2>1 DEF Begin, Still
  <2>2. CASE Dequeue  BY <2>2 DEF Dequeue, Still, Moving
  <2>3. CASE Send
    <3>1. \A o : /\ Handler(o) \in {"discard", "requeue", "rollback"}
                 /\ Handler(o) = "discard" => o \in Discarded
      BY DEF Handler, Discarded
    <3> QED BY <2>3, <3>1 DEF Send, Still, Moving
  <2>4. CASE OnSuccess \/ DeleteMessageData  BY <2>4 DEF OnSuccess, DeleteMessageData, Still
  <2>5. CASE CommitSent  BY <2>5 DEF CommitSent, Moving
  <2>6. CASE CatchInvalid \/ CatchRollback  BY <2>6 DEF CatchInvalid, CatchRollback, Moving
  <2>7. CASE OnInvalidMessageException  BY <2>7 DEF OnInvalidMessageException, Still
  <2>8. CASE SleepTime  BY <2>8 DEF SleepTime, Still
  <2>9. CASE Abort
    <3> DEFINE h == CASE pc \in {"send", "success", "commit", "delete"} -> "requeue"
                      [] pc \in {"requeue", "commitLow"} -> "rollback"
                      [] OTHER -> "dispose"
    <3>1. AbortAt(h)  BY <2>9 DEF Abort
    <3>2. h \in {"requeue", "rollback", "dispose"} /\ (h = "requeue" => held \in Message)
      BY DEF Control
    <3> HIDE DEF h
    <3> QED BY <3>1, <3>2 DEF Still
  <2>10. CASE Around  BY <2>10 DEF Around, Still, Moving
  <2> QED
    BY <2>1, <2>2, <2>3, <2>4, <2>5, <2>6, <2>7, <2>8, <2>9, <2>10
       DEF Next, ThreadStep, ExportMessage, Own
<1> QED BY <1>1, <1>2

\* The transaction that ends takes along what was sent on in it.
LEMMA EndsWithLow ==
  ASSUME TypeOK, EndUsing
  PROVE  \E aside \in BOOLEAN : aside = requeued /\ Dispose(aside)
<1>1. requeued \in BOOLEAN  BY DEF TypeOK, QueueTypeOK, MsmqTypeOK
<1>2. PICK aside \in BOOLEAN : aside = requeued  BY <1>1
<1>3. Dispose(requeued)  BY DEF EndUsing
<1>4. Dispose(aside)
  BY <1>2, <1>3 DEF Dispose, DisposeCommits, MakeFinal
<1> QED BY <1>2, <1>4

-----------------------------------------------------------------------------
(* Control and shape of the actions of its own.                             *)

LEMMA OwnControl ==
  ASSUME TypeOK, Control(Discarded), Own
  PROVE  Control(Discarded)'
<1> USE MsmqQueueAssumption, ExportQueueAssumption
<1>0. /\ held \in Message \cup {NoMessage} /\ sends \in [Message -> Nat]
      /\ remote \in BOOLEAN /\ requeued \in BOOLEAN
  BY DEF TypeOK, QueueTypeOK, MsmqTypeOK
<1>1. CASE EnqueueToLowPriority
  BY <1>0, <1>1 DEF EnqueueToLowPriority, Control, MayLetGo, Goto, NoFault, Fault
<1>2. CASE CommitLow
  BY <1>0, <1>2 DEF CommitLow, Commit, CommitThrows, Control, MayLetGo, Goto, NoFault, Fault
<1>3. CASE EndUsing
  BY <1>3, Parts, EndsWithLow, DisposeControl
<1> QED BY <1>1, <1>2, <1>3 DEF Own

LEMMA OwnShape ==
  ASSUME TypeOK, Control(Discarded), Own
  PROVE  QueuesOK' /\ Shape(Discarded)
<1>0. ThreadOK /\ requeued \in BOOLEAN  BY Parts DEF ThreadOK, QueueTypeOK, MsmqTypeOK
<1>1. CASE EnqueueToLowPriority
  <2>1. UNCHANGED <<queue, tx, held, gone, sends, stage>>
    BY <1>1 DEF EnqueueToLowPriority
  <2> QED BY <1>0, <2>1, Leaves DEF ThreadOK, Quiet, Shape, SameAccepted
<1>2. CASE CommitLow
  <2>1. tx = "pending" /\ held \in Message /\ requeued = TRUE
    BY <1>0, <1>2 DEF CommitLow, Control
  <2>2. Commit(requeued) \/ CommitThrows  BY <1>2 DEF CommitLow
  <2>3. Commit(TRUE) \/ CommitThrows  BY <2>1, <2>2 DEF Commit, MakeFinal
  <2>4. UNCHANGED <<stage, sends>>  BY <1>2 DEF CommitLow
  <2> QED BY <1>0, <2>1, <2>3, <2>4, CommitShape
<1>3. CASE EndUsing
  BY <1>0, <1>3, EndsWithLow, DisposeShape
<1> QED BY <1>1, <1>2, <1>3 DEF Own

LEMMA Step ==
  ASSUME TypeOK, Control(Discarded), Next
  PROVE  Control(Discarded)' /\ QueuesOK' /\ Shape(Discarded) /\ UNCHANGED siteVars
BY Parts, Splits, StillControl, MovingControl, OwnControl, StillShape, MovingShape, OwnShape

-----------------------------------------------------------------------------
(* Places: here a message is in one place at a time.                        *)

LEMMA MovesStep ==
  ASSUME TypeOK, Control(Discarded), Unaccepted, Places, Next
  PROVE  \/ ScanReceive /\ Takes(scanAt) /\ held' = Head(queue[scanAt])
         \/ Keeps({"removed"})
<1>0. ThreadOK /\ requeued \in BOOLEAN /\ Unique /\ Settled
  BY Parts DEF ThreadOK, QueueTypeOK, MsmqTypeOK, Places
<1>1. CASE Still(Discarded)  BY <1>0, <1>1, StillMoves DEF Keeps
<1>2. CASE Moving  BY <1>0, <1>2, MovingMoves
<1>3. CASE EnqueueToLowPriority
  <2>1. UNCHANGED <<queue, tx, held, gone>>  BY <1>3 DEF EnqueueToLowPriority
  <2> QED BY <2>1 DEF Keeps, Rests, InTx
<1>4. CASE CommitLow
  <2>1. tx = "pending" /\ held \in Message  BY <1>4 DEF CommitLow, Control
  <2>2. Commit(requeued) \/ CommitThrows  BY <1>4 DEF CommitLow
  <2> QED BY <1>0, <2>1, <2>2, CommitMoves
<1>5. CASE EndUsing
  <2>1. PICK aside \in BOOLEAN : aside = requeued /\ Dispose(aside)  BY <1>5, EndsWithLow
  <2> QED BY <1>0, <2>1, DisposeMoves
<1> QED BY <1>1, <1>2, <1>3, <1>4, <1>5, Splits DEF Own

LEMMA PlacesStep ==
  ASSUME TypeOK, Control(Discarded), Unaccepted, Places, Next
  PROVE  /\ Places'
         /\ \A m \in Message : gone[m] # "none" => gone'[m] = gone[m]
<1> DEFINE Gone == Outcome \cup {"none", "removed"}
<1>1. QueuesOK /\ gone \in [Message -> Gone] /\ Unique /\ Settled
  BY TypedQueues DEF TypeOK, QueueTypeOK, Places
<1>2. scanAt \in QueueName
  BY MsmqQueueAssumption DEF TypeOK, ThreadTypeOK
<1>3. Moves({"removed"})  BY <1>2, MovesStep DEF Moves
<1> HIDE DEF Gone
<1> QED BY <1>1, <1>3, MovesUnique, EndedForEver DEF Places

\* A message in the transaction has been accepted and has no ending.
LEMMA HeldOwed ==
  ASSUME TypeOK, Unaccepted, Places, Open, held \in Message
  PROVE  held \in Owed /\ stage[held] = "accepted" /\ gone[held] = "none"
<1>1. held \in Owed  BY MsmqQueueAssumption DEF Owed, InTx, Open
<1> QED BY <1>1 DEF Unaccepted, Places, Settled

\* Nothing else counts as a delivery.
LEMMA SendsUntouched ==
  ASSUME TypeOK, Control(Discarded), Next, ~SendSucceeds PROVE sends' = sends
<1>1. CASE Still(Discarded)
  BY <1>1 DEF Still, BeginExport, WaitAny, ScanNext, DequeueFails, SendThrows, Succeed,
              DeletePayload, LogDiscarded, Sleep, AbortAt, Restart, queueVars
<1>2. CASE Moving
  BY <1>2, SurroundingsLeave DEF Moving, ScanReceive, CommitExport, Discard, RollBackExport, Crash
<1>3. CASE Own
  BY <1>3 DEF Own, EnqueueToLowPriority, CommitLow, EndUsing, Dispose
<1> QED BY <1>1, <1>2, <1>3, Splits

-----------------------------------------------------------------------------
(* Payloads.                                                                *)

LEMMA OwnLeavesPayloads ==
  ASSUME Own PROVE UNCHANGED <<stage, payload, lost>> /\ pc' # "delete"
BY DEF Own, EnqueueToLowPriority, CommitLow, EndUsing, Dispose, AfterExport, Goto

LEMMA PayloadStep ==
  ASSUME TypeOK, Control(Discarded), Unaccepted, Places, PayloadKept, Next
  PROVE  PayloadKept'
<1>1. /\ Shape(Discarded) /\ remote' = remote
      /\ \A m \in Message : gone[m] # "none" => gone'[m] = gone[m]
      /\ \A m \in Message : sends[m] > 0 => sends'[m] > 0
  BY Step, PlacesStep, SendsStay DEF TypeOK, siteVars
<1>0. /\ stage \in [Message -> {"new", "producing", "accepted", "given up"}]
      /\ gone \in [Message -> Outcome \cup {"none", "removed"}]
  BY DEF TypeOK, QueueTypeOK
<1>2. CASE \E h \in {"requeue", "rollback"} : DeletePayload(h)
  <2>1. pc = "delete" /\ pc' # "delete" /\ UNCHANGED <<stage, lost>> /\ held \in Message
    BY <1>2 DEF DeletePayload, Goto, Control
  <2>2. payload \ {held} \subseteq payload'  BY <1>2 DEF DeletePayload
  <2>3. gone'[held] # "none" \/ (remote /\ sends'[held] > 0)
    BY <1>1, <2>1 DEF PayloadKept
  <2> QED BY <1>1, <2>1, <2>2, <2>3 DEF PayloadKept
<1>3. CASE \E h \in {"requeue", "rollback"} : CommitExport(h)
  <2>1. /\ held \in Message /\ outcome = "ok" /\ sends[held] > 0 /\ requeued = FALSE
        /\ held' = held /\ UNCHANGED <<stage, payload, lost>>
    <3>1. requeued \in BOOLEAN  BY DEF TypeOK, QueueTypeOK, MsmqTypeOK
    <3> QED BY <1>3, <3>1 DEF CommitExport, Control, Commit, CommitThrows
  <2>2. pc' = "delete" => gone'[held] # "none" \/ remote
    <3>1. CASE Commit(FALSE) /\ ~remote
      BY <1>0, <2>1, <3>1, MsmqQueueAssumption DEF Commit, MakeFinal
    <3>2. CASE CommitThrows  BY <1>3, <3>2 DEF CommitExport, Commit, CommitThrows, Goto, NoFault, Fault
    <3> QED BY <1>3, <3>1, <3>2 DEF CommitExport
  <2> QED BY <1>1, <2>1, <2>2 DEF PayloadKept
<1>4. CASE Surroundings
  <2>1. Environment /\ pc' = pc /\ held' = held  BY <1>4, SurroundingsLeave
  <2>2. pc' = "delete" => gone'[held'] # "none" \/ (remote' /\ sends'[held'] > 0)
    <3>1. pc = "delete" => held \in Message  BY DEF Control
    <3> QED BY <1>1, <2>1, <3>1 DEF PayloadKept
  <2> QED BY <1>1, <2>1, <2>2, EnvironmentPayloads DEF PayloadKept, TypeOK
<1>5. CASE UNCHANGED <<stage, payload, lost>> /\ pc' # "delete"
  BY <1>1, <1>5 DEF PayloadKept
<1>6. (Still(Discarded) \/ Moving) \/ Own  BY Splits
<1>7. Own => UNCHANGED <<stage, payload, lost>> /\ pc' # "delete"  BY OwnLeavesPayloads
<1>8. CASE /\ Still(Discarded) \/ Moving
           /\ ~Surroundings
           /\ \A h \in {"requeue", "rollback"} : ~DeletePayload(h) /\ ~CommitExport(h)
  BY <1>5, <1>8, PayloadsUntouched
<1> QED
  BY <1>2, <1>3, <1>4, <1>5, <1>6, <1>7, <1>8

-----------------------------------------------------------------------------
(* The message log.                                                         *)

\* The first and the last of the conjuncts: rows nobody else writes.
LEMMA LogUntouched ==
  ASSUME TypeOK, Control(Discarded), Unaccepted, Places, LogKept, DeliveredIsLogged,
         UNCHANGED <<log, gone, stage, remote, held>>, pc' \notin {"commit", "failed"},
         tx' = "complete" /\ outcome' = "ok" /\ ~requeued' =>
           tx = "complete" /\ outcome = "ok" /\ ~requeued
  PROVE  LogKept' /\ DeliveredIsLogged'
BY DEF LogKept, DeliveredIsLogged, Logged

LEMMA StillLogged ==
  ASSUME TypeOK, Control(Discarded), Unaccepted, Places, LogKept, DeliveredIsLogged,
         Still(Discarded), UNCHANGED siteVars
  PROVE  LogKept' /\ DeliveredIsLogged'
<1> USE DEF Goto, NoFault, Fault, siteVars
<1>0. log \in [Message -> Status] /\ held \in Message \cup {NoMessage}
  BY DEF TypeOK, QueueTypeOK, MsmqTypeOK
<1>1. CASE \E b \in BOOLEAN : BeginExport(b)
  BY <1>1, MsmqQueueAssumption DEF BeginExport, BeginTransaction, LogKept, DeliveredIsLogged, Logged
<1>2. CASE \E o \in SendEndings, h \in {"discard", "requeue", "rollback"} :
             (h = "discard" => o \in Discarded) /\ SendThrows(o, h)
  BY <1>2, LogUntouched DEF SendThrows, Control
<1>3. CASE \E h \in {"requeue", "rollback"} : Succeed(h)
  <2>1. /\ held \in Message /\ stage[held] = "accepted" /\ gone[held] = "none"
        /\ tx = "pending" /\ outcome = "ok"
    BY <1>3, HeldOwed DEF Succeed, Control, Open
  <2>2. CASE log' = log /\ pc' \in {"requeue", "rollback"}
    BY <1>3, <2>1, <2>2, LogUntouched DEF Succeed, TransactionVars
  <2>3. CASE log' = LogTransferred(held)
    <3>1. log[held] \in {"Enqueued", "Transferred"} \/ (remote /\ log[held] = "Failed")
      BY <1>0, <2>1 DEF LogKept, Status
    <3>2. Logged(held)' /\ log'[held] # "Created"  /\ (~remote => log'[held] # "Failed")
      BY <1>0, <1>3, <2>1, <2>3, <3>1 DEF LogTransferred, Succeed, TransactionVars, Logged
    <3>3. \A m \in Message : m # held => log'[m] = log[m]
      BY <1>0, <2>3 DEF LogTransferred
    <3> QED BY <1>3, <2>1, <3>2, <3>3
            DEF Succeed, TransactionVars, LogKept, DeliveredIsLogged, Logged
  <2> QED BY <1>3, <2>2, <2>3 DEF Succeed
<1>4. CASE LogDiscarded
  <2>1. UNCHANGED <<gone, stage, held, tx, outcome, requeued>> /\ pc' = "dispose"
        /\ outcome \in Discarded /\ pc = "failed" /\ held \in Message
    BY <1>4 DEF LogDiscarded, TransactionVars, LogKept, Control
  <2>2. CASE log' = log
    BY <2>1, <2>2, LogUntouched
  <2>3. CASE log' = LogFailed(held)
    <3>1. /\ log'[held] = "Failed"
          /\ \A m \in Message : m # held => log'[m] = log[m]
      BY <1>0, <2>1, <2>3 DEF LogFailed
    <3>2. stage[held] = "accepted"
      <4>1. CASE remote
        BY <2>1, <4>1, HeldOwed DEF LogKept, Open
      <4>2. CASE ~remote
        <5>1. gone[held] # "none"  BY <2>1, <4>2 DEF LogKept, Discarded
        <5> QED BY <2>1, <5>1 DEF Unaccepted
      <4> QED BY <4>1, <4>2
    <3>3. remote \/ gone[held] \notin {"none", "ok"}
      BY <2>1 DEF LogKept, Discarded
    <3>4. outcome # "ok"  BY <2>1 DEF Discarded
    <3> QED BY <2>1, <3>1, <3>2, <3>3, <3>4 DEF LogKept, DeliveredIsLogged, Logged
  <2> QED BY <1>4, <2>2, <2>3 DEF LogDiscarded
<1>5. CASE \E h \in {"requeue", "rollback"} : DeletePayload(h)
  BY <1>5, LogUntouched DEF DeletePayload, TransactionVars
<1>6. CASE \E h \in {"requeue", "rollback", "dispose"} :
              (h = "requeue" => held \in Message) /\ AbortAt(h)
  BY <1>6, LogUntouched DEF AbortAt, TransactionVars
<1>7. CASE WaitAny \/ ScanNext \/ DequeueFails \/ Sleep \/ Restart
  BY <1>7, LogUntouched DEF WaitAny, ScanNext, DequeueFails, Sleep, Restart, queueVars,
                            TransactionVars
<1> QED BY <1>1, <1>2, <1>3, <1>4, <1>5, <1>6, <1>7 DEF Still

\* A commit: what has an ending from now on, or will have at the end of the
\* scope, is logged.
LEMMA CommitLogged ==
  ASSUME TypeOK, Control(Discarded), Unaccepted, Places, LogKept, DeliveredIsLogged,
         NEW aside \in BOOLEAN, Commit(aside), UNCHANGED <<stage, log, remote>>,
         held \in Message, requeued \/ outcome = "ok" => requeued \/ Logged(held),
         pc' # "commit", pc' = "failed" => outcome \in Discarded /\ ~requeued
  PROVE  LogKept' /\ DeliveredIsLogged'
<1>1. UNCHANGED <<held, requeued, outcome>> /\ tx = "pending"  BY DEF Commit
<1>0. gone \in [Message -> Outcome \cup {"none", "removed"}] /\ held # NoMessage
      /\ outcome \in Outcome /\ requeued \in BOOLEAN
  BY MsmqQueueAssumption DEF TypeOK, QueueTypeOK, MsmqTypeOK
<1>2. CASE remote
  <2>1. tx' = "complete" /\ gone' = gone  BY <1>2 DEF Commit
  <2> QED BY <1>0, <1>1, <1>2, <2>1 DEF LogKept, DeliveredIsLogged, Logged
<1>3. CASE ~remote /\ requeued
  <2>1. tx' = "committed" /\ gone' = gone  BY <1>3 DEF Commit, MakeFinal
  <2> QED BY <1>0, <1>1, <1>3, <2>1 DEF LogKept, DeliveredIsLogged, Logged
<1>4. CASE ~remote /\ ~requeued
  <2>1. tx' = "committed" /\ gone' = [gone EXCEPT ![held] = outcome]
    BY <1>0, <1>4 DEF Commit, MakeFinal
  <2>2. gone'[held] = outcome /\ \A m \in Message : m # held => gone'[m] = gone[m]
    BY <1>0, <2>1
  <2>3. outcome = "ok" => log[held] = "Transferred"  BY <1>4 DEF Logged
  <2>4. outcome # "none"  BY <1>0 DEF Outcome
  <2>5. DeliveredIsLogged'
    BY <1>1, <2>2, <2>3 DEF DeliveredIsLogged
  <2>6. LogKept'
    BY <1>0, <1>1, <1>4, <2>1, <2>2, <2>4 DEF LogKept
  <2> QED BY <2>5, <2>6
<1> QED BY <1>0, <1>2, <1>3, <1>4

LEMMA MovingLogged ==
  ASSUME TypeOK, Control(Discarded), Unaccepted, Places, LogKept, DeliveredIsLogged,
         Moving, UNCHANGED siteVars,
         \A m \in Message : gone[m] # "none" => gone'[m] = gone[m]
  PROVE  LogKept' /\ DeliveredIsLogged'
<1> USE DEF Goto, NoFault, Fault, siteVars
<1>0. /\ log \in [Message -> Status] /\ held \in Message \cup {NoMessage}
      /\ stage \in [Message -> {"new", "producing", "accepted", "given up"}]
      /\ requeued \in BOOLEAN /\ gone \in [Message -> Outcome \cup {"none", "removed"}]
  BY DEF TypeOK, QueueTypeOK, MsmqTypeOK
<1>1. CASE ScanReceive
  <2>1. UNCHANGED <<log, gone, stage, remote>> /\ pc' \in {"dispose", "send"} /\ tx' = "pending"
    BY <1>1 DEF ScanReceive, Receive, Control
  <2> QED BY <2>1 DEF LogKept, DeliveredIsLogged, Logged
<1>2. CASE SendSucceeds
  BY <1>2, LogUntouched DEF SendSucceeds, Control
<1>3. CASE \E h \in {"requeue", "rollback"} : CommitExport(h)
  <2>1. held \in Message /\ Logged(held) /\ UNCHANGED <<stage, log>>
    BY <1>3 DEF CommitExport, Control, LogKept
  <2>2. CASE Commit(FALSE) /\ pc' = "delete"  BY <2>1, <2>2, CommitLogged
  <2>3. CASE CommitThrows /\ pc' \in {"requeue", "rollback"}
    BY <2>1, <2>3, LogUntouched DEF CommitThrows
  <2> QED BY <1>3, <2>2, <2>3 DEF CommitExport
<1>4. CASE Discard
  <2>1. held \in Message /\ outcome \in Discarded /\ outcome # "ok" /\ ~requeued
        /\ UNCHANGED <<stage, log>>
    BY <1>0, <1>4 DEF Discard, Control, Discarded
  <2>2. CASE Commit(FALSE) /\ pc' = "failed"  BY <2>1, <2>2, CommitLogged
  <2>3. CASE CommitThrows /\ pc' = "dispose"
    BY <2>1, <2>3, LogUntouched DEF CommitThrows
  <2> QED BY <1>4, <2>2, <2>3 DEF Discard
<1>5. CASE RollBackExport
  <2>1. UNCHANGED <<log, gone, stage, held, requeued, outcome>> /\ pc' = "dispose"
        /\ (tx' = tx \/ tx' = "aborted")
    BY <1>5 DEF RollBackExport, Rollback, RollbackThrows, TransactionVars, PutBack
  <2> QED BY <2>1, LogUntouched
<1>6. CASE Crash
  <2>1. UNCHANGED <<log, gone, stage>> /\ pc' = "down" /\ tx' = "none"
    BY <1>6 DEF Crash, DisposeAborts, DisposeNothing, EndTransaction, PutBack
  <2> QED BY <2>1 DEF LogKept, DeliveredIsLogged, Logged
<1>7. CASE Surroundings
  <2>1. Environment /\ UNCHANGED <<pc, tx, held, requeued, outcome>>
    BY <1>7, SurroundingsLeave
  <2>2. \A m \in Message : stage'[m] = "new" => stage[m] = "new" /\ log'[m] = log[m]
    BY <1>0, <2>1 DEF Environment, ProducerEnqueue, ProducerCommit, ProducerFails,
                      OperatorRemoves, PayloadDisappears, LogEnqueued
  <2>3. \A m \in Message : stage[m] # "new" => log'[m] = log[m]
    BY <1>0, <2>1 DEF Environment, ProducerEnqueue, ProducerCommit, ProducerFails,
                      OperatorRemoves, PayloadDisappears, LogEnqueued
  <2>4. \A m \in Message : stage'[m] \in {"producing", "accepted"} =>
          \/ stage[m] \in {"producing", "accepted"} /\ log'[m] = log[m]
          \/ stage[m] = "new" /\ log'[m] = LogEnqueued(m)[m]
    <3>1. CASE \E m \in Message : ProducerEnqueue(m)
      BY <1>0, <2>3, <3>1 DEF ProducerEnqueue
    <3>2. CASE \E m \in Message, p \in Priority : ProducerCommit(m, p)
      BY <1>0, <3>2 DEF ProducerCommit
    <3>3. CASE \E m \in Message : ProducerFails(m)  BY <1>0, <3>3 DEF ProducerFails
    <3>4. CASE UNCHANGED <<stage, log>>  BY <1>0, <3>4
    <3> QED BY <2>1, <3>1, <3>2, <3>3, <3>4 DEF Environment, OperatorRemoves, PayloadDisappears
  <2>5. \A m \in Message : stage[m] = "new" => LogEnqueued(m)[m] = "Enqueued"
    BY <1>0 DEF LogKept, LogEnqueued
  <2>6. \A m \in Message : gone'[m] = gone[m] \/ gone'[m] = "removed"
    <3>1. CASE gone' = gone  BY <3>1
    <3>2. CASE \E p \in QueueName : \E i \in 1..Len(queue[p]) : OperatorRemoves(p, i)
      BY <1>0, <3>2 DEF OperatorRemoves
    <3> QED BY <2>1, <3>1, <3>2 DEF Environment, ProducerEnqueue, ProducerCommit,
                                   ProducerFails, PayloadDisappears
  <2>7. \A m \in Message : stage'[m] \in {"producing", "accepted"} =>
          log'[m] # "Created" /\ (~remote' /\ gone'[m] = "none" => log'[m] # "Failed")
    BY <2>4, <2>5, <2>6 DEF LogKept
  <2>8. \A m \in Message : stage[m] = "accepted" /\ Logged(m) => Logged(m)'
    BY <2>3 DEF Logged
  <2>9. pc = "commit" \/ tx = "complete" => held \in Message /\ stage[held] = "accepted"
    BY HeldOwed DEF Control, Open
  <2>10. \A m \in Message : gone'[m] = "ok" => stage[m] = "accepted" /\ gone[m] = "ok"
    BY <2>6 DEF Unaccepted
  <2>11. DeliveredIsLogged'
    BY <2>8, <2>10 DEF DeliveredIsLogged, Logged
  <2>12. pc = "failed" => IF remote THEN tx = "complete"
                          ELSE gone'[held] \in Discarded \cup {"removed"}
    BY <2>6 DEF LogKept, Control
  <2>13. LogKept'
    BY <2>1, <2>2, <2>7, <2>8, <2>9, <2>12 DEF LogKept
  <2> QED BY <2>11, <2>13
<1> QED BY <1>1, <1>2, <1>3, <1>4, <1>5, <1>6, <1>7 DEF Moving

LEMMA OwnLogged ==
  ASSUME TypeOK, Control(Discarded), Unaccepted, Places, LogKept, DeliveredIsLogged,
         Own, UNCHANGED siteVars
  PROVE  LogKept' /\ DeliveredIsLogged'
<1> USE DEF Goto, NoFault, Fault, siteVars
<1>0. /\ log \in [Message -> Status] /\ held \in Message \cup {NoMessage}
      /\ requeued \in BOOLEAN /\ gone \in [Message -> Outcome \cup {"none", "removed"}]
  BY DEF TypeOK, QueueTypeOK, MsmqTypeOK
<1>1. CASE EnqueueToLowPriority
  <2>1. CASE UNCHANGED <<log, requeued>>
    BY <1>1, <2>1, LogUntouched DEF EnqueueToLowPriority
  <2>2. CASE tx = "pending" /\ log' = LogEnqueued(held)
    <3>1. held \in Message /\ stage[held] = "accepted"
      BY <1>1, <2>2, HeldOwed DEF EnqueueToLowPriority, Control, Open
    <3>2. log[held] # "Created"  BY <3>1 DEF LogKept
    <3>3. log' = log  BY <1>0, <2>2, <3>1, <3>2 DEF LogEnqueued
    <3> QED BY <1>1, <2>2, <3>3, LogUntouched DEF EnqueueToLowPriority
  <2> QED BY <1>1, <2>1, <2>2 DEF EnqueueToLowPriority
<1>2. CASE CommitLow
  <2>1. held \in Message /\ requeued = TRUE /\ UNCHANGED <<stage, log>>
    BY <1>0, <1>2 DEF CommitLow, Control
  <2>2. CASE Commit(requeued) /\ pc' = "dispose"  BY <2>1, <2>2, CommitLogged
  <2>3. CASE CommitThrows /\ pc' = "rollback"
    BY <2>1, <2>3, LogUntouched DEF CommitThrows
  <2> QED BY <1>2, <2>2, <2>3 DEF CommitLow
<1>3. CASE EndUsing
  <2>1. UNCHANGED <<stage, log>> /\ tx' = "none" /\ pc' \in {"dead", "idle", "sleep"}
    BY <1>3 DEF EndUsing, Dispose, DisposeCommits, DisposeAborts, DisposeNothing,
                EndTransaction, AfterExport
  <2>2. CASE gone' = gone
    BY <2>1, <2>2 DEF LogKept, DeliveredIsLogged, Logged
  <2>3. CASE gone' # gone
    <3>1. /\ tx = "complete" /\ held \in Message /\ ~requeued
          /\ gone' = [gone EXCEPT ![held] = outcome]
      BY <1>3, <2>3 DEF EndUsing, Dispose, DisposeCommits, DisposeAborts, DisposeNothing,
                        PutBack, MakeFinal, Control
    <3>2. gone'[held] = outcome /\ \A m \in Message : m # held => gone'[m] = gone[m]
      BY <1>0, <3>1
    <3>3. outcome # "none"  BY DEF TypeOK, QueueTypeOK, Outcome
    <3>4. outcome = "ok" => Logged(held)  BY <3>1 DEF LogKept
    <3> QED BY <2>1, <3>1, <3>2, <3>3, <3>4 DEF LogKept, DeliveredIsLogged, Logged
  <2> QED BY <2>2, <2>3
<1> QED BY <1>1, <1>2, <1>3 DEF Own

LEMMA LogStep ==
  ASSUME TypeOK, Control(Discarded), Unaccepted, Places, LogKept, DeliveredIsLogged, Next
  PROVE  LogKept' /\ DeliveredIsLogged'
BY Splits, PlacesStep, StillLogged, MovingLogged, OwnLogged

-----------------------------------------------------------------------------
(* Types.                                                                   *)

LEMMA NoteRetryTyped ==
  ASSUME TypeOK, NEW ACTION final, NoteRetry(final), final => held \in Message
  PROVE  HistoryOK'
<1>1. Contents(Aside) \subseteq Message
  BY MsmqQueueAssumption, TypedQueues, ContentsTyped DEF TypeOK
<1> QED BY <1>1 DEF NoteRetry, historyVars, TypeOK, HistoryOK

LEMMA HistoryStep ==
  ASSUME TypeOK, Control(Discarded), Next
  PROVE  HistoryOK'
<1>1. CASE CommitLow
  <2>1. held \in Message  BY <1>1 DEF CommitLow, Control
  <2> QED BY <1>1, <2>1, NoteRetryTyped DEF CommitLow, TypeOK, HistoryOK, historyVars
<1>2. CASE EndUsing
  <2>1. tx = "complete" => held \in Message  BY DEF Control
  <2> QED BY <1>2, <2>1, NoteRetryTyped DEF EndUsing
<1>3. CASE ~CommitLow /\ ~EndUsing
  BY <1>3 DEF Next, ThreadStep, ExportMessage, Begin, Dequeue, Send, OnSuccess, CommitSent,
              DeleteMessageData, CatchInvalid, OnInvalidMessageException,
              EnqueueToLowPriority, CatchRollback, SleepTime, Abort, Around,
              TypeOK, HistoryOK, historyVars
<1> QED BY <1>1, <1>2, <1>3

LEMMA OwnTyped ==
  ASSUME TypeOK, Control(Discarded), Own, QueuesOK', Shape(Discarded), UNCHANGED siteVars
  PROVE  ThreadOK'
<1> DEFINE Gone == [Message -> Outcome \cup {"none", "removed"}]
<1>1. /\ queue' \in [QueueName -> Seq(Message)] /\ gone' \in Gone
      /\ sends' \in [Message -> Nat] /\ remote' \in BOOLEAN /\ corrupt' \subseteq Message
  BY Parts, Typed
<1>2. \A kind : Fault(kind) => faults' \in 0..MaxFaults  BY FaultTyped DEF TypeOK
<1> HIDE DEF Gone
<1>3. CASE EnqueueToLowPriority
  BY <1>1, <1>2, <1>3, LogTyped
     DEF EnqueueToLowPriority, Control, ThreadOK, TypeOK, QueueTypeOK, MsmqTypeOK,
         ThreadTypeOK, Goto, NoFault, Gone
<1>4. CASE CommitLow
  BY <1>1, <1>2, <1>4
     DEF CommitLow, Commit, CommitThrows, ThreadOK, TypeOK, QueueTypeOK, MsmqTypeOK,
         ThreadTypeOK, Goto, NoFault, Gone
<1>5. CASE EndUsing
  BY <1>5, Parts, EndsWithLow, DisposeTyped
<1> QED BY <1>3, <1>4, <1>5 DEF Own

LEMMA TypeStep ==
  ASSUME TypeOK, Control(Discarded), Next
  PROVE  TypeOK'
<1>1. ThreadOK'  BY Parts, Splits, Step, StillTyped, MovingTyped, OwnTyped
<1>2. HistoryOK'  BY HistoryStep
<1> QED BY <1>1, <1>2 DEF TypeOK, ThreadOK, HistoryOK

-----------------------------------------------------------------------------
(* Repetitions.  A step either costs a fault or lets what is on its way out *)
(* go on.                                                                   *)

NotRecalled == \A m \in Owed' : Leaving(m) => Leaving(m)'

Paid == faults' = faults + 1 \/ (faults' = faults /\ NotRecalled)

LEMMA FaultsCounted == ASSUME TypeOK PROVE faults \in Nat
<1>1. faults \in 0..MaxFaults  BY DEF TypeOK, QueueTypeOK, MsmqTypeOK
<1>2. MaxFaults \in Nat  BY MsmqQueueAssumption
<1> QED BY <1>1, <1>2

LEMMA StillPaid ==
  ASSUME TypeOK, Control(Discarded), LogKept, Still(Discarded)
  PROVE  Paid
<1> USE DEF Goto, NoFault, Fault, Control, Paid, NotRecalled, Leaving
<1>1. CASE \E b \in BOOLEAN : BeginExport(b)  BY <1>1 DEF BeginExport
<1>2. CASE WaitAny \/ ScanNext \/ DequeueFails
  BY <1>2 DEF WaitAny, ScanNext, DequeueFails, queueVars
<1>3. CASE \E o \in SendEndings, h \in {"discard", "requeue", "rollback"} :
             (h = "discard" => o \in Discarded) /\ SendThrows(o, h)
  BY <1>3 DEF SendThrows
<1>4. CASE \E h \in {"requeue", "rollback"} : Succeed(h)
  BY <1>4 DEF Succeed, TransactionVars
<1>5. CASE \E h \in {"requeue", "rollback"} : DeletePayload(h)
  BY <1>5 DEF DeletePayload, TransactionVars
<1>6. CASE LogDiscarded  BY <1>6 DEF LogDiscarded, TransactionVars
<1>7. CASE Sleep \/ Restart  BY <1>7 DEF Sleep, Restart, queueVars
<1>8. CASE \E h \in {"requeue", "rollback", "dispose"} :
              (h = "requeue" => held \in Message) /\ AbortAt(h)
  BY <1>8 DEF AbortAt
<1> QED BY <1>1, <1>2, <1>3, <1>4, <1>5, <1>6, <1>7, <1>8 DEF Still

\* What has an ending after the step needs no more deliveries.
LEMMA EndedNotOwed ==
  ASSUME Places', NEW m \in Message, gone'[m] # "none" PROVE m \notin Owed'
BY DEF Places, Settled

\* A receive that becomes final, or is voted for.
LEMMA CommitPaid ==
  ASSUME TypeOK, Places', NEW aside \in BOOLEAN, Commit(aside), held \in Message,
         faults' = faults
  PROVE  Paid
<1>0. gone \in [Message -> Outcome \cup {"none", "removed"}] /\ held # NoMessage
      /\ outcome \in Outcome
  BY MsmqQueueAssumption DEF TypeOK, QueueTypeOK
<1>1. UNCHANGED <<held, requeued, outcome>>  BY DEF Commit
<1>2. CASE remote
  <2>1. tx' = "complete"  BY <1>2 DEF Commit
  <2> QED BY <1>1, <2>1 DEF Paid, NotRecalled, Leaving
<1>3. CASE ~remote /\ Leaving(held)
  <2>1. gone' = [gone EXCEPT ![held] = outcome]
    BY <1>0, <1>3 DEF Commit, MakeFinal, Leaving
  <2>2. gone'[held] = outcome /\ outcome # "none"  BY <1>0, <2>1 DEF Outcome
  <2>3. held \notin Owed'  BY <2>2, EndedNotOwed
  <2> QED BY <2>3 DEF Paid, NotRecalled, Leaving
<1>4. CASE ~Leaving(held)  BY <1>4 DEF Paid, NotRecalled, Leaving
<1> QED BY <1>2, <1>3, <1>4

LEMMA MovingPaid ==
  ASSUME TypeOK, Control(Discarded), Places', Moving
  PROVE  Paid
<1> USE DEF Goto, NoFault, Fault
<1>1. CASE ScanReceive
  BY <1>1 DEF ScanReceive, Control, Paid, NotRecalled, Leaving
<1>2. CASE SendSucceeds
  BY <1>2 DEF SendSucceeds, Control, Paid, NotRecalled, Leaving
<1>3. CASE Discard \/ \E h \in {"requeue", "rollback"} : CommitExport(h)
  <2>1. held \in Message  BY <1>3 DEF Discard, CommitExport, Control
  <2>2. CASE Commit(FALSE) /\ faults' = faults  BY <2>1, <2>2, CommitPaid
  <2>3. CASE CommitThrows  BY <2>3 DEF CommitThrows, Paid
  <2> QED BY <1>3, <2>2, <2>3 DEF Discard, CommitExport
<1>4. CASE RollBackExport
  <2>1. faults' = faults /\ UNCHANGED <<held, requeued, outcome>> /\ pc = "rollback"
        /\ (tx' = tx \/ tx = "pending")
    BY <1>4 DEF RollBackExport, Rollback, TransactionVars
  <2> QED BY <2>1 DEF Paid, NotRecalled, Leaving
<1>5. CASE Crash  BY <1>5 DEF Crash, Paid
<1>6. CASE Surroundings
  <2>1. Environment /\ UNCHANGED <<pc, tx, held, requeued, outcome>>
    BY <1>6, SurroundingsLeave
  <2>2. faults' = faults + 1 \/ faults' = faults
    BY <2>1 DEF Environment, ProducerEnqueue, ProducerCommit, ProducerFails, OperatorRemoves,
                PayloadDisappears
  <2> QED BY <2>1, <2>2 DEF Paid, NotRecalled, Leaving
<1> QED BY <1>1, <1>2, <1>3, <1>4, <1>5, <1>6 DEF Moving

LEMMA OwnPaid ==
  ASSUME TypeOK, Control(Discarded), Places', Own
  PROVE  Paid
<1> USE DEF Goto, NoFault, Fault
<1>1. CASE EnqueueToLowPriority
  BY <1>1 DEF EnqueueToLowPriority, Paid, NotRecalled, Leaving
<1>2. CASE CommitLow
  <2>1. held \in Message /\ requeued \in BOOLEAN
    BY <1>2 DEF CommitLow, Control, TypeOK, QueueTypeOK, MsmqTypeOK
  <2>2. CASE Commit(requeued) /\ faults' = faults  BY <2>1, <2>2, CommitPaid
  <2>3. CASE CommitThrows  BY <2>3 DEF CommitThrows, Paid
  <2> QED BY <1>2, <2>2, <2>3 DEF CommitLow
<1>3. CASE EndUsing
  <2>1. pc = "dispose" /\ (faults' = faults + 1 \/ faults' = faults)
    BY <1>3 DEF EndUsing, Dispose
  <2>2. CASE faults' = faults /\ Leaving(held)
    <3>0. \A kind : ~Fault(kind)
      <4>1. faults' # faults + 1  BY <2>2, FaultsCounted
      <4> QED BY <4>1
    <3>1. DisposeCommits(requeued) /\ held \in Message /\ ~requeued
      BY <1>3, <3>0, <2>1, <2>2 DEF EndUsing, Dispose, DisposeNothing, Leaving, Control
    <3>2. gone \in [Message -> Outcome \cup {"none", "removed"}] /\ held # NoMessage
          /\ outcome \in Outcome
      BY <3>1, MsmqQueueAssumption DEF TypeOK, QueueTypeOK
    <3>3. gone' = [gone EXCEPT ![held] = outcome]
      BY <3>1, <3>2 DEF DisposeCommits, MakeFinal
    <3>4. gone'[held] # "none"  BY <3>1, <3>2, <3>3 DEF Outcome
    <3>5. held \notin Owed'  BY <3>1, <3>4, EndedNotOwed
    <3> QED BY <2>2, <3>5 DEF Paid, NotRecalled, Leaving
  <2>3. CASE faults' = faults /\ ~Leaving(held)
    BY <2>3 DEF Paid, NotRecalled, Leaving
  <2> QED BY <2>1, <2>2, <2>3 DEF Paid
<1> QED BY <1>1, <1>2, <1>3 DEF Own

LEMMA SendsStep ==
  ASSUME TypeOK, Control(Discarded), Unaccepted, Places, LogKept, SendsPaid, Next
  PROVE  SendsPaid'
<1>n. sends \in [Message -> Nat] /\ faults \in Nat
  BY FaultsCounted DEF TypeOK, QueueTypeOK
<1>0. stage \in [Message -> {"new", "producing", "accepted", "given up"}]
  BY DEF TypeOK, QueueTypeOK
<1>1. Shape(Discarded)  BY Step
<1>2. Paid  BY Splits, PlacesStep, StillPaid, MovingPaid, OwnPaid
<1>3. faults' \in Nat /\ faults' >= faults  BY <1>n, <1>2 DEF Paid
<1>z. \A x \in Nat : 0 <= x /\ 0 <= 1 + x  OBVIOUS
<1>4. CASE SendSucceeds
  <2>1. /\ held \in Message /\ held \in Owed /\ stage[held] = "accepted"
        /\ pc = "send" /\ tx = "pending"
    BY <1>4, HeldOwed DEF SendSucceeds, Control, Open
  <2>2. /\ faults' = faults /\ pc' = "success" /\ outcome' = "ok"
        /\ UNCHANGED <<stage, queue, tx, held, requeued>>
        /\ sends' = [sends EXCEPT ![held] = @ + 1]
    BY <1>4 DEF SendSucceeds, Goto
  <2>3. Owed' = Owed  BY <2>2, Leaves DEF TypeOK
  <2>4. ~Leaving(held) /\ Leaving(held)'
    BY <1>4, <2>1, <2>2 DEF Leaving, Control
  <2>5. sends'[held] = sends[held] + 1  BY <1>n, <2>1, <2>2
  <2>6. \A m \in Message : m # held => sends'[m] = sends[m]  BY <1>n, <2>2
  <2>7. \A m \in Message : m # held => ~Leaving(m)  BY DEF Leaving
  <2>8. sends[held] <= faults /\ sends[held] \in Nat  BY <1>n, <2>1, <2>4 DEF SendsPaid
  <2>10. faults' = faults  BY <2>2
  <2>9. sends'[held] <= 1 + faults'  BY <1>n, <2>10, <2>5, <2>8
  <2> QED BY <2>1, <2>2, <2>3, <2>4, <2>6, <2>7, <2>9 DEF SendsPaid
<1>5. CASE ~SendSucceeds
  <2>1. sends' = sends  BY <1>5, SendsUntouched
  <2>2. ASSUME NEW m \in Message
        PROVE  /\ sends'[m] <= 1 + faults'
               /\ m \in Owed' /\ ~Leaving(m)' => sends'[m] <= faults'
               /\ stage'[m] # "accepted" => sends'[m] = 0
    <3>1. sends[m] \in Nat /\ sends'[m] = sends[m] /\ sends[m] <= 1 + faults
      BY <1>n, <2>1 DEF SendsPaid
    <3>2. CASE m \in Owed
      <4>1. stage'[m] = "accepted"
        BY <1>0, <1>1, <3>2 DEF Unaccepted, Shape, Quiet, Delivers, Settles, Accepts, SameAccepted
      <4>2. CASE faults' = faults + 1
        <5>1. sends'[m] <= 1 + faults' /\ sends'[m] <= faults'  BY <1>n, <3>1, <4>2
        <5> QED BY <4>1, <5>1
      <4>3. CASE faults' = faults /\ NotRecalled
        <5>1. m \in Owed' /\ ~Leaving(m)' => ~Leaving(m)  BY <4>3 DEF NotRecalled
        <5> QED BY <3>1, <3>2, <4>1, <4>3, <5>1 DEF SendsPaid
      <4> QED BY <1>2, <4>2, <4>3 DEF Paid
    <3>3. CASE m \notin Owed /\ m \notin Owed'
      <4>1. sends'[m] <= 1 + faults'  BY <1>n, <1>3, <3>1
      <4>2. stage'[m] # "accepted" => stage[m] # "accepted"
        BY <1>0, <1>1 DEF Shape, Quiet, Delivers, Settles, Accepts, SameAccepted
      <4> QED BY <3>1, <3>3, <4>1, <4>2 DEF SendsPaid
    <3>4. CASE m \notin Owed /\ m \in Owed'
      <4>1. Accepts(m)
        BY <1>1, <3>4 DEF Shape, Quiet, Delivers, Settles, Accepts
      <4>2. sends[m] = 0 /\ stage'[m] = "accepted"
        BY <1>0, <4>1 DEF SendsPaid, Accepts
      <4>3. sends'[m] = 0  BY <3>1, <4>2
      <4>4. 0 <= 1 + faults' /\ 0 <= faults'  BY <1>3, <1>z
      <4> QED BY <4>2, <4>3, <4>4
    <3> QED BY <3>2, <3>3, <3>4
  <2> QED BY <2>2 DEF SendsPaid
<1> QED BY <1>4, <1>5

-----------------------------------------------------------------------------
(* The retried message is behind the others.                                *)

Low == queue["LOW"]

LEMMA LowTyped ==
  ASSUME TypeOK
  PROVE  /\ "LOW" \in QueueName /\ QueuesOK /\ Low \in Seq(Message) /\ Len(Low) \in Nat
         /\ Contents("LOW") = ToSet(Low)
<1>1. "LOW" \in QueueName  BY ExportQueueAssumption DEF Priority
<1>2. QueuesOK  BY TypedQueues DEF TypeOK
<1>3. Low \in Seq(Message)  BY <1>1, <1>2 DEF QueuesOK, Low
<1> QED BY <1>1, <1>2, <1>3 DEF Contents, ToSet, Low

\* Wherever the message at i goes, what waits in front of it stays in front.
Shifted(i) ==
  \/ i = 1
  \/ gone'[Low[i]] = "removed"
  \/ \E k \in 1..Len(Low)' :
       /\ Low'[k] = Low[i]
       /\ \A j \in 1..(i - 1) :
            \/ Low[j] \notin before'
            \/ gone'[Low[j]] = "removed"
            \/ \E l \in 1..(k - 1) : Low'[l] = Low[j]

LEMMA ShiftKeeps ==
  ASSUME TypeOK, RetryBehind, UNCHANGED retried, before' \subseteq before,
         \A m \in Message : gone[m] # "none" => gone'[m] = gone[m],
         \A i \in 1..Len(Low) : Shifted(i)
  PROVE  RetryBehind'
<1> SUFFICES ASSUME retried # NoMessage
             PROVE  \/ gone'[retried] # "none"
                    \/ AllAhead'
                    \/ \E i \in 1..Len(Low)' : Low'[i] = retried /\ AheadOf(i)'
  BY DEF RetryBehind, Low
<1>1. retried \in Message /\ before \subseteq Message  BY DEF TypeOK
<1>2. CASE gone[retried] # "none"  BY <1>1, <1>2
<1>3. CASE AllAhead  BY <1>1, <1>3 DEF AllAhead
<1>4. CASE \E i \in 1..Len(Low) : Low[i] = retried /\ AheadOf(i)
  <2>1. PICK i \in 1..Len(Low) : Low[i] = retried /\ AheadOf(i)  BY <1>4
  <2>2. \A m \in before : gone[m] = "removed" \/ \E j \in 1..(i - 1) : Low[j] = m
    BY <2>1 DEF AheadOf, Low
  <2>3. CASE i = 1
    <3>1. 1..(i - 1) = {}  BY <2>3
    <3>2. AllAhead  BY <2>2, <3>1 DEF AllAhead
    <3> QED BY <1>1, <3>2 DEF AllAhead
  <2>4. CASE gone'[Low[i]] = "removed"  BY <2>1, <2>4
  <2>5. CASE \E k \in 1..Len(Low)' :
               /\ Low'[k] = Low[i]
               /\ \A j \in 1..(i - 1) :
                    \/ Low[j] \notin before'
                    \/ gone'[Low[j]] = "removed"
                    \/ \E l \in 1..(k - 1) : Low'[l] = Low[j]
    <3>1. PICK k \in 1..Len(Low)' :
               /\ Low'[k] = Low[i]
               /\ \A j \in 1..(i - 1) :
                    \/ Low[j] \notin before'
                    \/ gone'[Low[j]] = "removed"
                    \/ \E l \in 1..(k - 1) : Low'[l] = Low[j]
      BY <2>5
    <3>2. \A m \in before' : gone'[m] = "removed" \/ \E l \in 1..(k - 1) : Low'[l] = m
      <4> SUFFICES ASSUME NEW m \in before', gone'[m] # "removed"
                   PROVE  \E l \in 1..(k - 1) : Low'[l] = m
        OBVIOUS
      <4>1. gone[m] # "removed"  BY <1>1
      <4>2. PICK j \in 1..(i - 1) : Low[j] = m  BY <2>2, <4>1
      <4> QED BY <3>1, <4>2
    <3>3. AheadOf(k)'  BY <3>2 DEF AheadOf, Low
    <3> QED BY <2>1, <3>1, <3>3
  <2> QED BY <2>1, <2>3, <2>4, <2>5 DEF Shifted
<1> QED BY <1>2, <1>3, <1>4 DEF RetryBehind, Low

\* The sequences, one move at a time.
LEMMA RestShifts ==
  ASSUME TypeOK, Low' = Low, NEW i \in 1..Len(Low) PROVE Shifted(i)
BY DEF Shifted

LEMMA AppendShifts ==
  ASSUME TypeOK, NEW m \in Message, Low' = Append(Low, m), NEW i \in 1..Len(Low)
  PROVE  Shifted(i)
<1>1. Low \in Seq(Message) /\ Len(Low) \in Nat  BY LowTyped
<1>2. Len(Low)' = Len(Low) + 1 /\ \A j \in 1..Len(Low) : Low'[j] = Low[j]  BY <1>1
<1>3. i \in 1..Len(Low)' /\ \A j \in 1..(i - 1) : j \in 1..Len(Low)  BY <1>1, <1>2
<1> QED BY <1>2, <1>3 DEF Shifted

LEMMA PrependShifts ==
  ASSUME TypeOK, NEW m \in Message, Low' = <<m>> \o Low, NEW i \in 1..Len(Low)
  PROVE  Shifted(i)
<1>1. Low \in Seq(Message) /\ Len(Low) \in Nat  BY LowTyped
<1>2. Len(Low)' = Len(Low) + 1 /\ \A j \in 1..Len(Low) : Low'[j + 1] = Low[j]
  BY <1>1, PrependAt
<1>3. /\ i + 1 \in 1..Len(Low)'
      /\ \A j \in 1..(i - 1) : j \in 1..Len(Low) /\ j + 1 \in 1..((i + 1) - 1)
  BY <1>1, <1>2
<1> QED BY <1>2, <1>3 DEF Shifted

LEMMA TailShifts ==
  ASSUME TypeOK, Low # <<>>, Low' = Tail(Low), Head(Low) \notin before',
         NEW i \in 1..Len(Low)
  PROVE  Shifted(i)
<1>1. Low \in Seq(Message) /\ Len(Low) \in Nat  BY LowTyped
<1>2. Len(Low)' = Len(Low) - 1 /\ \A j \in 1..Len(Low)' : Low'[j] = Low[j + 1]  BY <1>1
<1>3. Head(Low) = Low[1]  BY <1>1
<1>4. CASE i # 1
  <2>1. /\ i - 1 \in 1..Len(Low)' /\ (i - 1) + 1 = i
        /\ \A j \in 1..(i - 1) : j # 1 => /\ j - 1 \in 1..Len(Low)' /\ (j - 1) + 1 = j
                                          /\ j - 1 \in 1..((i - 1) - 1)
    BY <1>1, <1>2, <1>4
  <2>2. Low'[i - 1] = Low[i]  BY <1>2, <2>1
  <2>3. \A j \in 1..(i - 1) : j # 1 => Low'[j - 1] = Low[j]  BY <1>2, <2>1
  <2> QED BY <1>3, <2>1, <2>2, <2>3 DEF Shifted
<1> QED BY <1>4 DEF Shifted

LEMMA RemoveShifts ==
  ASSUME TypeOK, NEW k \in 1..Len(Low), Low' = RemoveAt(Low, k),
         gone'[Low[k]] = "removed", NEW i \in 1..Len(Low)
  PROVE  Shifted(i)
<1> DEFINE is(j) == IF j < k THEN j ELSE j - 1
<1>1. Low \in Seq(Message) /\ Len(Low) \in Nat  BY LowTyped
<1>2. /\ Len(Low)' = Len(Low) - 1
      /\ \A j \in 1..Len(Low)' : Low'[j] = Low[IF j < k THEN j ELSE j + 1]
  BY <1>1, RemoveAtPositions
<1>3. \A j \in 1..Len(Low) : j # k =>
        is(j) \in 1..Len(Low)' /\ (IF is(j) < k THEN is(j) ELSE is(j) + 1) = j
  BY <1>1, <1>2
<1>4. \A j \in 1..Len(Low) : j # k => Low'[is(j)] = Low[j]
  BY <1>2, <1>3
<1>5. CASE i = k  BY <1>5 DEF Shifted
<1>6. CASE i # k
  <2>0. i \in Nat /\ k \in Nat /\ i <= Len(Low) /\ k # i  BY <1>1, <1>6
  <2>1. \A j \in 1..(i - 1) : j \in 1..Len(Low) /\ (j # k => is(j) \in 1..(is(i) - 1))
    <3> TAKE j \in 1..(i - 1)
    <3>1. j \in 1..Len(Low) /\ j \in Nat /\ 1 <= j /\ j < i  BY <1>1, <2>0
    <3>2. is(i) = (IF i < k THEN i ELSE i - 1) /\ is(j) = (IF j < k THEN j ELSE j - 1)
      OBVIOUS
    <3> HIDE DEF is
    <3>3. CASE j # k  BY <2>0, <3>1, <3>2, <3>3
    <3> QED BY <3>1, <3>3
  <2> HIDE DEF is
  <2>2. \A j \in 1..(i - 1) : j # k => \E l \in 1..(is(i) - 1) : Low'[l] = Low[j]
    BY <1>4, <2>1
  <2>3. is(i) \in 1..Len(Low)' /\ Low'[is(i)] = Low[i]  BY <1>3, <1>4, <1>6
  <2> QED BY <2>2, <2>3 DEF Shifted
<1> QED BY <1>5, <1>6

\* What the history notes of each move.
RetryNoted ==
  /\ held \in Message /\ queue' = [queue EXCEPT !["LOW"] = Append(@, held)]
  /\ retried' = held /\ before' = Contents("LOW")

LEMMA ReceiveNoted ==
  ASSUME TypeOK, Control(Discarded), Next, ScanReceive
  PROVE  before' = before \ {held'} /\ UNCHANGED retried
<1>1. pc = "scan" /\ pc' \in {"send", "dispose"}  BY DEF ScanReceive, Goto
<1>2. queue' # queue /\ queue[scanAt] # <<>>
  <2>1. scanAt \in QueueName /\ QueuesOK
    BY MsmqQueueAssumption, TypedQueues DEF TypeOK, ThreadTypeOK
  <2>2. queue[scanAt] \in Seq(Message) /\ queue[scanAt] # <<>>
    BY <2>1, QueueAt DEF ScanReceive, Receive
  <2>3. queue'[scanAt] = Tail(queue[scanAt])
    BY <2>1 DEF ScanReceive, Receive, QueuesOK
  <2> QED BY <2>2, <2>3, TailDiffers
<1>3. CASE ThreadStep
  BY <1>1, <1>2, <1>3
     DEF ThreadStep, ExportMessage, Begin, BeginExport, Dequeue, WaitAny, ScanNext, DequeueFails,
         Send, SendSucceeds, SendThrows, OnSuccess, Succeed, CommitSent, CommitExport,
         DeleteMessageData, DeletePayload, CatchInvalid, Discard, OnInvalidMessageException,
         LogDiscarded, EnqueueToLowPriority, CommitLow, CatchRollback, RollBackExport,
         EndUsing, Dispose, SleepTime, Sleep
<1>4. CASE Abort  BY <1>2, <1>4 DEF Abort, AbortAt
<1>5. CASE Around  BY <1>1, <1>5, SurroundingsLeave DEF Around, Crash, Restart, Goto
<1> QED BY <1>3, <1>4, <1>5 DEF Next

LEMMA OthersNoted ==
  ASSUME TypeOK, Control(Discarded), Next, ~ScanReceive
  PROVE  UNCHANGED historyVars \/ RetryNoted
<1>0. requeued \in BOOLEAN /\ Aside = "LOW"
  BY ExportQueueAssumption DEF TypeOK, QueueTypeOK, MsmqTypeOK
<1>1. CASE CommitLow
  <2>1. held \in Message /\ requeued = TRUE  BY <1>0, <1>1 DEF CommitLow, Control
  <2>2. CASE Commit(requeued) /\ NoteRetry(tx' = "committed")
    <3>1. CASE tx' = "committed"
      <4>1. MakeFinal(requeued)  BY <2>2, <3>1 DEF Commit
      <4> QED BY <1>0, <2>1, <2>2, <3>1, <4>1 DEF MakeFinal, NoteRetry, RetryNoted
    <3>2. CASE tx' # "committed"  BY <2>2, <3>2 DEF NoteRetry
    <3> QED BY <3>1, <3>2
  <2> QED BY <1>1, <2>2 DEF CommitLow
<1>2. CASE EndUsing
  <2>1. CASE tx = "complete" /\ requeued /\ faults' = faults
    <3>1. held \in Message  BY <2>1 DEF Control
    <3>2. faults' # faults + 1  BY <2>1, FaultsCounted
    <3>3. DisposeCommits(requeued)
      BY <1>2, <2>1, <3>2 DEF EndUsing, Dispose, DisposeNothing, Fault
    <3> QED BY <1>0, <1>2, <2>1, <3>1, <3>3
            DEF EndUsing, DisposeCommits, MakeFinal, NoteRetry, NoFault, RetryNoted
  <2>2. CASE ~(tx = "complete" /\ requeued /\ faults' = faults)
    BY <1>2, <2>2 DEF EndUsing, NoteRetry, NoFault
  <2> QED BY <2>1, <2>2
<1>3. CASE ~CommitLow /\ ~EndUsing
  BY <1>3 DEF Next, ThreadStep, ExportMessage, Begin, Dequeue, Send, OnSuccess, CommitSent,
              DeleteMessageData, CatchInvalid, OnInvalidMessageException,
              EnqueueToLowPriority, CatchRollback, SleepTime, Abort, Around
<1> QED BY <1>1, <1>2, <1>3

LEMMA KeepsShifts ==
  ASSUME TypeOK, Keeps({"removed"}), NEW i \in 1..Len(Low)
  PROVE  Shifted(i)
<1>1. /\ "LOW" \in QueueName /\ QueuesOK
      /\ gone \in [Message -> Outcome \cup {"none", "removed"}]
  BY LowTyped DEF TypeOK, QueueTypeOK
<1>2. \A p, s : queue' = [queue EXCEPT ![p] = s] =>
        Low' = IF p = "LOW" THEN s ELSE Low
  BY <1>1 DEF QueuesOK, Low
<1>3. CASE queue' = queue  BY <1>3, RestShifts DEF Low
<1>4. CASE \E p \in QueueName, m \in Message : Returns(p, m)
  <2>1. PICK p \in QueueName, m \in Message : Returns(p, m)  BY <1>4
  <2>2. Low' = IF p = "LOW" THEN <<m>> \o Low ELSE Low
    BY <1>2, <2>1 DEF Returns, Low
  <2> QED BY <2>2, PrependShifts, RestShifts
<1>5. CASE \E p \in QueueName, m \in Message : Arrives(p, m)
  <2>1. PICK p \in QueueName, m \in Message : Arrives(p, m)  BY <1>5
  <2>2. Low' = IF p = "LOW" THEN Append(Low, m) ELSE Low
    BY <1>2, <2>1 DEF Arrives, Low
  <2> QED BY <2>2, AppendShifts, RestShifts
<1>6. CASE \E p \in QueueName : \E k \in 1..Len(queue[p]) : \E reason \in {"removed"} :
             Removes(p, k, reason)
  <2>1. PICK p \in QueueName : \E k \in 1..Len(queue[p]) : Removes(p, k, "removed")
    BY <1>6
  <2>2. PICK k \in 1..Len(queue[p]) : Removes(p, k, "removed")  BY <2>1
  <2>3. CASE p = "LOW"
    <3>1. k \in 1..Len(Low) /\ Low' = RemoveAt(Low, k)
      BY <1>2, <2>2, <2>3 DEF Removes, Low
    <3>2. Low[k] \in Message  BY <3>1, LowTyped
    <3>3. gone' = [gone EXCEPT ![Low[k]] = "removed"]  BY <2>2, <2>3 DEF Removes, Low
    <3>4. gone'[Low[k]] = "removed"  BY <1>1, <3>2, <3>3
    <3> QED BY <3>1, <3>4, RemoveShifts
  <2>4. CASE p # "LOW"
    <3>1. Low' = Low  BY <1>2, <2>2, <2>4 DEF Removes
    <3> QED BY <3>1, RestShifts
  <2> QED BY <2>3, <2>4
<1> QED BY <1>3, <1>4, <1>5, <1>6 DEF Keeps, Rests, LetsGo

LEMMA RetryStep ==
  ASSUME TypeOK, Control(Discarded), Unaccepted, Places, RetryBehind, Next
  PROVE  RetryBehind'
<1>1. \A m \in Message : gone[m] # "none" => gone'[m] = gone[m]  BY PlacesStep
<1>2. CASE ScanReceive
  <2>1. before' = before \ {held'} /\ UNCHANGED retried  BY <1>2, ReceiveNoted
  <2>2. CASE Keeps({"removed"})
    BY <1>1, <2>1, <2>2, KeepsShifts, ShiftKeeps
  <2>3. CASE Takes(scanAt) /\ held' = Head(queue[scanAt])
    <3>1. /\ "LOW" \in QueueName /\ QueuesOK
          /\ queue' = [queue EXCEPT ![scanAt] = Tail(@)]
      BY <2>3, LowTyped DEF Takes
    <3>2. CASE scanAt = "LOW"
      <4>1. Low # <<>> /\ Low' = Tail(Low) /\ Head(Low) = held'
        BY <2>3, <3>1, <3>2 DEF Low, QueuesOK, Takes
      <4>2. \A i \in 1..Len(Low) : Shifted(i)  BY <2>1, <4>1, TailShifts
      <4> QED BY <1>1, <2>1, <4>2, ShiftKeeps
    <3>3. CASE scanAt # "LOW"
      <4>1. Low' = Low  BY <3>1, <3>3 DEF Low, QueuesOK
      <4>2. \A i \in 1..Len(Low) : Shifted(i)  BY <4>1, RestShifts
      <4> QED BY <1>1, <2>1, <4>2, ShiftKeeps
    <3> QED BY <3>2, <3>3
  <2> QED BY <2>2, <2>3, MovesStep
<1>3. CASE ~ScanReceive /\ UNCHANGED historyVars
  <2>1. Keeps({"removed"})  BY <1>3, MovesStep
  <2>2. before' \subseteq before /\ UNCHANGED retried  BY <1>3 DEF historyVars
  <2> QED BY <1>1, <2>1, <2>2, KeepsShifts, ShiftKeeps
<1>4. CASE RetryNoted
  <2>1. /\ "LOW" \in QueueName /\ QueuesOK /\ Low \in Seq(Message) /\ Len(Low) \in Nat
        /\ Contents("LOW") = ToSet(Low)
    BY LowTyped
  <2>2. Low' = Append(Low, held) /\ held \in Message /\ retried' = held /\ before' = ToSet(Low)
    BY <1>4, <2>1 DEF RetryNoted, Low, QueuesOK
  <2> DEFINE k == Len(Low) + 1
  <2>3. k \in 1..Len(Low)' /\ Low'[k] = held /\ k - 1 = Len(Low)  BY <2>1, <2>2
  <2>4. \A j \in 1..Len(Low) : Low'[j] = Low[j]  BY <2>1, <2>2
  <2>5. \A m \in before' : \E j \in 1..Len(Low) : Low[j] = m  BY <2>1, <2>2 DEF ToSet
  <2> HIDE DEF k
  <2>6. \A m \in before' : \E j \in 1..(k - 1) : Low'[j] = m  BY <2>3, <2>4, <2>5
  <2> QED BY <2>2, <2>3, <2>6 DEF RetryBehind, AheadOf, Low
<1> QED BY <1>2, <1>3, <1>4, OthersNoted

-----------------------------------------------------------------------------
(* The theorems.                                                            *)

\* The inductive invariant: types, the state of the transaction at every
\* statement of ExportMessage, and the place of every message.
THEOREM Invariance == Spec => []IInv
<1>1. Init => IInv
  <2> SUFFICES ASSUME Init  PROVE IInv
    OBVIOUS
  <2>1. ThreadOK /\ Control(Discarded) /\ Owed = {}  BY ThreadInitHolds DEF Init
  <2>2. TypeOK  BY <2>1 DEF Init, ThreadOK, TypeOK
  <2>3. Unaccepted /\ NoMessageLost
    BY <2>1 DEF Init, QueueInit, MsmqInit, Unaccepted, NoMessageLost, KeptUnless
  <2>4. Places  BY InitPlaces DEF Init, QueueInit, Places
  <2>5. PayloadKept /\ LogKept /\ DeliveredIsLogged
    BY DEF Init, QueueInit, MsmqInit, ThreadInit, PayloadKept, LogKept, DeliveredIsLogged
  <2>6. SendsPaid
    <3>1. 0 <= 0 /\ 0 <= 1 + 0  OBVIOUS
    <3>2. faults = 0 /\ \A m \in Message : sends[m] = 0
      BY DEF Init, QueueInit, MsmqInit
    <3> QED BY <2>1, <3>1, <3>2 DEF SendsPaid
  <2>7. RetryBehind  BY DEF Init, RetryBehind
  <2> QED BY <2>1, <2>2, <2>3, <2>4, <2>5, <2>6, <2>7 DEF IInv
<1>2. IInv /\ [Next]_vars => IInv'
  <2>1. ASSUME IInv, Next  PROVE IInv'
    <3>1. TypeOK' /\ Control(Discarded)' /\ Shape(Discarded)
      BY <2>1, TypeStep, Step DEF IInv
    <3>2. Unaccepted' /\ KeptUnless(Discarded)'
      BY <2>1, <3>1, UnacceptedStep, KeptStep
         DEF IInv, TypeOK, NoMessageLost, Discarded
    <3>3. Places' /\ PayloadKept' /\ LogKept' /\ DeliveredIsLogged'
      BY <2>1, PlacesStep, PayloadStep, LogStep DEF IInv
    <3>4. SendsPaid' /\ RetryBehind'  BY <2>1, SendsStep, RetryStep DEF IInv
    <3> QED BY <3>1, <3>2, <3>3, <3>4 DEF IInv, NoMessageLost, Discarded
  <2>2. ASSUME IInv, UNCHANGED vars  PROVE IInv'
    <3>1. ThreadOK' /\ Control(Discarded)' /\ Quiet
      BY <2>2, Parts, ThreadStutters DEF IInv, vars
    <3>2. TypeOK'  BY <2>2, <3>1 DEF IInv, TypeOK, ThreadOK, vars, historyVars
    <3>3. Shape(Discarded)  BY <3>1 DEF Shape
    <3>4. Unaccepted' /\ KeptUnless(Discarded)'
      BY <2>2, <3>3, UnacceptedStep, KeptStep
         DEF IInv, TypeOK, NoMessageLost, Discarded
    <3>5. UNCHANGED <<queueVars, threadVars, historyVars, siteVars>>  BY <2>2 DEF vars
    <3>6. Places'
      BY <2>2, <3>5 DEF IInv, Places, Unique, Settled, Owed, InTx, Waiting, Contents,
                        InSystem, queueVars
    <3>7. PayloadKept' /\ LogKept' /\ DeliveredIsLogged'
      BY <2>2, <3>5 DEF IInv, PayloadKept, LogKept, Logged, DeliveredIsLogged, queueVars,
                        threadVars, siteVars
    <3>8. SendsPaid'
      BY <2>2, <3>1, <3>5 DEF IInv, SendsPaid, Quiet, Leaving, queueVars, threadVars
    <3>9. RetryBehind'
      BY <2>2, <3>5 DEF IInv, RetryBehind, AllAhead, AheadOf, queueVars, historyVars
    <3> QED BY <3>1, <3>2, <3>4, <3>6, <3>7, <3>8, <3>9 DEF IInv, NoMessageLost, Discarded
  <2> QED BY <2>1, <2>2
<1> QED BY <1>1, <1>2, PTL DEF Spec

\* Whatever ExportMessage and its surroundings do, the state stays typed.
THEOREM TypeCorrect == Spec => []TypeOK
BY Invariance, PTL DEF IInv

\* No accepted export is lost between the queues, the transactions, the
\* catch blocks and the crashes, however many messages and faults there are.
THEOREM NothingLost == Spec => []NoMessageLost
BY Invariance, PTL DEF IInv

\* A message that can still be received has its payload, unless something
\* else took it or the vote on its delivery was not followed.
THEOREM PayloadWaits == Spec => []PayloadWhileQueued
<1>1. IInv => PayloadWhileQueued
  <2> SUFFICES ASSUME IInv, NEW m \in Message, InSystem(m), m \notin payload \cup lost
               PROVE  remote /\ sends[m] > 0
    BY DEF PayloadWhileQueued
  <2>1. m \in Owed  BY DEF InSystem, Owed
  <2>2. stage[m] = "accepted" /\ gone[m] = "none"
    BY <2>1 DEF IInv, Unaccepted, Places, Settled
  <2> QED BY <2>2 DEF IInv, PayloadKept
<1> QED BY <1>1, Invariance, PTL

\* The conditional updates of the message log do not miss a delivery.
THEOREM Logs == Spec => []DeliveredIsLogged
BY Invariance, PTL DEF IInv

\* Every delivery of a message but one is paid for by a fault.
THEOREM Repetitions == Spec => []ResendOnlyAfterFault
<1>1. IInv => ResendOnlyAfterFault  BY DEF IInv, SendsPaid, ResendOnlyAfterFault
<1> QED BY <1>1, Invariance, PTL

\* When the message last moved to LOW is sent again, nothing of what waited
\* there before it is left.
THEOREM Retries == Spec => []RetriedLast
<1>1. IInv => RetriedLast
  <2> SUFFICES ASSUME IInv, pc = "send", held = retried
               PROVE  \A m \in before : gone[m] = "removed"
    BY DEF RetriedLast
  <2>1. held \in Message /\ Open  BY DEF IInv, Control, Open
  <2>2. retried # NoMessage /\ gone[retried] = "none" /\ InTx = {held}
    BY <2>1, HeldOwed, MsmqQueueAssumption DEF IInv, InTx, Open
  <2>3. held \notin Waiting  BY <2>2 DEF IInv, Places, Unique
  <2>4. /\ "LOW" \in QueueName /\ Low \in Seq(Message)
        /\ Contents("LOW") = ToSet(Low)
    BY LowTyped DEF IInv
  <2>5. held \notin ToSet(Low)  BY <2>3, <2>4, InQueue
  <2>6. \A i \in 1..Len(Low) : Low[i] # held  BY <2>5 DEF ToSet
  <2>7. AllAhead  BY <2>2, <2>6 DEF IInv, RetryBehind, Low
  <2> QED BY <2>7 DEF AllAhead
<1> QED BY <1>1, Invariance, PTL

\* The exporter with its queues and transactions is an outbox: it accepts a
\* message once, settles it once and says "ok" only of what it has delivered.
THEOREM Implements == Spec => DeliverySpec
<1>0. Discarded \subseteq Reason \ {"ok"}  BY DEF Discarded, Reason
<1>1. Init => Delivery!Init  BY ImplementsInit DEF Init
<1>2. IInv /\ [Next]_vars => [Delivery!Next]_(Delivery!vars)
  <2>1. ASSUME IInv, Next  PROVE [Delivery!Next]_(Delivery!vars)
    BY <1>0, <2>1, Step, ImplementsStep DEF IInv, TypeOK
  <2>2. ASSUME IInv, UNCHANGED vars  PROVE [Delivery!Next]_(Delivery!vars)
    <3>1. Quiet  BY <2>2, Parts, ThreadStutters DEF IInv, vars
    <3> QED BY <1>0, <2>2, <3>1, ImplementsStep DEF IInv, TypeOK, Shape
  <2> QED BY <2>1, <2>2
<1> QED BY <1>1, <1>2, Invariance, PTL DEF Spec, DeliverySpec, Delivery!Spec
=============================================================================
