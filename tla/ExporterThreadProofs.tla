------------------------ MODULE ExporterThreadProofs ------------------------
(***************************************************************************)
(* What both exporters' proofs share, in three parts.  First, what the     *)
(* surroundings and the end of a transaction do to the messages an         *)
(* exporter owes: every step leaves them alone, delivers one, settles one  *)
(* or accepts one (Shape); from this follow the step of the refinement and *)
(* everything that is said about messages.  Second, Control: statement by  *)
(* statement, in which state the dequeue transaction is and what it holds; *)
(* and the shape of every step of the thread.  Third, the types.  D is the *)
(* set of reasons for which the exporter at hand discards a message.       *)
(***************************************************************************)
EXTENDS ExporterThread, MsmqQueueProofs

MayLetGo(D) ==
  \/ outcome \in D
  \/ outcome = "ok" /\ sends[held] > 0

SameAccepted == \A m \in Message : stage'[m] = "accepted" <=> stage[m] = "accepted"

Quiet == Owed' = Owed /\ gone' = gone /\ sends' = sends /\ SameAccepted

Delivers ==
  /\ held \in Message /\ held \in Owed
  /\ Owed' = Owed /\ gone' = gone /\ SameAccepted
  /\ sends' = [sends EXCEPT ![held] = @ + 1]

Settles(D, m, reason) ==
  /\ m \in Owed
  /\ Owed \ {m} \subseteq Owed' /\ Owed' \subseteq Owed
  /\ gone' = [gone EXCEPT ![m] = reason]
  /\ reason \in D \cup {"removed"} \/ (reason = "ok" /\ sends[m] > 0)
  /\ sends' = sends /\ SameAccepted

Accepts(m) ==
  /\ stage[m] # "accepted" /\ stage' = [stage EXCEPT ![m] = "accepted"]
  /\ Owed' = Owed \cup {m} /\ gone' = gone /\ sends' = sends

Shape(D) ==
  \/ Quiet
  \/ Delivers
  \/ \E m \in Message, reason \in Outcome \cup {"removed"} : Settles(D, m, reason)
  \/ \E m \in Message : Accepts(m)

\* A message nobody has committed yet is nowhere and has no ending.
Unaccepted ==
  \A m \in Message : stage[m] # "accepted" => m \notin Owed /\ gone[m] = "none"

\* The copy sent on in another transaction is still there, or was removed.
CopyKept == held \in Waiting \/ gone[held] = "removed"

-----------------------------------------------------------------------------
(* The surroundings.                                                        *)

\* A producer's commit adds its message.
LEMMA ProducerCommitOwed ==
  ASSUME QueuesOK, NEW m \in Message, NEW p \in QueueName, ProducerCommit(m, p)
  PROVE  QueuesOK' /\ Owed' = Owed \cup {m} /\ Waiting \subseteq Waiting'
<1>1. queue[p] \in Seq(Message)  BY QueueAt
<1> DEFINE s == Append(queue[p], m)
<1>2. s \in Seq(Message) /\ ToSet(s) = ToSet(queue[p]) \cup {m}
  BY <1>1, AppendElements
<1>3. queue' = [queue EXCEPT ![p] = s]  BY DEF ProducerCommit
<1> HIDE DEF s
<1>4. /\ QueuesOK'
      /\ Waiting \ {} \subseteq Waiting'
      /\ Waiting' \subseteq Waiting \cup {m}
      /\ ToSet(s) \subseteq Waiting'
  <2>1. ToSet(queue[p]) \ {} \subseteq ToSet(s)  BY <1>2
  <2>2. ToSet(s) \subseteq ToSet(queue[p]) \cup {m}  BY <1>2
  <2> QED BY <1>2, <1>3, <2>1, <2>2, QueueChanged, ZenonT(30)
<1>5. InTx' = InTx  BY DEF ProducerCommit, TransactionVars, InTx
<1> QED BY <1>2, <1>4, <1>5 DEF Owed

\* The operator takes one message out, and no other.
LEMMA OperatorRemovesOwed ==
  ASSUME QueuesOK, NEW p \in QueueName, NEW i \in 1..Len(queue[p]), OperatorRemoves(p, i)
  PROVE  /\ QueuesOK'
         /\ queue[p][i] \in Owed /\ queue[p][i] \in Message
         /\ Owed \ {queue[p][i]} \subseteq Owed' /\ Owed' \subseteq Owed
         /\ Waiting \ {queue[p][i]} \subseteq Waiting'
<1>1. queue[p] \in Seq(Message)  BY QueueAt
<1> DEFINE s == RemoveAt(queue[p], i)
<1>2. /\ s \in Seq(Message)
      /\ ToSet(queue[p]) \ {queue[p][i]} \subseteq ToSet(s)
      /\ ToSet(s) \subseteq ToSet(queue[p])
  BY <1>1, RemoveElements
<1>3. queue' = [queue EXCEPT ![p] = s]  BY DEF OperatorRemoves
<1> HIDE DEF s
<1>4. /\ QueuesOK'
      /\ Waiting \ {queue[p][i]} \subseteq Waiting'
      /\ Waiting' \subseteq Waiting \cup {}
  <2>1. ToSet(s) \subseteq ToSet(queue[p]) \cup {}  BY <1>2
  <2> QED BY <1>2, <1>3, <2>1, QueueChanged, ZenonT(30)
<1>5. queue[p][i] \in Waiting  BY QueueAt DEF ToSet
<1>6. queue[p][i] \in Message  BY <1>1
<1>7. InTx' = InTx  BY DEF OperatorRemoves, TransactionVars, InTx
<1> QED BY <1>4, <1>5, <1>6, <1>7 DEF Owed

LEMMA TypedQueues ==
  ASSUME QueueTypeOK
  PROVE  QueuesOK /\ heldFrom \in QueueName /\ held \in Message \cup {NoMessage}
BY DEF QueueTypeOK, MsmqTypeOK, QueuesOK

LEMMA LogTyped ==
  ASSUME QueueTypeOK, NEW m \in Message
  PROVE  /\ LogEnqueued(m) \in [Message -> Status]
         /\ LogTransferred(m) \in [Message -> Status]
         /\ LogFailed(m) \in [Message -> Status]
<1>1. log \in [Message -> Status] /\ log[m] \in Status  BY DEF QueueTypeOK, MsmqTypeOK
<1>2. {"Created", "Enqueued", "Transferred", "Failed"} = Status  BY DEF Status
<1> QED BY <1>1, <1>2 DEF LogEnqueued, LogTransferred, LogFailed

-----------------------------------------------------------------------------
(* The end of the transaction, one way or the other.                        *)

LEMMA Ends ==
  ASSUME tx' = "none" \/ tx' = "aborted" \/ tx' = "committed"
  PROVE  InTx' = {}
BY DEF InTx

LEMMA Aborts ==
  ASSUME QueueTypeOK, Open, PutBack, InTx' = {}, sends' = sends, SameAccepted
  PROVE  QueuesOK' /\ Quiet
BY TypedQueues, PutBackOwed DEF Quiet, PutBack

LEMMA EndsNothing ==
  ASSUME QueueTypeOK, ~Open, InTx' = {}, UNCHANGED <<queue, gone, sends>>, SameAccepted
  PROVE  QueuesOK' /\ Quiet
<1>1. QueuesOK' /\ Waiting' = Waiting  BY TypedQueues, QueueUnchanged
<1>2. InTx = {}  BY DEF InTx, Open
<1> QED BY <1>1, <1>2 DEF Quiet, Owed

\* A step that leaves the queues and the transaction alone.
LEMMA Leaves ==
  ASSUME QueueTypeOK, UNCHANGED <<queue, tx, held>>
  PROVE  QueuesOK' /\ Owed' = Owed /\ Waiting' = Waiting
<1>1. QueuesOK' /\ Waiting' = Waiting  BY TypedQueues, QueueUnchanged
<1> QED BY <1>1 DEF Owed, InTx

\* aside: what was sent on was sent in the transaction that ends.
LEMMA Commits ==
  ASSUME NEW D, QueueTypeOK, Open, held \in Message, MayLetGo(D) \/ requeued,
         NEW aside \in BOOLEAN, aside => requeued, requeued /\ ~aside => CopyKept,
         MakeFinal(aside), InTx' = {}, sends' = sends, SameAccepted
  PROVE  QueuesOK' /\ Shape(D)
<1> USE MsmqQueueAssumption, ExportQueueAssumption DEF Shape
<1>0. /\ requeued \in BOOLEAN /\ outcome \in Outcome
      /\ gone \in [Message -> Outcome \cup {"none", "removed"}]
  BY DEF QueueTypeOK, MsmqTypeOK
<1>1. /\ QueuesOK'
      /\ held \in Owed
      /\ Owed \ {held} \subseteq Owed' /\ Owed' \subseteq Owed
      /\ aside => Owed' = Owed
  BY TypedQueues, MakeFinalOwed
<1>2. CASE aside
  BY <1>1, <1>2 DEF Quiet, MakeFinal
<1>3. CASE ~requeued
  <2>1. gone' = [gone EXCEPT ![held] = outcome]  BY <1>3 DEF MakeFinal
  <2>2. Settles(D, held, outcome)  BY <1>1, <1>3, <2>1 DEF Settles, MayLetGo
  <2> QED BY <1>0, <1>1, <2>2
<1>4. CASE requeued /\ ~aside
  <2>1. gone' = gone /\ queue' = queue  BY <1>4 DEF MakeFinal
  <2>2. Waiting' = Waiting  BY <2>1, TypedQueues, QueueUnchanged
  <2>3. CASE held \in Waiting
    <3>1. held \in Owed'  BY <2>2, <2>3 DEF Owed
    <3> QED BY <1>1, <2>1, <3>1 DEF Quiet
  <2>4. CASE gone[held] = "removed"
    <3>1. gone' = [gone EXCEPT ![held] = "removed"]  BY <1>0, <2>1, <2>4
    <3>2. Settles(D, held, "removed")  BY <1>1, <3>1 DEF Settles
    <3> QED BY <1>1, <3>2
  <2> QED BY <1>4, <2>3, <2>4 DEF CopyKept
<1> QED BY <1>2, <1>3, <1>4

LEMMA EnvironmentShape ==
  ASSUME NEW D, QueueTypeOK, Environment
  PROVE  QueuesOK' /\ Shape(D)
<1> USE MsmqQueueAssumption, ExportQueueAssumption DEF Shape
<1>1. CASE \E m \in Message : ProducerEnqueue(m) \/ ProducerFails(m) \/ PayloadDisappears(m)
  <2>1. UNCHANGED <<queue, tx, held, gone, sends>>
    BY <1>1 DEF ProducerEnqueue, ProducerFails, PayloadDisappears, TransactionVars
  <2>2. SameAccepted
    <3>1. stage \in [Message -> {"new", "producing", "accepted", "given up"}]
      BY DEF QueueTypeOK, MsmqTypeOK
    <3> QED BY <1>1, <3>1 DEF ProducerEnqueue, ProducerFails, PayloadDisappears, SameAccepted
  <2> QED BY <2>1, <2>2, Leaves DEF Quiet
<1>2. CASE \E m \in Message, p \in Priority : ProducerCommit(m, p)
  <2>1. PICK m \in Message, p \in Priority : ProducerCommit(m, p)  BY <1>2
  <2>2. QueuesOK' /\ Owed' = Owed \cup {m}  BY <2>1, TypedQueues, ProducerCommitOwed
  <2>3. Accepts(m)  BY <2>1, <2>2 DEF ProducerCommit, Accepts
  <2> QED BY <2>2, <2>3
<1>3. CASE \E p \in QueueName : \E i \in 1..Len(queue[p]) : OperatorRemoves(p, i)
  <2>0. PICK p \in QueueName : \E i \in 1..Len(queue[p]) : OperatorRemoves(p, i)
    BY <1>3
  <2>1. PICK i \in 1..Len(queue[p]) : OperatorRemoves(p, i)  BY <2>0
  <2>2. /\ QueuesOK'
        /\ queue[p][i] \in Owed /\ queue[p][i] \in Message
        /\ Owed \ {queue[p][i]} \subseteq Owed' /\ Owed' \subseteq Owed
    BY <2>1, TypedQueues, OperatorRemovesOwed
  <2>3. Settles(D, queue[p][i], "removed")
    BY <2>1, <2>2 DEF OperatorRemoves, Settles, SameAccepted
  <2> QED BY <2>2, <2>3
<1> QED BY <1>1, <1>2, <1>3 DEF Environment

\* The surroundings keep the copy that was sent on, or say it was removed.
LEMMA EnvironmentKeepsCopy ==
  ASSUME QueueTypeOK, Environment, held \in Message, CopyKept
  PROVE  CopyKept'
<1> USE MsmqQueueAssumption, ExportQueueAssumption
<1>0. /\ gone \in [Message -> Outcome \cup {"none", "removed"}]
      /\ held' = held
  BY DEF QueueTypeOK, MsmqTypeOK, Environment, ProducerEnqueue, ProducerCommit,
         ProducerFails, OperatorRemoves, PayloadDisappears, TransactionVars
<1>1. CASE \E m \in Message : ProducerEnqueue(m) \/ ProducerFails(m) \/ PayloadDisappears(m)
  <2>1. UNCHANGED <<queue, tx, held, gone>>
    BY <1>1 DEF ProducerEnqueue, ProducerFails, PayloadDisappears, TransactionVars
  <2> QED BY <2>1, Leaves DEF CopyKept
<1>2. CASE \E m \in Message, p \in Priority : ProducerCommit(m, p)
  <2>1. PICK m \in Message, p \in Priority : ProducerCommit(m, p)  BY <1>2
  <2>2. Waiting \subseteq Waiting' /\ gone' = gone
    BY <2>1, TypedQueues, ProducerCommitOwed DEF ProducerCommit
  <2> QED BY <1>0, <2>2 DEF CopyKept
<1>3. CASE \E p \in QueueName : \E i \in 1..Len(queue[p]) : OperatorRemoves(p, i)
  <2>0. PICK p \in QueueName : \E i \in 1..Len(queue[p]) : OperatorRemoves(p, i)
    BY <1>3
  <2>1. PICK i \in 1..Len(queue[p]) : OperatorRemoves(p, i)  BY <2>0
  <2>2. Waiting \ {queue[p][i]} \subseteq Waiting'
    BY <2>1, TypedQueues, OperatorRemovesOwed
  <2>3. gone' = [gone EXCEPT ![queue[p][i]] = "removed"]  BY <2>1 DEF OperatorRemoves
  <2> QED BY <1>0, <2>2, <2>3 DEF CopyKept
<1> QED BY <1>1, <1>2, <1>3 DEF Environment

-----------------------------------------------------------------------------
(* What the shape of a step means for the messages.                         *)

LEMMA ShapeTyped ==
  ASSUME NEW D, QueueTypeOK, Shape(D)
  PROVE  gone' \in [Message -> Outcome \cup {"none", "removed"}] /\ sends' \in [Message -> Nat]
<1> DEFINE Gone == [Message -> Outcome \cup {"none", "removed"}]
<1>1. gone \in Gone /\ sends \in [Message -> Nat]  BY DEF QueueTypeOK, MsmqTypeOK
<1>2. CASE Quiet \/ \E m \in Message : Accepts(m)  BY <1>1, <1>2 DEF Quiet, Accepts
<1>3. CASE Delivers  BY <1>1, <1>3 DEF Delivers
<1>4. CASE \E m \in Message, reason \in Outcome \cup {"removed"} : Settles(D, m, reason)
  BY <1>1, <1>4 DEF Settles
<1> QED BY <1>2, <1>3, <1>4 DEF Shape

LEMMA UnacceptedStep ==
  ASSUME NEW D, QueueTypeOK, Unaccepted, Shape(D)
  PROVE  Unaccepted'
<1>0. /\ gone \in [Message -> Outcome \cup {"none", "removed"}]
      /\ stage \in [Message -> {"new", "producing", "accepted", "given up"}]
  BY DEF QueueTypeOK, MsmqTypeOK
<1>1. CASE Quiet \/ Delivers
  BY <1>1 DEF Quiet, Delivers, SameAccepted, Unaccepted
<1>2. CASE \E m \in Message, reason \in Outcome \cup {"removed"} : Settles(D, m, reason)
  BY <1>0, <1>2 DEF Settles, SameAccepted, Unaccepted
<1>3. CASE \E m \in Message : Accepts(m)
  BY <1>0, <1>3 DEF Accepts, Unaccepted
<1> QED BY <1>1, <1>2, <1>3 DEF Shape

LEMMA SendsGrow ==
  ASSUME QueueTypeOK, Delivers
  PROVE  \A m \in Message : sends'[m] > 0 <=> sends[m] > 0 \/ m = held
<1>1. sends \in [Message -> Nat]  BY DEF QueueTypeOK, MsmqTypeOK
<1>2. \A m \in Message : sends'[m] = IF m = held THEN sends[m] + 1 ELSE sends[m]
  BY <1>1 DEF Delivers
<1>3. \A m \in Message : sends[m] \in Nat  BY <1>1
<1> QED BY <1>2, <1>3

LEMMA KeptStep ==
  ASSUME NEW D, QueueTypeOK, KeptUnless(D), Shape(D)
  PROVE  KeptUnless(D)'
<1>0. /\ gone \in [Message -> Outcome \cup {"none", "removed"}]
      /\ sends \in [Message -> Nat]
      /\ stage \in [Message -> {"new", "producing", "accepted", "given up"}]
  BY DEF QueueTypeOK, MsmqTypeOK
<1> USE DEF KeptUnless, InSystem, Owed
<1>1. CASE Quiet
  BY <1>1 DEF Quiet, SameAccepted
<1>2. CASE Delivers
  <2>1. \A m \in Message : sends[m] > 0 => sends'[m] > 0  BY <1>2, SendsGrow
  <2> QED BY <1>2, <2>1 DEF Delivers, SameAccepted
<1>3. CASE \E m \in Message, reason \in Outcome \cup {"removed"} : Settles(D, m, reason)
  BY <1>0, <1>3 DEF Settles, SameAccepted
<1>4. CASE \E m \in Message : Accepts(m)
  BY <1>0, <1>4 DEF Accepts
<1> QED BY <1>1, <1>2, <1>3, <1>4 DEF Shape

-----------------------------------------------------------------------------
(* The refinement.                                                          *)

LEMMA ImplementsInit == ASSUME QueueInit PROVE Delivery!Init
<1>1. Waiting = {} /\ InTx = {}
  BY DEF QueueInit, MsmqInit, Waiting, Contents, ToSet, InTx
<1>2. \A m \in Message : ~InSystem(m)  BY <1>1 DEF InSystem
<1>3. gone = [m \in Message |-> "none"] /\ \A m \in Message : sends[m] = 0
  BY DEF QueueInit, MsmqInit
<1> QED BY <1>2, <1>3 DEF Delivery!Init

LEMMA ImplementsStep ==
  ASSUME NEW D, D \subseteq Reason \ {"ok"}, QueueTypeOK, Unaccepted, Shape(D)
  PROVE  [Delivery!Next]_(Delivery!vars)
<1> DEFINE owed == {m \in Message : InSystem(m)}
           ended == [m \in Message |-> IF InSystem(m) THEN "none" ELSE gone[m]]
           delivered == {m \in Message : sends[m] > 0}
<1>0. /\ gone \in [Message -> Outcome \cup {"none", "removed"}]
      /\ sends \in [Message -> Nat]
      /\ stage \in [Message -> {"new", "producing", "accepted", "given up"}]
  BY DEF QueueTypeOK, MsmqTypeOK
<1>1. \A m : InSystem(m) <=> m \in Owed  BY DEF InSystem, Owed
<1>2. \A m : InSystem(m)' <=> m \in Owed'  BY DEF InSystem, Owed
<1>3. CASE Quiet
  <2>1. UNCHANGED <<owed, ended, delivered>>  BY <1>1, <1>2, <1>3 DEF Quiet
  <2> QED BY <2>1 DEF Delivery!vars
<1>4. CASE Delivers
  <2>1. PICK m \in Message : m = held  BY <1>4 DEF Delivers
  <2>2. m \in owed /\ UNCHANGED <<owed, ended>>  BY <1>1, <1>2, <1>4, <2>1 DEF Delivers
  <2>3. delivered' = delivered \cup {m}  BY <1>4, <2>1, SendsGrow
  <2>4. Delivery!Deliver(m)  BY <2>2, <2>3 DEF Delivery!Deliver
  <2> QED BY <2>4 DEF Delivery!Next
<1>5. CASE \E m \in Message, reason \in Outcome \cup {"removed"} : Settles(D, m, reason)
  <2>1. PICK m \in Message, reason \in Outcome \cup {"removed"} : Settles(D, m, reason)
    BY <1>5
  <2>2. delivered' = delivered  BY <2>1 DEF Settles
  <2>3. CASE m \in Owed'
    <3>1. Owed' = Owed  BY <2>1, <2>3 DEF Settles
    <3>2. owed' = owed  BY <1>1, <1>2, <3>1
    <3>3. ended' = ended
      BY <1>0, <1>1, <1>2, <2>1, <2>3, <3>1 DEF Settles
    <3> QED BY <2>2, <3>2, <3>3 DEF Delivery!vars
  <2>4. CASE m \notin Owed'
    <3>1. Owed' = Owed \ {m}  BY <2>1, <2>4 DEF Settles
    <3>2. m \in owed /\ owed' = owed \ {m}  BY <1>1, <1>2, <2>1, <3>1 DEF Settles
    <3>3. ended' = [ended EXCEPT ![m] = reason]
      BY <1>0, <1>1, <1>2, <2>1, <3>1 DEF Settles
    <3>4. reason \in Reason /\ (reason = "ok" => {m} \subseteq delivered)
      <4>1. "removed" \in Reason /\ "ok" \in Reason  BY DEF Reason
      <4>2. reason \in D \cup {"removed"} \/ (reason = "ok" /\ sends[m] > 0)
        BY <2>1 DEF Settles
      <4>3. reason \in Reason  BY <4>1, <4>2
      <4>4. reason = "ok" => sends[m] > 0  BY <4>2
      <4> QED BY <2>1, <4>3, <4>4
    <3>5. ended' = [x \in Message |-> IF x \in {m} THEN reason ELSE ended[x]]  BY <3>3
    <3>6. Delivery!Settle({m})  BY <2>2, <3>2, <3>4, <3>5 DEF Delivery!Settle
    <3> QED BY <3>2, <3>6 DEF Delivery!Next
  <2> QED BY <2>3, <2>4
<1>6. CASE \E m \in Message : Accepts(m)
  <2>1. PICK m \in Message : Accepts(m)  BY <1>6
  <2>2. m \notin Owed /\ gone[m] = "none"  BY <2>1 DEF Accepts, Unaccepted
  <2>3. m \notin owed /\ ended[m] = "none"  BY <1>1, <2>2
  <2>4. owed' = owed \cup {m} /\ delivered' = delivered  BY <1>1, <1>2, <2>1 DEF Accepts
  <2>5. ended' = ended  BY <1>0, <1>1, <1>2, <2>1, <2>2 DEF Accepts
  <2>6. Delivery!Accept(m)  BY <2>3, <2>4, <2>5 DEF Delivery!Accept
  <2> QED BY <2>6 DEF Delivery!Next
<1> QED BY <1>3, <1>4, <1>5, <1>6 DEF Shape

-----------------------------------------------------------------------------
(* The thread.                                                              *)

ThreadOK == QueueTypeOK /\ ThreadTypeOK

Control(D) ==
  /\ pc \in {"idle", "sleep", "dead", "down"} => tx = "none"
  /\ pc \in {"wait", "scan"} => held = NoMessage
  /\ pc \in {"wait", "scan", "send", "success", "commit", "discard"} =>
       tx = "pending" /\ ~requeued
  /\ pc \in {"send", "success", "commit", "delete", "discard", "failed", "requeue",
             "commitLow"} => held \in Message
  /\ pc \in {"success", "commit"} => outcome = "ok" /\ sends[held] > 0
  /\ pc = "discard" => outcome \in D
  /\ pc = "commitLow" => tx = "pending" /\ requeued
  /\ tx = "complete" => held \in Message /\ (requeued \/ MayLetGo(D))

\* The steps that only touch the queues where another program may.
Still(D) ==
  \/ \E b \in BOOLEAN : BeginExport(b)
  \/ WaitAny \/ ScanNext \/ DequeueFails
  \/ \E o \in SendEndings, h \in {"discard", "requeue", "rollback"} :
       (h = "discard" => o \in D) /\ SendThrows(o, h)
  \/ \E h \in {"requeue", "rollback"} : Succeed(h) \/ DeletePayload(h)
  \/ LogDiscarded
  \/ Sleep
  \/ \E h \in {"requeue", "rollback", "dispose"} :
       (h = "requeue" => held \in Message) /\ AbortAt(h)
  \/ Restart

\* The steps that move messages or change the transaction.
Moving ==
  \/ ScanReceive
  \/ SendSucceeds
  \/ \E h \in {"requeue", "rollback"} : CommitExport(h)
  \/ Discard
  \/ RollBackExport
  \/ Crash
  \/ Surroundings

-----------------------------------------------------------------------------
(* Control.                                                                 *)

LEMMA ScanReceives ==
  ASSUME NEW D, ThreadOK, Control(D), ScanReceive
  PROVE  /\ QueuesOK' /\ held' \in Message /\ Owed' = Owed
         /\ scanAt \in QueueName /\ tx = "pending" /\ held = NoMessage
<1> USE MsmqQueueAssumption
<1>1. scanAt \in QueueName /\ Receive(scanAt)  BY DEF ThreadOK, ThreadTypeOK, ScanReceive
<1>2. tx = "pending" /\ held = NoMessage  BY DEF Control, ScanReceive
<1> QED BY <1>1, <1>2, ReceiveOwed, TypedQueues DEF ThreadOK

LEMMA StillControl ==
  ASSUME NEW D, ThreadOK, Control(D), Still(D)
  PROVE  Control(D)'
<1> USE MsmqQueueAssumption, ExportQueueAssumption DEF Control, MayLetGo, Goto, NoFault, Fault
<1>0. /\ held \in Message \cup {NoMessage} /\ sends \in [Message -> Nat]
      /\ remote \in BOOLEAN /\ requeued \in BOOLEAN
  BY DEF ThreadOK, QueueTypeOK, MsmqTypeOK
<1>1. CASE \E b \in BOOLEAN : BeginExport(b)
  BY <1>0, <1>1 DEF BeginExport, BeginTransaction
<1>2. CASE WaitAny  BY <1>0, <1>2 DEF WaitAny, queueVars
<1>3. CASE ScanNext  BY <1>0, <1>3 DEF ScanNext, queueVars
<1>4. CASE DequeueFails  BY <1>0, <1>4 DEF DequeueFails, TransactionVars
<1>5. CASE \E o \in SendEndings, h \in {"discard", "requeue", "rollback"} :
             (h = "discard" => o \in D) /\ SendThrows(o, h)
  BY <1>0, <1>5 DEF SendThrows
<1>6. CASE \E h \in {"requeue", "rollback"} : Succeed(h)
  BY <1>0, <1>6 DEF Succeed, TransactionVars
<1>7. CASE \E h \in {"requeue", "rollback"} : DeletePayload(h)
  BY <1>0, <1>7 DEF DeletePayload, TransactionVars
<1>8. CASE LogDiscarded  BY <1>0, <1>8 DEF LogDiscarded, TransactionVars
<1>9. CASE Sleep  BY <1>0, <1>9 DEF Sleep, queueVars
<1>10. CASE \E h \in {"requeue", "rollback", "dispose"} :
              (h = "requeue" => held \in Message) /\ AbortAt(h)
  BY <1>0, <1>10 DEF AbortAt, TransactionVars
<1>11. CASE Restart  BY <1>0, <1>11 DEF Restart, queueVars
<1> QED BY <1>1, <1>2, <1>3, <1>4, <1>5, <1>6, <1>7, <1>8, <1>9, <1>10, <1>11 DEF Still

LEMMA SurroundingsLeave ==
  ASSUME Surroundings
  PROVE  Environment /\ UNCHANGED <<pc, scanAt, found, escaping, failedSinceSleep,
                                    tx, held, heldFrom, requeued, outcome, sends>>
BY DEF Surroundings, threadVars, Environment, ProducerEnqueue, ProducerCommit,
       ProducerFails, OperatorRemoves, PayloadDisappears, TransactionVars

LEMMA MovingControl ==
  ASSUME NEW D, ThreadOK, Control(D), Moving
  PROVE  Control(D)'
<1> USE MsmqQueueAssumption, ExportQueueAssumption DEF Control, MayLetGo, Goto, NoFault, Fault
<1>0. /\ held \in Message \cup {NoMessage} /\ sends \in [Message -> Nat]
      /\ remote \in BOOLEAN /\ requeued \in BOOLEAN
  BY DEF ThreadOK, QueueTypeOK, MsmqTypeOK
<1>1. CASE ScanReceive
  BY <1>0, <1>1, ScanReceives DEF ScanReceive, Receive
<1>2. CASE SendSucceeds  BY <1>0, <1>2 DEF SendSucceeds
<1>3. CASE \E h \in {"requeue", "rollback"} : CommitExport(h)
  BY <1>0, <1>3 DEF CommitExport, Commit, CommitThrows
<1>4. CASE Discard
  BY <1>0, <1>4 DEF Discard, Commit, CommitThrows
<1>5. CASE RollBackExport
  BY <1>0, <1>5 DEF RollBackExport, Rollback, TransactionVars
<1>6. CASE Crash
  BY <1>0, <1>6 DEF Crash, DisposeAborts, DisposeNothing, EndTransaction
<1>7. CASE Surroundings  BY <1>7, SurroundingsLeave
<1> QED BY <1>1, <1>2, <1>3, <1>4, <1>5, <1>6, <1>7 DEF Moving

\* The end of the using block; aside: what was sent on goes with it.
LEMMA DisposeControl ==
  ASSUME NEW D, ThreadOK, Control(D), NEW aside \in BOOLEAN, Dispose(aside)
  PROVE  Control(D)'
<1> USE DEF Control, MayLetGo, Goto, NoFault, Fault
<1>1. tx' = "none" /\ requeued' = FALSE /\ pc' \in {"dead", "idle", "sleep"}
  BY DEF Dispose, DisposeCommits, DisposeAborts, DisposeNothing, EndTransaction, AfterExport
<1> QED BY <1>1

-----------------------------------------------------------------------------
(* Shape.                                                                   *)

LEMMA StillShape ==
  ASSUME NEW D, ThreadOK, Control(D), Still(D)
  PROVE  QueuesOK' /\ Shape(D)
<1> USE DEF Shape
<1>1. CASE \E b \in BOOLEAN : BeginExport(b)
  <2>1. UNCHANGED <<queue, gone, sends, stage>> /\ held' = NoMessage
    BY <1>1 DEF BeginExport, BeginTransaction
  <2>2. ~Open  BY <1>1 DEF BeginExport, Control, Open
  <2>3. InTx' = {}  BY <2>1 DEF InTx
  <2> QED BY <2>1, <2>2, <2>3, EndsNothing DEF ThreadOK, SameAccepted
<1>2. CASE ~\E b \in BOOLEAN : BeginExport(b)
  <2>1. UNCHANGED <<queue, tx, held, gone, sends, stage>>
    BY <1>2 DEF Still, WaitAny, ScanNext, DequeueFails, SendThrows, Succeed, DeletePayload,
                LogDiscarded, Sleep, AbortAt, Restart, queueVars, TransactionVars
  <2> QED BY <2>1, Leaves DEF ThreadOK, Quiet, SameAccepted
<1> QED BY <1>1, <1>2

\* A commit: final at once, a vote, or refused.
LEMMA CommitShape ==
  ASSUME NEW D, ThreadOK, NEW aside \in BOOLEAN, aside => requeued,
         requeued /\ ~aside => CopyKept,
         Commit(aside) \/ CommitThrows, UNCHANGED <<stage, sends>>,
         tx = "pending", held \in Message, MayLetGo(D) \/ requeued
  PROVE  QueuesOK' /\ Shape(D)
<1>1. CASE UNCHANGED <<queue, gone>> /\ tx' \in {"pending", "complete"}
  <2>1. held' = held  BY DEF Commit, CommitThrows
  <2>2. QueuesOK' /\ Waiting' = Waiting
    BY <1>1, TypedQueues, QueueUnchanged DEF ThreadOK
  <2>3. InTx' = InTx  BY <1>1, <2>1 DEF InTx
  <2> QED BY <1>1, <2>2, <2>3 DEF Quiet, Owed, Shape, SameAccepted
<1>2. CASE MakeFinal(aside) /\ tx' = "committed"
  <2>1. Open  BY DEF Open
  <2>2. InTx' = {}  BY <1>2, Ends
  <2> QED BY <1>2, <2>1, <2>2, Commits DEF ThreadOK, SameAccepted
<1> QED BY <1>1, <1>2 DEF Commit, CommitThrows

LEMMA MovingShape ==
  ASSUME NEW D, ThreadOK, Control(D), Moving
  PROVE  QueuesOK' /\ Shape(D)
<1> USE DEF Shape
<1>0. requeued \in BOOLEAN  BY DEF ThreadOK, QueueTypeOK, MsmqTypeOK
<1>1. CASE ScanReceive
  <2>1. UNCHANGED <<gone, sends, stage>>  BY <1>1 DEF ScanReceive
  <2> QED BY <1>1, <2>1, ScanReceives DEF Quiet, SameAccepted
<1>2. CASE SendSucceeds
  <2>1. UNCHANGED <<queue, tx, held, gone, stage>>  BY <1>2 DEF SendSucceeds
  <2>2. QueuesOK' /\ Owed' = Owed  BY <2>1, Leaves DEF ThreadOK
  <2>3. held \in Message /\ held \in Owed
    <3>1. held \in Message /\ tx = "pending"  BY <1>2 DEF SendSucceeds, Control
    <3>2. held # NoMessage  BY <3>1, MsmqQueueAssumption
    <3> QED BY <3>1, <3>2 DEF Owed, InTx
  <2>4. Delivers  BY <1>2, <2>1, <2>2, <2>3 DEF SendSucceeds, Delivers, SameAccepted
  <2> QED BY <2>2, <2>4
<1>3. CASE Discard \/ \E h \in {"requeue", "rollback"} : CommitExport(h)
  <2>1. tx = "pending" /\ held \in Message /\ MayLetGo(D) /\ requeued = FALSE
    BY <1>0, <1>3 DEF CommitExport, Discard, Control, MayLetGo
  <2>2. (Commit(FALSE) \/ CommitThrows) /\ UNCHANGED <<stage, sends>>
    BY <1>3 DEF CommitExport, Discard
  <2> QED BY <2>1, <2>2, CommitShape
<1>4. CASE RollBackExport
  <2>1. UNCHANGED <<held, stage, sends>>
    BY <1>4 DEF RollBackExport, Rollback, TransactionVars
  <2>2. CASE UNCHANGED <<tx, queue, gone>>
    BY <2>1, <2>2, Leaves DEF ThreadOK, Quiet, SameAccepted
  <2>3. CASE tx = "pending" /\ tx' = "aborted" /\ PutBack
    <3>1. Open /\ InTx' = {}  BY <2>3, Ends DEF Open
    <3> QED BY <2>1, <2>3, <3>1, Aborts DEF ThreadOK, SameAccepted
  <2> QED BY <1>4, <2>2, <2>3 DEF RollBackExport, Rollback, RollbackThrows, TransactionVars
<1>5. CASE Crash
  <2>1. UNCHANGED <<stage, sends>> /\ EndTransaction
    BY <1>5 DEF Crash, DisposeAborts, DisposeNothing
  <2>2. InTx' = {}  BY <2>1, Ends DEF EndTransaction
  <2>3. CASE DisposeAborts
    BY <2>1, <2>2, <2>3, Aborts DEF DisposeAborts, Open, ThreadOK, SameAccepted
  <2>4. CASE DisposeNothing
    BY <2>1, <2>2, <2>4, EndsNothing DEF DisposeNothing, Open, ThreadOK, SameAccepted
  <2> QED BY <1>5, <2>3, <2>4 DEF Crash
<1>6. CASE Surroundings
  BY <1>6, SurroundingsLeave, EnvironmentShape DEF ThreadOK
<1> QED BY <1>1, <1>2, <1>3, <1>4, <1>5, <1>6 DEF Moving

LEMMA DisposeShape ==
  ASSUME NEW D, ThreadOK, Control(D), NEW aside \in BOOLEAN, aside => requeued,
         requeued /\ ~aside /\ Open => CopyKept, Dispose(aside)
  PROVE  QueuesOK' /\ Shape(D)
<1> USE DEF Shape
<1>1. UNCHANGED <<stage, sends>> /\ EndTransaction
  BY DEF Dispose, DisposeCommits, DisposeAborts, DisposeNothing
<1>2. InTx' = {}  BY <1>1, Ends DEF EndTransaction
<1>3. CASE DisposeCommits(aside)
  <2>1. Open /\ held \in Message /\ (MayLetGo(D) \/ requeued)
    BY <1>3 DEF DisposeCommits, Open, Control
  <2>2. MakeFinal(aside)  BY <1>3 DEF DisposeCommits
  <2> QED BY <1>1, <1>2, <2>1, <2>2, Commits DEF ThreadOK, SameAccepted
<1>4. CASE DisposeAborts
  BY <1>1, <1>2, <1>4, Aborts DEF DisposeAborts, Open, ThreadOK, SameAccepted
<1>5. CASE DisposeNothing
  BY <1>1, <1>2, <1>5, EndsNothing DEF DisposeNothing, Open, ThreadOK, SameAccepted
<1> QED BY <1>3, <1>4, <1>5 DEF Dispose

-----------------------------------------------------------------------------
(* The steps as moves of a message that is in one place at a time.  This is *)
(* of use where a message sent on is sent in the transaction that received  *)
(* it; elsewhere there are two copies for a while.                          *)

LEMMA SurroundingsMove ==
  ASSUME QueueTypeOK, Unaccepted, Surroundings
  PROVE  Keeps({"removed"})
<1>1. Environment /\ InTx' = InTx  BY SurroundingsLeave DEF InTx
<1>2. CASE \E m \in Message : ProducerEnqueue(m) \/ ProducerFails(m) \/ PayloadDisappears(m)
  <2>1. UNCHANGED <<queue, gone>>
    BY <1>2 DEF ProducerEnqueue, ProducerFails, PayloadDisappears
  <2> QED BY <1>1, <2>1 DEF Keeps, Rests
<1>3. CASE \E m \in Message, p \in Priority : ProducerCommit(m, p)
  <2>1. PICK m \in Message, p \in Priority : ProducerCommit(m, p)  BY <1>3
  <2>2. m \notin Owed /\ gone[m] = "none"  BY <2>1 DEF ProducerCommit, Unaccepted
  <2>3. Arrives(p, m)  BY <1>1, <2>1, <2>2 DEF ProducerCommit, Arrives, Owed
  <2>4. p \in QueueName  BY ExportQueueAssumption
  <2> QED BY <2>3, <2>4 DEF Keeps
<1>4. CASE \E p \in QueueName : \E i \in 1..Len(queue[p]) : OperatorRemoves(p, i)
  <2>0. PICK p \in QueueName : \E i \in 1..Len(queue[p]) : OperatorRemoves(p, i)
    BY <1>4
  <2>1. PICK i \in 1..Len(queue[p]) : OperatorRemoves(p, i)  BY <2>0
  <2>2. Removes(p, i, "removed")  BY <1>1, <2>1 DEF OperatorRemoves, Removes
  <2> QED BY <2>2 DEF Keeps
<1> QED BY <1>1, <1>2, <1>3, <1>4 DEF Environment

LEMMA StillMoves ==
  ASSUME NEW D, ThreadOK, Control(D), Still(D)
  PROVE  Rests
<1>1. CASE \E b \in BOOLEAN : BeginExport(b)
  BY <1>1 DEF BeginExport, BeginTransaction, Control, InTx, Rests
<1>2. CASE ~\E b \in BOOLEAN : BeginExport(b)
  <2>1. UNCHANGED <<queue, tx, held, gone>>
    BY <1>2 DEF Still, WaitAny, ScanNext, DequeueFails, SendThrows, Succeed, DeletePayload,
                LogDiscarded, Sleep, AbortAt, Restart, queueVars, TransactionVars
  <2> QED BY <2>1 DEF Rests, InTx
<1> QED BY <1>1, <1>2

\* A commit or the end of the scope, where the copy went along.
LEMMA CommitMoves ==
  ASSUME ThreadOK, Unique, Settled, NEW aside \in BOOLEAN, aside <=> requeued,
         Commit(aside) \/ CommitThrows, tx = "pending", held \in Message
  PROVE  Keeps({"removed"})
<1>1. CASE UNCHANGED <<queue, gone>> /\ tx' \in {"pending", "complete"}
  <2>1. held' = held  BY DEF Commit, CommitThrows
  <2> QED BY <1>1, <2>1 DEF Keeps, Rests, InTx
<1>2. CASE MakeFinal(aside) /\ tx' = "committed"
  <2>1. Open  BY DEF Open
  <2>2. InTx' = {}  BY <1>2, Ends
  <2> QED BY <1>2, <2>1, <2>2, MakeFinalMoves, MsmqQueueAssumption
<1> QED BY <1>1, <1>2 DEF Commit, CommitThrows

LEMMA AbortMoves ==
  ASSUME ThreadOK, DisposeAborts \/ DisposeNothing
  PROVE  Keeps({"removed"})
<1>1. InTx' = {}  BY DEF DisposeAborts, DisposeNothing, EndTransaction, InTx
<1>2. CASE DisposeAborts
  BY <1>1, <1>2, PutBackReturns, TypedQueues DEF DisposeAborts, Open, ThreadOK
<1>3. CASE DisposeNothing
  BY <1>1, <1>3 DEF DisposeNothing, InTx, Rests, Keeps
<1> QED BY <1>2, <1>3

LEMMA DisposeMoves ==
  ASSUME NEW D, ThreadOK, Control(D), Unique, Settled,
         NEW aside \in BOOLEAN, aside <=> requeued, Dispose(aside)
  PROVE  Keeps({"removed"})
<1>1. CASE DisposeCommits(aside)
  <2>1. Open /\ held \in Message /\ MakeFinal(aside) /\ InTx' = {}
    BY <1>1 DEF DisposeCommits, EndTransaction, Open, Control, InTx
  <2> QED BY <2>1, MakeFinalMoves, MsmqQueueAssumption
<1>2. CASE DisposeAborts \/ DisposeNothing  BY <1>2, AbortMoves
<1> QED BY <1>1, <1>2 DEF Dispose

LEMMA MovingMoves ==
  ASSUME NEW D, ThreadOK, Control(D), Unaccepted, Unique, Settled, Moving
  PROVE  (ScanReceive /\ Takes(scanAt) /\ held' = Head(queue[scanAt])) \/ Keeps({"removed"})
<1>0. requeued \in BOOLEAN  BY DEF ThreadOK, QueueTypeOK, MsmqTypeOK
<1>1. CASE ScanReceive
  <2>1. Receive(scanAt) /\ gone' = gone  BY <1>1 DEF ScanReceive
  <2>2. scanAt \in QueueName /\ tx = "pending" /\ held = NoMessage  BY <1>1, ScanReceives
  <2>3. QueuesOK  BY TypedQueues DEF ThreadOK
  <2>4. Takes(scanAt)  BY <2>1, <2>2, <2>3, ReceiveTakes, MsmqQueueAssumption
  <2> QED BY <1>1, <2>1, <2>4 DEF Receive
<1>2. CASE SendSucceeds
  <2>1. UNCHANGED <<queue, tx, held, gone>>  BY <1>2 DEF SendSucceeds
  <2> QED BY <2>1 DEF Keeps, Rests, InTx
<1>3. CASE Discard \/ \E h \in {"requeue", "rollback"} : CommitExport(h)
  <2>1. tx = "pending" /\ held \in Message /\ requeued = FALSE
    BY <1>0, <1>3 DEF CommitExport, Discard, Control
  <2>2. Commit(FALSE) \/ CommitThrows  BY <1>3 DEF CommitExport, Discard
  <2> QED BY <2>1, <2>2, CommitMoves
<1>4. CASE RollBackExport
  <2>1. CASE UNCHANGED <<tx, held, queue, gone>>  BY <2>1 DEF Keeps, Rests, InTx
  <2>2. CASE tx = "pending" /\ tx' = "aborted" /\ PutBack
    <3>1. Open /\ InTx' = {}  BY <2>2, Ends DEF Open
    <3> QED BY <2>2, <3>1, PutBackReturns, TypedQueues DEF ThreadOK
  <2> QED BY <1>4, <2>1, <2>2 DEF RollBackExport, Rollback, RollbackThrows, TransactionVars
<1>5. CASE Crash  BY <1>5, AbortMoves DEF Crash
<1>6. CASE Surroundings  BY <1>6, SurroundingsMove DEF ThreadOK
<1> QED BY <1>1, <1>2, <1>3, <1>4, <1>5, <1>6 DEF Moving

-----------------------------------------------------------------------------
(* Payloads.                                                                *)

\* Only the producers, a loss and DeleteMessageData touch the payloads, and
\* only a commit leads to DeleteMessageData.
LEMMA PayloadsUntouched ==
  ASSUME NEW D, Still(D) \/ Moving, ~Surroundings,
         \A h \in {"requeue", "rollback"} : ~DeletePayload(h) /\ ~CommitExport(h)
  PROVE  UNCHANGED <<stage, payload, lost>> /\ pc' # "delete"
<1> USE DEF Goto
<1>1. CASE Still(D)
  BY <1>1 DEF Still, BeginExport, WaitAny, ScanNext, DequeueFails, SendThrows, Succeed,
              LogDiscarded, Sleep, AbortAt, Restart, queueVars
<1>2. CASE Moving
  BY <1>2 DEF Moving, ScanReceive, SendSucceeds, Discard, RollBackExport, Crash
<1> QED BY <1>1, <1>2

\* What the surroundings do to the payload of a message in their hands.
LEMMA EnvironmentPayloads ==
  ASSUME QueueTypeOK, Environment, NEW m \in Message,
         stage'[m] \in {"producing", "accepted"}
  PROVE  \/ /\ stage[m] \in {"producing", "accepted"}
            /\ m \in payload \cup lost => m \in payload' \cup lost'
         \/ m \in payload'
<1>0. stage \in [Message -> {"new", "producing", "accepted", "given up"}]
  BY DEF QueueTypeOK
<1>1. CASE \E x \in Message : ProducerEnqueue(x)  BY <1>0, <1>1 DEF ProducerEnqueue
<1>2. CASE \E x \in Message, p \in Priority : ProducerCommit(x, p)
  BY <1>0, <1>2 DEF ProducerCommit
<1>3. CASE \E x \in Message : ProducerFails(x)  BY <1>0, <1>3 DEF ProducerFails
<1>4. CASE \E p \in QueueName : \E i \in 1..Len(queue[p]) : OperatorRemoves(p, i)
  BY <1>0, <1>4 DEF OperatorRemoves
<1>5. CASE \E x \in Message : PayloadDisappears(x)  BY <1>0, <1>5 DEF PayloadDisappears
<1> QED BY <1>1, <1>2, <1>3, <1>4, <1>5 DEF Environment

LEMMA SendsStay ==
  ASSUME NEW D, QueueTypeOK, Shape(D), NEW m \in Message
  PROVE  sends[m] > 0 => sends'[m] > 0
<1>1. CASE Delivers  BY <1>1, SendsGrow
<1> QED BY <1>1 DEF Shape, Quiet, Settles, Accepts

-----------------------------------------------------------------------------
(* Types.                                                                   *)

LEMMA FaultTyped ==
  ASSUME QueueTypeOK, NEW kind, Fault(kind)
  PROVE  faults' \in 0..MaxFaults
<1>1. faults \in 0..MaxFaults /\ MaxFaults \in Nat
  BY MsmqQueueAssumption DEF QueueTypeOK, MsmqTypeOK
<1> QED BY <1>1 DEF Fault

\* What the shape of a step and the constant settings leave to say.
LEMMA Typed ==
  ASSUME NEW D, ThreadOK, QueuesOK', Shape(D), UNCHANGED siteVars
  PROVE  /\ queue' \in [QueueName -> Seq(Message)]
         /\ gone' \in [Message -> Outcome \cup {"none", "removed"}]
         /\ sends' \in [Message -> Nat]
         /\ remote' \in BOOLEAN /\ corrupt' \subseteq Message
<1>1. remote' \in BOOLEAN /\ corrupt' \subseteq Message
  BY DEF siteVars, ThreadOK, QueueTypeOK, MsmqTypeOK
<1> QED BY <1>1, ShapeTyped DEF QueuesOK, ThreadOK

LEMMA StillTyped ==
  ASSUME NEW D, ThreadOK, Control(D), Still(D), QueuesOK', Shape(D), UNCHANGED siteVars
  PROVE  ThreadOK'
<1> DEFINE Gone == [Message -> Outcome \cup {"none", "removed"}]
<1>1. /\ queue' \in [QueueName -> Seq(Message)] /\ gone' \in Gone
      /\ sends' \in [Message -> Nat] /\ remote' \in BOOLEAN /\ corrupt' \subseteq Message
  BY Typed
<1>2. \A kind : Fault(kind) => faults' \in 0..MaxFaults  BY FaultTyped DEF ThreadOK
<1>3. gone \in Gone  BY DEF ThreadOK, QueueTypeOK
<1> HIDE DEF Gone
<1> USE DEF ThreadOK, QueueTypeOK, MsmqTypeOK, ThreadTypeOK, queueVars, Goto, NoFault
<1>4. CASE \E b \in BOOLEAN : BeginExport(b)
  BY <1>1, <1>4 DEF BeginExport, BeginTransaction, Gone
<1>5. CASE WaitAny  BY <1>1, <1>5 DEF WaitAny, Priority, Gone
<1>6. CASE ScanNext  BY <1>1, <1>6 DEF ScanNext, NextPriority, Priority, Gone
<1>7. CASE DequeueFails  BY <1>1, <1>2, <1>7 DEF DequeueFails, TransactionVars, Gone
<1>8. CASE \E o \in SendEndings, h \in {"discard", "requeue", "rollback"} :
             (h = "discard" => o \in D) /\ SendThrows(o, h)
  <2>1. held \in Message  BY <1>8 DEF SendThrows, Control
  <2>2. SendEndings \subseteq Outcome
    BY <2>1, OutcomesAssumption DEF SendEndings, Outcome
  <2> QED BY <1>1, <1>8, <2>1, <2>2 DEF SendThrows, Gone
<1>9. CASE \E h \in {"requeue", "rollback"} : Succeed(h)
  BY <1>1, <1>2, <1>9, LogTyped DEF Succeed, Control, TransactionVars, Gone
<1>10. CASE \E h \in {"requeue", "rollback"} : DeletePayload(h)
  BY <1>1, <1>2, <1>10 DEF DeletePayload, TransactionVars, Gone
<1>11. CASE LogDiscarded
  BY <1>1, <1>2, <1>11, LogTyped DEF LogDiscarded, Control, TransactionVars, Gone
<1>12. CASE Sleep  BY <1>1, <1>12 DEF Sleep, Gone
<1>13. CASE \E h \in {"requeue", "rollback", "dispose"} :
              (h = "requeue" => held \in Message) /\ AbortAt(h)
  BY <1>1, <1>2, <1>13 DEF AbortAt, TransactionVars, Gone
<1>14. CASE Restart  BY <1>1, <1>14 DEF Restart, Gone
<1> QED BY <1>4, <1>5, <1>6, <1>7, <1>8, <1>9, <1>10, <1>11, <1>12, <1>13, <1>14 DEF Still

LEMMA MovingTyped ==
  ASSUME NEW D, ThreadOK, Control(D), Moving, QueuesOK', Shape(D), UNCHANGED siteVars
  PROVE  ThreadOK'
<1> DEFINE Gone == [Message -> Outcome \cup {"none", "removed"}]
<1>1. /\ queue' \in [QueueName -> Seq(Message)] /\ gone' \in Gone
      /\ sends' \in [Message -> Nat] /\ remote' \in BOOLEAN /\ corrupt' \subseteq Message
  BY Typed
<1>2. \A kind : Fault(kind) => faults' \in 0..MaxFaults  BY FaultTyped DEF ThreadOK
<1>3. CASE Surroundings
  <2>0. /\ Environment
        /\ UNCHANGED <<pc, scanAt, found, escaping, failedSinceSleep,
                       tx, held, heldFrom, requeued, outcome>>
    BY <1>3, SurroundingsLeave
  <2>1. ThreadTypeOK'  BY <2>0 DEF ThreadOK, ThreadTypeOK
  <2>2. /\ tx' \in {"none", "pending", "complete", "committed", "aborted"}
        /\ held' \in Message \cup {NoMessage} /\ heldFrom' \in QueueName
        /\ requeued' \in BOOLEAN /\ outcome' \in Outcome
    BY <2>0 DEF ThreadOK, QueueTypeOK, MsmqTypeOK
  <2>3. /\ stage' \in [Message -> {"new", "producing", "accepted", "given up"}]
        /\ payload' \subseteq Message /\ log' \in [Message -> Status]
        /\ lost' \subseteq Message /\ faults' \in 0..MaxFaults
    <3>0. /\ stage \in [Message -> {"new", "producing", "accepted", "given up"}]
          /\ payload \subseteq Message /\ log \in [Message -> Status]
          /\ lost \subseteq Message /\ faults \in 0..MaxFaults
          /\ \A m \in Message : LogEnqueued(m) \in [Message -> Status]
      BY LogTyped DEF ThreadOK, QueueTypeOK, MsmqTypeOK
    <3>1. CASE \E m \in Message : ProducerEnqueue(m)
      BY <3>0, <3>1 DEF ProducerEnqueue
    <3>2. CASE \E m \in Message, p \in Priority : ProducerCommit(m, p)
      BY <3>0, <3>2 DEF ProducerCommit
    <3>3. CASE \E m \in Message : ProducerFails(m)
      BY <1>2, <3>0, <3>3 DEF ProducerFails
    <3>4. CASE \E p \in QueueName : \E i \in 1..Len(queue[p]) : OperatorRemoves(p, i)
      BY <1>2, <3>0, <3>4 DEF OperatorRemoves
    <3>5. CASE \E m \in Message : PayloadDisappears(m)
      BY <1>2, <3>0, <3>5 DEF PayloadDisappears
    <3> QED BY <2>0, <3>1, <3>2, <3>3, <3>4, <3>5 DEF Environment
  <2> QED BY <1>1, <2>1, <2>2, <2>3 DEF ThreadOK, QueueTypeOK, MsmqTypeOK
<1> HIDE DEF Gone
<1> USE DEF ThreadOK, QueueTypeOK, MsmqTypeOK, ThreadTypeOK, queueVars, Goto, NoFault
<1>4. CASE ScanReceive
  BY <1>1, <1>4, ScanReceives DEF ScanReceive, Receive, Gone
<1>5. CASE SendSucceeds  BY <1>1, <1>5 DEF SendSucceeds, Outcome, Gone
<1>6. CASE \E h \in {"requeue", "rollback"} : CommitExport(h)
  BY <1>1, <1>2, <1>6 DEF CommitExport, Commit, CommitThrows, Gone
<1>7. CASE Discard
  BY <1>1, <1>2, <1>7 DEF Discard, Commit, CommitThrows, Gone
<1>8. CASE RollBackExport
  BY <1>1, <1>8 DEF RollBackExport, Rollback, TransactionVars, Gone
<1>9. CASE Crash
  BY <1>1, <1>2, <1>9 DEF Crash, DisposeAborts, DisposeNothing, EndTransaction, Gone
<1> QED BY <1>3, <1>4, <1>5, <1>6, <1>7, <1>8, <1>9 DEF Moving

LEMMA DisposeTyped ==
  ASSUME NEW D, ThreadOK, NEW aside, Dispose(aside), QueuesOK', Shape(D), UNCHANGED siteVars
  PROVE  ThreadOK'
<1> DEFINE Gone == [Message -> Outcome \cup {"none", "removed"}]
<1>1. /\ queue' \in [QueueName -> Seq(Message)] /\ gone' \in Gone
      /\ sends' \in [Message -> Nat] /\ remote' \in BOOLEAN /\ corrupt' \subseteq Message
  BY Typed
<1>2. \A kind : Fault(kind) => faults' \in 0..MaxFaults  BY FaultTyped DEF ThreadOK
<1>3. EndTransaction  BY DEF Dispose, DisposeCommits, DisposeAborts, DisposeNothing
<1>4. faults' \in 0..MaxFaults
  BY <1>2 DEF Dispose, NoFault, ThreadOK, QueueTypeOK, MsmqTypeOK
<1>5. pc' \in {"dead", "idle", "sleep"} /\ escaping' = FALSE
      /\ UNCHANGED <<stage, payload, log, lost, scanAt, found, failedSinceSleep>>
  BY DEF Dispose, AfterExport, Goto
<1> HIDE DEF Gone
<1>6. MsmqTypeOK'
  BY <1>1, <1>3, <1>4 DEF ThreadOK, QueueTypeOK, MsmqTypeOK, EndTransaction
<1>7. QueueTypeOK'
  BY <1>1, <1>3, <1>5, <1>6 DEF ThreadOK, QueueTypeOK, EndTransaction, Gone
<1>8. ThreadTypeOK'  BY <1>5 DEF ThreadOK, ThreadTypeOK
<1> QED BY <1>7, <1>8 DEF ThreadOK

-----------------------------------------------------------------------------
(* Where everything starts, and where nothing happens.                      *)

LEMMA ThreadInitHolds ==
  ASSUME NEW D, QueueInit, ThreadInit
  PROVE  ThreadOK /\ Control(D) /\ Owed = {}
<1> USE MsmqQueueAssumption, ExportQueueAssumption DEF QueueInit, MsmqInit, ThreadInit
<1>1. QueueTypeOK
  <2>1. queue \in [QueueName -> Seq(Message)]  OBVIOUS
  <2>2. faults \in 0..MaxFaults  OBVIOUS
  <2>3. heldFrom \in QueueName  OBVIOUS
  <2>4. log \in [Message -> Status] /\ outcome \in Outcome  BY DEF Status, Outcome
  <2>5. remote \in BOOLEAN /\ corrupt \subseteq Message  OBVIOUS
  <2> QED BY <2>1, <2>2, <2>3, <2>4, <2>5 DEF QueueTypeOK, MsmqTypeOK
<1>2. ThreadTypeOK  BY DEF ThreadTypeOK, Priority
<1>3. Control(D)  BY DEF Control
<1>4. Owed = {}  BY DEF Owed, Waiting, Contents, ToSet, InTx
<1> QED BY <1>1, <1>2, <1>3, <1>4 DEF ThreadOK

LEMMA ThreadStutters ==
  ASSUME NEW D, ThreadOK, Control(D), UNCHANGED <<queueVars, threadVars, siteVars>>
  PROVE  ThreadOK' /\ Control(D)' /\ Quiet /\ Waiting' = Waiting
<1> USE DEF queueVars, threadVars, siteVars
<1>1. MsmqTypeOK'  BY DEF ThreadOK, QueueTypeOK, MsmqTypeOK
<1>2. QueueTypeOK'  BY <1>1 DEF ThreadOK, QueueTypeOK
<1>3. ThreadTypeOK'  BY DEF ThreadOK, ThreadTypeOK
<1>4. Control(D)'  BY DEF Control, MayLetGo
<1>5. Quiet /\ Waiting' = Waiting  BY Leaves DEF ThreadOK, Quiet, SameAccepted
<1> QED BY <1>2, <1>3, <1>4, <1>5 DEF ThreadOK
=============================================================================
