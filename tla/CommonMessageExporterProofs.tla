--------------------- MODULE CommonMessageExporterProofs ---------------------
(***************************************************************************)
(* Proofs about DataExchangeCommon's exporter.  What DemMessageExporter    *)
(* gets from the transaction itself has to be an invariant here: the copy  *)
(* in the LOW queue is final before the receive is, so between the two     *)
(* commits the copy is what keeps the message (CopyHolds).                 *)
(***************************************************************************)
EXTENDS CommonMessageExporter, ExporterThreadProofs, FiniteSetTheorems,
        FunctionTheorems

\* A message may leave the queues for one of these reasons.
Discarded == {"invalid", "invalidNoId", "metadata", "claim"}

\* EnqueueLow runs once, in an open transaction.
InnerOK == pc = "requeue" => tx = "pending" /\ ~requeued

CopyHolds == requeued /\ Open => held \in Message /\ CopyKept

\* A payload is there until its message has been delivered.
PayloadKept ==
  /\ \A m \in Message : stage[m] \in {"producing", "accepted"} =>
       m \in payload \cup lost \/ sends[m] > 0
  /\ pc = "delete" => sends[held] > 0

\* The message in the transaction that is not on its way out: it has not been
\* sent in this pass, nor copied to LOW.
Stays(m) ==
  /\ m \in InTx
  /\ pc \notin {"success", "commit", "commitLow"}
  /\ tx = "complete" => ~requeued /\ outcome # "ok"

\* Copies and deliveries together are paid for by the faults.
CopiesPaid ==
  \A m \in Message :
    /\ Copies(m) + sends[m] <= 1 + faults
    /\ Stays(m) => Copies(m) + sends[m] <= faults
    /\ stage[m] # "accepted" => sends[m] = 0

IInv ==
  /\ TypeOK /\ Control(Discarded) /\ InnerOK /\ CopyHolds /\ Unaccepted /\ NoMessageLost
  /\ PayloadKept /\ CopiesPaid

\* The actions that are this exporter's own.
Own == EnqueueLow \/ CommitMoved \/ EndUsing

-----------------------------------------------------------------------------
(* Every action is one that both exporters have, or the exporter's own.     *)

LEMMA Splits ==
  ASSUME Control(Discarded), Next
  PROVE  (Still(Discarded) \/ Moving \/ Own) /\ UNCHANGED siteVars
<1>1. UNCHANGED siteVars  BY DEF Next, ThreadStep
<1>2. Still(Discarded) \/ Moving \/ Own
  <2>1. CASE Begin \/ Sleep \/ Restart  BY <2>1 DEF Begin, Still
  <2>2. CASE Dequeue  BY <2>2 DEF Dequeue, Still, Moving
  <2>3. CASE Send
    <3>1. \A o : /\ Handler(o) \in {"discard", "requeue", "rollback"}
                 /\ Handler(o) = "discard" => o \in Discarded
      BY DEF Handler, Discarded
    <3> QED BY <2>3, <3>1 DEF Send, Still, Moving
  <2>4. CASE OnSuccess \/ DeleteMessageData  BY <2>4 DEF OnSuccess, DeleteMessageData, Still
  <2>5. CASE CommitSent  BY <2>5 DEF CommitSent, Moving
  <2>6. CASE CatchInvalid \/ CatchRollback  BY <2>6 DEF CatchInvalid, CatchRollback, Moving
  <2>7. CASE OnInvalidMessageException  BY <2>7 DEF OnInvalidMessageException, Still
  <2>8. CASE Abort  BY <2>8 DEF Abort, Still
  <2>9. CASE Crash \/ Surroundings  BY <2>9 DEF Moving
  <2> QED
    BY <2>1, <2>2, <2>3, <2>4, <2>5, <2>6, <2>7, <2>8, <2>9
       DEF Next, ThreadStep, ExportMessage, Own
<1> QED BY <1>1, <1>2

-----------------------------------------------------------------------------
(* The exporter's own actions.                                              *)

\* The inner transaction adds a copy of what the outer one holds.
LEMMA CopySent ==
  ASSUME TypeOK, Control(Discarded), InnerOK, pc = "requeue", UNCHANGED <<tx, held>>,
         queue' = [queue EXCEPT ![Aside] = Append(@, held)]
  PROVE  QueuesOK' /\ Owed' = Owed /\ held \in Waiting'
<1>1. held \in Message /\ tx = "pending"  BY DEF Control, InnerOK
<1>2. QueuesOK /\ Aside \in QueueName /\ queue[Aside] \in Seq(Message)
  BY MsmqQueueAssumption, TypedQueues, QueueAt DEF TypeOK
<1> DEFINE s == Append(queue[Aside], held)
<1>3. s \in Seq(Message) /\ ToSet(s) = ToSet(queue[Aside]) \cup {held}
  BY <1>1, <1>2, AppendElements
<1>4. queue' = [queue EXCEPT ![Aside] = s]  OBVIOUS
<1> HIDE DEF s
<1>5. /\ QueuesOK'
      /\ Waiting \ {} \subseteq Waiting'
      /\ Waiting' \subseteq Waiting \cup {held}
      /\ ToSet(s) \subseteq Waiting'
  <2>1. ToSet(queue[Aside]) \ {} \subseteq ToSet(s)  BY <1>3
  <2>2. ToSet(s) \subseteq ToSet(queue[Aside]) \cup {held}  BY <1>3
  <2> QED BY <1>2, <1>3, <1>4, <2>1, <2>2, QueueChanged, ZenonT(30)
<1>6. InTx' = InTx  BY DEF InTx
<1>7. held \in InTx  BY <1>1, MsmqQueueAssumption DEF InTx
<1> QED BY <1>3, <1>5, <1>6, <1>7 DEF Owed

LEMMA OwnControl ==
  ASSUME TypeOK, Control(Discarded), InnerOK, Own
  PROVE  Control(Discarded)'
<1> USE MsmqQueueAssumption, ExportQueueAssumption
<1>0. /\ held \in Message \cup {NoMessage} /\ sends \in [Message -> Nat]
      /\ remote \in BOOLEAN /\ requeued \in BOOLEAN
  BY DEF TypeOK, QueueTypeOK, MsmqTypeOK
<1>1. CASE EnqueueLow
  BY <1>0, <1>1 DEF EnqueueLow, InnerOK, Control, MayLetGo, Goto, NoFault, Fault
<1>2. CASE CommitMoved
  BY <1>0, <1>2 DEF CommitMoved, Commit, CommitThrows, Control, MayLetGo, Goto, NoFault, Fault
<1>3. CASE EndUsing
  BY <1>3, DisposeControl DEF EndUsing, TypeOK, ThreadOK
<1> QED BY <1>1, <1>2, <1>3 DEF Own

LEMMA OwnShape ==
  ASSUME TypeOK, Control(Discarded), InnerOK, CopyHolds, Own
  PROVE  QueuesOK' /\ Shape(Discarded)
<1>0. ThreadOK /\ requeued \in BOOLEAN  BY DEF TypeOK, ThreadOK, QueueTypeOK, MsmqTypeOK
<1>1. CASE EnqueueLow
  <2>1. pc = "requeue" /\ UNCHANGED <<tx, held, gone, sends, stage>>
    BY <1>1 DEF EnqueueLow
  <2>2. CASE queue' = queue
    BY <1>0, <2>1, <2>2, Leaves DEF ThreadOK, Quiet, Shape, SameAccepted
  <2>3. CASE queue' = [queue EXCEPT ![Aside] = Append(@, held)]
    BY <2>1, <2>3, CopySent DEF Quiet, Shape, SameAccepted
  <2> QED BY <1>1, <2>2, <2>3 DEF EnqueueLow
<1>2. CASE CommitMoved
  <2>1. tx = "pending" /\ held \in Message /\ requeued /\ CopyKept
    BY <1>2 DEF CommitMoved, Control, CopyHolds, Open
  <2>2. (Commit(FALSE) \/ CommitThrows) /\ UNCHANGED <<stage, sends>>
    BY <1>2 DEF CommitMoved
  <2> QED BY <1>0, <2>1, <2>2, CommitShape
<1>3. CASE EndUsing
  BY <1>0, <1>3, DisposeShape DEF EndUsing, CopyHolds
<1> QED BY <1>1, <1>2, <1>3 DEF Own

LEMMA Step ==
  ASSUME TypeOK, Control(Discarded), InnerOK, CopyHolds, Next
  PROVE  Control(Discarded)' /\ QueuesOK' /\ Shape(Discarded) /\ UNCHANGED siteVars
BY Splits, StillControl, MovingControl, OwnControl, StillShape, MovingShape, OwnShape
   DEF TypeOK, ThreadOK

-----------------------------------------------------------------------------
(* What holds between the two transactions.                                 *)

LEMMA InnerStep ==
  ASSUME TypeOK, Control(Discarded), InnerOK, Next
  PROVE  InnerOK'
<1>1. CASE Send
  BY <1>1 DEF Send, SendSucceeds, SendThrows, Control, InnerOK, Goto
<1>2. CASE Surroundings
  BY <1>2, SurroundingsLeave DEF InnerOK
<1>3. CASE EndUsing
  BY <1>3 DEF EndUsing, Dispose, AfterExport, Goto, InnerOK
<1>4. CASE ~Send /\ ~Surroundings /\ ~EndUsing
  <2>1. pc' # "requeue"
    BY <1>4 DEF Next, ThreadStep, ExportMessage, Begin, BeginExport, Dequeue, WaitAny, ScanNext,
                ScanReceive, DequeueFails, OnSuccess, Succeed, CommitSent, CommitExport,
                DeleteMessageData, DeletePayload, CatchInvalid, Discard,
                OnInvalidMessageException, LogDiscarded, EnqueueLow, CommitMoved,
                CatchRollback, RollBackExport, Sleep, Abort, AbortAt, Crash, Restart,
                Goto, queueVars
  <2> QED BY <2>1 DEF InnerOK
<1> QED BY <1>1, <1>2, <1>3, <1>4

LEMMA StillKeepsCopy ==
  ASSUME TypeOK, Control(Discarded), CopyHolds, Still(Discarded)
  PROVE  CopyHolds'
<1>1. CASE \E b \in BOOLEAN : BeginExport(b)
  BY <1>1 DEF BeginExport, BeginTransaction, CopyHolds
<1>2. CASE ~\E b \in BOOLEAN : BeginExport(b)
  <2>1. UNCHANGED <<queue, tx, held, gone, requeued>>
    BY <1>2 DEF Still, WaitAny, ScanNext, DequeueFails, SendThrows, Succeed, DeletePayload,
                LogDiscarded, Sleep, AbortAt, Restart, queueVars, TransactionVars
  <2>2. Waiting' = Waiting  BY <2>1, Leaves DEF TypeOK
  <2> QED BY <2>1, <2>2 DEF CopyHolds, CopyKept, Open
<1> QED BY <1>1, <1>2

\* While the copy counts, only the surroundings touch the queues: the next
\* step of the thread ends the transaction, puts the message back or votes.
LEMMA MovingKeepsCopy ==
  ASSUME TypeOK, Control(Discarded), CopyHolds, Moving
  PROVE  CopyHolds'
<1>0. TypeOK /\ requeued \in BOOLEAN  BY DEF TypeOK, QueueTypeOK, MsmqTypeOK
<1>1. CASE ScanReceive
  BY <1>0, <1>1 DEF ScanReceive, Receive, Control, CopyHolds
<1>2. CASE SendSucceeds
  BY <1>0, <1>2 DEF SendSucceeds, Control, CopyHolds
<1>3. CASE Discard \/ \E h \in {"requeue", "rollback"} : CommitExport(h)
  BY <1>0, <1>3 DEF Discard, CommitExport, Commit, CommitThrows, Control, CopyHolds
<1>4. CASE RollBackExport
  <2>1. CASE UNCHANGED <<queue, tx, held, gone, requeued>>
    <3>1. Waiting' = Waiting  BY <2>1, Leaves DEF TypeOK
    <3> QED BY <2>1, <3>1 DEF CopyHolds, CopyKept, Open
  <2>2. CASE tx' = "aborted"  BY <2>2 DEF CopyHolds, Open
  <2> QED BY <1>4, <2>1, <2>2 DEF RollBackExport, Rollback, TransactionVars
<1>5. CASE Crash
  BY <1>5 DEF Crash, DisposeAborts, DisposeNothing, EndTransaction, CopyHolds
<1>6. CASE Surroundings
  <2>1. Environment /\ UNCHANGED <<tx, held, requeued>>  BY <1>6, SurroundingsLeave
  <2> QED BY <2>1, EnvironmentKeepsCopy DEF TypeOK, CopyHolds, Open
<1> QED BY <1>1, <1>2, <1>3, <1>4, <1>5, <1>6 DEF Moving

LEMMA OwnKeepsCopy ==
  ASSUME TypeOK, Control(Discarded), InnerOK, CopyHolds, Own
  PROVE  CopyHolds'
<1>1. CASE EnqueueLow
  <2>1. held \in Message /\ held' = held  BY <1>1 DEF EnqueueLow, Control
  <2>2. CASE queue' = [queue EXCEPT ![Aside] = Append(@, held)]
    <3>1. held \in Waiting'  BY <1>1, <2>2, CopySent DEF EnqueueLow
    <3> QED BY <2>1, <3>1 DEF CopyHolds, CopyKept
  <2>3. CASE requeued' = requeued
    BY <1>1, <2>3 DEF EnqueueLow, InnerOK, CopyHolds
  <2> QED BY <1>1, <2>2, <2>3 DEF EnqueueLow
<1>2. CASE CommitMoved
  <2>1. CASE UNCHANGED <<queue, gone, held, requeued>>
    <3>1. Waiting' = Waiting  BY <2>1, TypedQueues, QueueUnchanged DEF TypeOK
    <3>2. Open  BY <1>2 DEF CommitMoved, Control, Open
    <3> QED BY <2>1, <3>1, <3>2 DEF CopyHolds, CopyKept
  <2>2. CASE tx' = "committed"  BY <2>2 DEF CopyHolds, Open
  <2> QED BY <1>2, <2>1, <2>2 DEF CommitMoved, Commit, CommitThrows
<1>3. CASE EndUsing
  BY <1>3 DEF EndUsing, Dispose, DisposeCommits, DisposeAborts, DisposeNothing,
              EndTransaction, CopyHolds
<1> QED BY <1>1, <1>2, <1>3 DEF Own

LEMMA CopyStep ==
  ASSUME TypeOK, Control(Discarded), InnerOK, CopyHolds, Next
  PROVE  CopyHolds'
BY Splits, StillKeepsCopy, MovingKeepsCopy, OwnKeepsCopy

-----------------------------------------------------------------------------
(* How often a message waits.                                               *)

PlacesOf(s, m) == {i \in 1..Len(s) : s[i] = m}

LEMMA OccursTyped ==
  ASSUME NEW S, NEW s \in Seq(S), NEW m
  PROVE  /\ IsFiniteSet(PlacesOf(s, m)) /\ Occurrences(s, m) = Cardinality(PlacesOf(s, m))
         /\ Occurrences(s, m) \in Nat
         /\ m \notin ToSet(s) => Occurrences(s, m) = 0
<1>1. 1 \in Int /\ Len(s) \in Int  OBVIOUS
<1>2. IsFiniteSet(1..Len(s))  BY <1>1, FS_Interval
<1>3. IsFiniteSet(PlacesOf(s, m))  BY <1>2, FS_Subset DEF PlacesOf
<1>4. Cardinality(PlacesOf(s, m)) \in Nat  BY <1>3, FS_CardinalityType
<1>5. m \notin ToSet(s) => PlacesOf(s, m) = {}  BY DEF ToSet, PlacesOf
<1> QED BY <1>3, <1>4, <1>5, FS_EmptySet DEF Occurrences, PlacesOf

LEMMA OccursAppended ==
  ASSUME NEW S, NEW s \in Seq(S), NEW e \in S, NEW m
  PROVE  /\ e = m => Occurrences(Append(s, e), m) = Occurrences(s, m) + 1
         /\ e # m => Occurrences(Append(s, e), m) = Occurrences(s, m)
<1> DEFINE t == Append(s, e)
           n == Len(s) + 1
<1>1. t \in Seq(S) /\ Len(t) = n /\ Len(s) \in Nat /\ t[n] = e
      /\ \A i \in 1..Len(s) : t[i] = s[i]
  OBVIOUS
<1>2. n \notin 1..Len(s) /\ \A i : i \in 1..n <=> (i \in 1..Len(s) \/ i = n)  BY <1>1
<1> HIDE DEF t, n
<1>3. e = m => PlacesOf(t, m) = PlacesOf(s, m) \cup {n}  BY <1>1, <1>2 DEF PlacesOf
<1>4. e # m => PlacesOf(t, m) = PlacesOf(s, m)  BY <1>1, <1>2 DEF PlacesOf
<1>5. n \notin PlacesOf(s, m)  BY <1>2 DEF PlacesOf
<1>6. /\ IsFiniteSet(PlacesOf(s, m)) /\ Occurrences(s, m) = Cardinality(PlacesOf(s, m))
      /\ Occurrences(t, m) = Cardinality(PlacesOf(t, m))
  BY <1>1, OccursTyped
<1>7. Cardinality(PlacesOf(s, m) \cup {n}) = Cardinality(PlacesOf(s, m)) + 1
  BY <1>5, <1>6, FS_AddElement
<1> QED BY <1>3, <1>4, <1>6, <1>7 DEF t

\* t is s with one more in front.
LEMMA OccursBehind ==
  ASSUME NEW S, NEW s \in Seq(S), NEW t \in Seq(S), NEW m, Len(t) = Len(s) + 1,
         \A i \in 1..Len(s) : t[i + 1] = s[i]
  PROVE  /\ t[1] = m => Occurrences(t, m) = Occurrences(s, m) + 1
         /\ t[1] # m => Occurrences(t, m) = Occurrences(s, m)
<1> DEFINE F == {i \in 2..Len(t) : t[i] = m}
           f == [i \in PlacesOf(s, m) |-> i + 1]
<1>1. Len(s) \in Nat /\ Len(t) \in Nat  OBVIOUS
<1>2. f \in Bijection(PlacesOf(s, m), F)
  <2>1. \A i \in PlacesOf(s, m) : i \in 1..Len(s) /\ i + 1 \in 2..Len(t) /\ t[i + 1] = m
    BY <1>1 DEF PlacesOf
  <2>2. f \in [PlacesOf(s, m) -> F]  BY <2>1
  <2>3. \A i, j \in PlacesOf(s, m) : i + 1 = j + 1 => i = j  BY <2>1
  <2>4. \A i, j \in PlacesOf(s, m) : f[i] = f[j] => i = j  BY <2>3
  <2>5. \A k \in F : k - 1 \in PlacesOf(s, m) /\ (k - 1) + 1 = k
    <3>1. \A k \in 2..Len(t) : k - 1 \in 1..Len(s) /\ (k - 1) + 1 = k  BY <1>1
    <3>2. \A k \in 2..Len(t) : t[k] = s[k - 1]  BY <3>1
    <3> QED BY <3>1, <3>2 DEF PlacesOf
  <2>6. \A k \in F : \E i \in PlacesOf(s, m) : f[i] = k
    <3>1. \A k \in F : f[k - 1] = k  BY <2>5
    <3> QED BY <2>5, <3>1
  <2> HIDE DEF f, F
  <2> QED BY <2>2, <2>4, <2>6, Fun_IsBij
<1>3. ExistsBijection(PlacesOf(s, m), F)  BY <1>2 DEF ExistsBijection
<1>4. /\ IsFiniteSet(PlacesOf(s, m)) /\ Occurrences(s, m) = Cardinality(PlacesOf(s, m))
      /\ Occurrences(t, m) = Cardinality(PlacesOf(t, m))
  BY OccursTyped
<1>5. IsFiniteSet(F) /\ Cardinality(F) = Cardinality(PlacesOf(s, m))  BY <1>3, <1>4, FS_Bijection
<1>6. 1 \notin F /\ \A i : i \in 1..Len(t) <=> (i \in 2..Len(t) \/ i = 1)  BY <1>1
<1>7. t[1] = m => PlacesOf(t, m) = F \cup {1}  BY <1>6 DEF PlacesOf
<1>8. t[1] # m => PlacesOf(t, m) = F  BY <1>6 DEF PlacesOf
<1> HIDE DEF F
<1>9. Cardinality(F \cup {1}) = Cardinality(F) + 1  BY <1>5, <1>6, FS_AddElement
<1> QED BY <1>4, <1>5, <1>7, <1>8, <1>9

LEMMA OccursRemoved ==
  ASSUME NEW S, NEW s \in Seq(S), NEW i \in 1..Len(s), NEW m
  PROVE  Occurrences(RemoveAt(s, i), m) <= Occurrences(s, m)
<1> DEFINE t == RemoveAt(s, i)
           was(j) == IF j < i THEN j ELSE j + 1
           f == [j \in PlacesOf(t, m) |-> was(j)]
<1>1. /\ t \in Seq(S) /\ Len(t) = Len(s) - 1
      /\ \A j \in 1..Len(t) : t[j] = s[was(j)]
  BY RemoveAtPositions
<1>2. Len(s) \in Nat /\ i \in Nat /\ i >= 1 /\ i <= Len(s)  OBVIOUS
<1> HIDE DEF t
<1>3. \A j \in 1..Len(t) : was(j) \in 1..Len(s)  BY <1>1, <1>2
<1>4. \A j, k \in 1..Len(t) : was(j) = was(k) => j = k  BY <1>1, <1>2
<1> HIDE DEF was
<1>5. f \in [PlacesOf(t, m) -> PlacesOf(s, m)]  BY <1>1, <1>3 DEF PlacesOf
<1>6. \A j, k \in PlacesOf(t, m) : f[j] = f[k] => j = k  BY <1>4 DEF PlacesOf
<1> HIDE DEF f
<1>7. f \in Injection(PlacesOf(t, m), PlacesOf(s, m))  BY <1>5, <1>6, Fun_IsInj
<1>8. /\ IsFiniteSet(PlacesOf(s, m)) /\ Occurrences(s, m) = Cardinality(PlacesOf(s, m))
      /\ Occurrences(t, m) = Cardinality(PlacesOf(t, m))
  BY <1>1, OccursTyped
<1> QED BY <1>7, <1>8, FS_Injection DEF t

\* One queue changes: so much is one message there more or less often.
Balanced(p, s, m) ==
  /\ Copies(m) \in Nat /\ Copies(m)' \in Nat
  /\ Copies(m)' + Occurrences(queue[p], m) = Copies(m) + Occurrences(s, m)

LEMMA CopiesUpdated ==
  ASSUME QueuesOK, NEW p \in QueueName, NEW s \in Seq(Message),
         queue' = [queue EXCEPT ![p] = s], NEW m
  PROVE  Balanced(p, s, m)
<1> DEFINE o(q) == Occurrences(queue[q], m)
           n(q) == Occurrences(queue'[q], m)
<1>1. p = "HIGH" \/ p = "NORMAL" \/ p = "LOW"  BY ExportQueueAssumption DEF Priority
<1>2. \A q \in QueueName : queue[q] \in Seq(Message) /\ queue'[q] = IF q = p THEN s ELSE queue[q]
  BY DEF QueuesOK
<1>3. "HIGH" \in QueueName /\ "NORMAL" \in QueueName /\ "LOW" \in QueueName
  BY ExportQueueAssumption DEF Priority
<1>4. Occurrences(s, m) \in Nat /\ \A q \in QueueName : o(q) \in Nat  BY <1>2, OccursTyped
<1>5. \A q \in QueueName : n(q) = IF q = p THEN Occurrences(s, m) ELSE o(q)  BY <1>2
<1>6. /\ Copies(m) = o("HIGH") + o("NORMAL") + o("LOW")
      /\ Copies(m)' = n("HIGH") + n("NORMAL") + n("LOW")
  BY DEF Copies
<1>7. Occurrences(queue[p], m) = o(p)  OBVIOUS
<1> HIDE DEF o, n
<1>8. CASE p = "HIGH"
  <2>1. n("HIGH") = Occurrences(s, m) /\ n("NORMAL") = o("NORMAL") /\ n("LOW") = o("LOW")
    BY <1>3, <1>5, <1>8
  <2>2. o("HIGH") \in Nat /\ o("NORMAL") \in Nat /\ o("LOW") \in Nat  BY <1>3, <1>4
  <2> QED BY <1>4, <1>6, <1>7, <1>8, <2>1, <2>2 DEF Balanced
<1>9. CASE p = "NORMAL"
  <2>1. n("HIGH") = o("HIGH") /\ n("NORMAL") = Occurrences(s, m) /\ n("LOW") = o("LOW")
    BY <1>3, <1>5, <1>9
  <2>2. o("HIGH") \in Nat /\ o("NORMAL") \in Nat /\ o("LOW") \in Nat  BY <1>3, <1>4
  <2> QED BY <1>4, <1>6, <1>7, <1>9, <2>1, <2>2 DEF Balanced
<1>10. CASE p = "LOW"
  <2>1. n("HIGH") = o("HIGH") /\ n("NORMAL") = o("NORMAL") /\ n("LOW") = Occurrences(s, m)
    BY <1>3, <1>5, <1>10
  <2>2. o("HIGH") \in Nat /\ o("NORMAL") \in Nat /\ o("LOW") \in Nat  BY <1>3, <1>4
  <2> QED BY <1>4, <1>6, <1>7, <1>10, <2>1, <2>2 DEF Balanced
<1> QED BY <1>1, <1>8, <1>9, <1>10

LEMMA CopiesTyped ==
  ASSUME QueuesOK, NEW m
  PROVE  Copies(m) \in Nat /\ (m \notin Waiting => Copies(m) = 0)
<1>1. "HIGH" \in QueueName /\ "NORMAL" \in QueueName /\ "LOW" \in QueueName
  BY ExportQueueAssumption DEF Priority
<1>2. \A q \in QueueName :
        /\ Occurrences(queue[q], m) \in Nat
        /\ m \notin Waiting => Occurrences(queue[q], m) = 0
  <2> TAKE q \in QueueName
  <2>1. queue[q] \in Seq(Message) /\ ToSet(queue[q]) \subseteq Waiting  BY QueueAt
  <2> QED BY <2>1, OccursTyped
<1> QED BY <1>1, <1>2 DEF Copies

LEMMA CopiesTypedNext == ASSUME QueuesOK', NEW m PROVE Copies(m)' \in Nat
<1>1. "HIGH" \in QueueName /\ "NORMAL" \in QueueName /\ "LOW" \in QueueName
  BY ExportQueueAssumption DEF Priority
<1>2. \A q \in QueueName : queue'[q] \in Seq(Message)  BY DEF QueuesOK
<1>3. \A q \in QueueName : Occurrences(queue'[q], m) \in Nat  BY <1>2, OccursTyped
<1> QED BY <1>1, <1>3 DEF Copies

\* What the operations on the queues do to the number of copies.
LEMMA CopyTaken ==
  ASSUME QueuesOK, NEW p \in QueueName, Receive(p), NEW m
  PROVE  /\ m = held' => Copies(m)' + 1 = Copies(m)
         /\ m # held' => Copies(m)' = Copies(m)
<1> DEFINE s == Tail(queue[p])
<1>1. queue[p] \in Seq(Message) /\ queue[p] # <<>>  BY DEF QueuesOK, Receive
<1>2. /\ s \in Seq(Message) /\ Len(queue[p]) = Len(s) + 1 /\ queue[p][1] = held'
      /\ \A i \in 1..Len(s) : queue[p][i + 1] = s[i]
  BY <1>1 DEF Receive
<1>3. queue' = [queue EXCEPT ![p] = s]  BY DEF Receive
<1> HIDE DEF s
<1>4. /\ held' = m => Occurrences(queue[p], m) = Occurrences(s, m) + 1
      /\ held' # m => Occurrences(queue[p], m) = Occurrences(s, m)
  BY <1>1, <1>2, OccursBehind
<1>5. Occurrences(s, m) \in Nat /\ Occurrences(queue[p], m) \in Nat
  BY <1>1, <1>2, OccursTyped
<1>6. Balanced(p, s, m)
  BY <1>2, <1>3, CopiesUpdated
<1> QED BY <1>4, <1>5, <1>6 DEF Balanced

LEMMA CopyReturned ==
  ASSUME QueuesOK, PutBack, held \in Message, heldFrom \in QueueName, NEW m
  PROVE  /\ m = held => Copies(m)' = Copies(m) + 1
         /\ m # held => Copies(m)' = Copies(m)
<1> DEFINE p == heldFrom
           s == <<held>> \o queue[p]
<1>1. queue[p] \in Seq(Message)  BY DEF QueuesOK
<1>2. /\ s \in Seq(Message) /\ Len(s) = Len(queue[p]) + 1 /\ s[1] = held
      /\ \A i \in 1..Len(queue[p]) : s[i + 1] = queue[p][i]
  BY <1>1, PrependAt
<1>3. queue' = [queue EXCEPT ![p] = s]  BY MsmqQueueAssumption DEF PutBack
<1> HIDE DEF s
<1>4. /\ held = m => Occurrences(s, m) = Occurrences(queue[p], m) + 1
      /\ held # m => Occurrences(s, m) = Occurrences(queue[p], m)
  <2> DEFINE old == queue[p]
  <2>1. old \in Seq(Message) /\ s \in Seq(Message) /\ Len(s) = Len(old) + 1
        /\ \A i \in 1..Len(old) : s[i + 1] = old[i]
    BY <1>1, <1>2
  <2> HIDE DEF old
  <2>2. /\ s[1] = m => Occurrences(s, m) = Occurrences(old, m) + 1
        /\ s[1] # m => Occurrences(s, m) = Occurrences(old, m)
    BY <2>1, OccursBehind
  <2> QED BY <1>2, <2>2 DEF old
<1>5. Occurrences(s, m) \in Nat /\ Occurrences(queue[p], m) \in Nat
  BY <1>1, <1>2, OccursTyped
<1>6. Balanced(p, s, m)
  BY <1>2, <1>3, CopiesUpdated
<1> QED BY <1>4, <1>5, <1>6 DEF Balanced

LEMMA CopyAppended ==
  ASSUME QueuesOK, NEW p \in QueueName, NEW e \in Message,
         queue' = [queue EXCEPT ![p] = Append(@, e)], NEW m
  PROVE  /\ m = e => Copies(m)' = Copies(m) + 1
         /\ m # e => Copies(m)' = Copies(m)
<1> DEFINE s == Append(queue[p], e)
<1>1. queue[p] \in Seq(Message) /\ s \in Seq(Message)  BY DEF QueuesOK
<1>2. queue' = [queue EXCEPT ![p] = s]  OBVIOUS
<1>3. /\ e = m => Occurrences(s, m) = Occurrences(queue[p], m) + 1
      /\ e # m => Occurrences(s, m) = Occurrences(queue[p], m)
  BY <1>1, OccursAppended
<1> HIDE DEF s
<1>4. Occurrences(s, m) \in Nat /\ Occurrences(queue[p], m) \in Nat  BY <1>1, OccursTyped
<1>5. Balanced(p, s, m)
  BY <1>1, <1>2, CopiesUpdated
<1> QED BY <1>3, <1>4, <1>5 DEF Balanced

LEMMA CopyRemoved ==
  ASSUME QueuesOK, NEW p \in QueueName, NEW i \in 1..Len(queue[p]),
         queue' = [queue EXCEPT ![p] = RemoveAt(@, i)], NEW m
  PROVE  Copies(m)' <= Copies(m)
<1> DEFINE s == RemoveAt(queue[p], i)
<1>1. queue[p] \in Seq(Message)  BY DEF QueuesOK
<1>2. s \in Seq(Message)  BY <1>1, RemoveAtPositions
<1>3. queue' = [queue EXCEPT ![p] = s]  OBVIOUS
<1>4. Occurrences(s, m) <= Occurrences(queue[p], m)  BY <1>1, OccursRemoved
<1> HIDE DEF s
<1>5. Occurrences(s, m) \in Nat /\ Occurrences(queue[p], m) \in Nat  BY <1>1, <1>2, OccursTyped
<1>6. Balanced(p, s, m)
  BY <1>2, <1>3, CopiesUpdated
<1> QED BY <1>4, <1>5, <1>6 DEF Balanced

-----------------------------------------------------------------------------
(* Copies and deliveries.  For every message a step is one of these.        *)

FaultOrNot == faults' = faults \/ faults' = faults + 1

Fewer(m) ==
  /\ Copies(m)' <= Copies(m) /\ sends'[m] = sends[m] /\ FaultOrNot
  /\ Stays(m)' => Stays(m) \/ faults' = faults + 1

Taken(m) == Copies(m)' + 1 = Copies(m) /\ sends'[m] = sends[m] /\ FaultOrNot

Copied(m) ==
  /\ Copies(m)' = Copies(m) + 1 /\ sends'[m] = sends[m] /\ FaultOrNot
  /\ ~Stays(m)' /\ (Stays(m) \/ faults' = faults + 1)

Sent(m) ==
  /\ Copies(m)' = Copies(m) /\ sends'[m] = sends[m] + 1 /\ faults' = faults
  /\ ~Stays(m)' /\ Stays(m)

Arrived(m) ==
  /\ Copies(m) = 0 /\ Copies(m)' = 1 /\ sends[m] = 0 /\ sends'[m] = 0 /\ faults' = faults
  /\ ~Stays(m)'

Counted(m) == Fewer(m) \/ Taken(m) \/ Copied(m) \/ Sent(m) \/ Arrived(m)

LEMMA CountedPaid ==
  ASSUME NEW m, Counted(m), Copies(m) \in Nat, Copies(m)' \in Nat, sends[m] \in Nat,
         sends'[m] \in Nat, faults \in Nat, faults' \in Nat,
         Copies(m) + sends[m] <= 1 + faults, Stays(m) => Copies(m) + sends[m] <= faults
  PROVE  /\ Copies(m)' + sends'[m] <= 1 + faults'
         /\ Stays(m)' => Copies(m)' + sends'[m] <= faults'
<1>1. CASE Fewer(m)  BY <1>1 DEF Fewer, FaultOrNot
<1>2. CASE Taken(m)  BY <1>2 DEF Taken, FaultOrNot
<1>3. CASE Copied(m)  BY <1>3 DEF Copied, FaultOrNot
<1>4. CASE Sent(m)  BY <1>4 DEF Sent
<1>5. CASE Arrived(m)  BY <1>5 DEF Arrived
<1> QED BY <1>1, <1>2, <1>3, <1>4, <1>5 DEF Counted

\* The queues rest.
LEMMA RestFewer ==
  ASSUME QueuesOK, UNCHANGED <<queue, sends>>, FaultOrNot, NEW m \in Message,
         Stays(m)' => Stays(m) \/ faults' = faults + 1
  PROVE  Counted(m)
<1>1. Copies(m)' = Copies(m) /\ Copies(m) \in Nat  BY CopiesTyped DEF Copies
<1>2. Copies(m)' <= Copies(m)  BY <1>1
<1> QED BY <1>2 DEF Counted, Fewer

LEMMA StillCounted ==
  ASSUME TypeOK, Control(Discarded), Still(Discarded), NEW m \in Message
  PROVE  Counted(m)
<1>0. QueuesOK  BY TypedQueues DEF TypeOK
<1>1. UNCHANGED <<queue, sends>> /\ FaultOrNot
  BY DEF Still, BeginExport, WaitAny, ScanNext, DequeueFails, SendThrows, Succeed,
         DeletePayload, LogDiscarded, Sleep, AbortAt, Restart, queueVars, NoFault, Fault, FaultOrNot
<1>2. Stays(m)' => Stays(m) \/ faults' = faults + 1
  <2> USE DEF Goto, NoFault, Fault, Control, Stays, InTx
  <2>1. CASE \E b \in BOOLEAN : BeginExport(b)
    BY <2>1 DEF BeginExport, BeginTransaction
  <2>2. CASE WaitAny \/ ScanNext \/ DequeueFails
    BY <2>2 DEF WaitAny, ScanNext, DequeueFails, queueVars, TransactionVars
  <2>3. CASE \E o \in SendEndings, h \in {"discard", "requeue", "rollback"} :
               (h = "discard" => o \in Discarded) /\ SendThrows(o, h)
    BY <2>3 DEF SendThrows
  <2>4. CASE \E h \in {"requeue", "rollback"} : Succeed(h)
    BY <2>4 DEF Succeed, TransactionVars
  <2>5. CASE \E h \in {"requeue", "rollback"} : DeletePayload(h)
    BY <2>5 DEF DeletePayload, TransactionVars
  <2>6. CASE LogDiscarded  BY <2>6 DEF LogDiscarded, TransactionVars
  <2>7. CASE Sleep \/ Restart  BY <2>7 DEF Sleep, Restart, queueVars
  <2>8. CASE \E h \in {"requeue", "rollback", "dispose"} :
               (h = "requeue" => held \in Message) /\ AbortAt(h)
    BY <2>8 DEF AbortAt
  <2> QED BY <2>1, <2>2, <2>3, <2>4, <2>5, <2>6, <2>7, <2>8 DEF Still
<1> QED BY <1>0, <1>1, <1>2, RestFewer

\* A commit takes the message out of the transaction or leaves it there on
\* its way out.
LEMMA CommitCounted ==
  ASSUME TypeOK, Commit(FALSE) \/ CommitThrows, tx = "pending", UNCHANGED sends,
         faults' = faults \/ CommitThrows, NEW m \in Message,
         Commit(FALSE) /\ m \in InTx => Stays(m) \/ requeued \/ outcome = "ok"
  PROVE  Counted(m)
<1>1. QueuesOK /\ UNCHANGED <<queue, held, requeued, outcome>> /\ FaultOrNot
  BY TypedQueues DEF Commit, CommitThrows, MakeFinal, TypeOK, Fault, FaultOrNot
<1>2. CASE CommitThrows
  <2>1. faults' = faults + 1  BY <1>2 DEF CommitThrows, Fault
  <2> QED BY <1>1, <2>1, RestFewer
<1>3. CASE Commit(FALSE)
  <2>1. tx' = "complete" \/ tx' = "committed"  BY <1>3 DEF Commit
  <2>2. Stays(m)' => Stays(m)  BY <1>1, <1>3, <2>1 DEF Stays, InTx
  <2> QED BY <1>1, <2>2, RestFewer
<1> QED BY <1>2, <1>3

\* The message comes back into its queue.
LEMMA ReturnCounted ==
  ASSUME TypeOK, PutBack, Open, InTx' = {}, UNCHANGED sends, FaultOrNot, NEW m \in Message,
         m \in InTx => Stays(m) \/ faults' = faults + 1
  PROVE  Counted(m)
<1>1. QueuesOK /\ held \in Message \cup {NoMessage} /\ heldFrom \in QueueName
  BY TypedQueues DEF TypeOK, QueueTypeOK, MsmqTypeOK
<1>2. ~Stays(m)'  BY DEF Stays
<1>3. CASE held = NoMessage
  <2>1. queue' = queue  BY <1>3 DEF PutBack
  <2> QED BY <1>1, <1>2, <2>1, RestFewer
<1>4. CASE held \in Message /\ m = held
  <2>1. Copies(m)' = Copies(m) + 1  BY <1>1, <1>4, CopyReturned
  <2>2. m \in InTx  BY <1>4, MsmqQueueAssumption DEF InTx, Open
  <2> QED BY <1>2, <2>1, <2>2 DEF Counted, Copied
<1>5. CASE held \in Message /\ m # held
  <2>1. Copies(m)' = Copies(m) /\ Copies(m) \in Nat  BY <1>1, <1>5, CopyReturned, CopiesTyped
  <2>2. Copies(m)' <= Copies(m)  BY <2>1
  <2> QED BY <1>2, <2>2 DEF Counted, Fewer
<1> QED BY <1>1, <1>3, <1>4, <1>5

LEMMA EnvironmentCounted ==
  ASSUME TypeOK, Unaccepted, CopiesPaid, Environment, UNCHANGED <<pc, tx, held, requeued, outcome, sends>>,
         NEW m \in Message
  PROVE  Counted(m)
<1>0. QueuesOK /\ sends \in [Message -> Nat]  BY TypedQueues DEF TypeOK, QueueTypeOK
<1>1. Stays(m)' <=> Stays(m)  BY DEF Stays, InTx
<1>2. CASE \E x \in Message : ProducerEnqueue(x) \/ ProducerFails(x) \/ PayloadDisappears(x)
  <2>1. queue' = queue /\ FaultOrNot
    BY <1>2 DEF ProducerEnqueue, ProducerFails, PayloadDisappears, Fault, FaultOrNot
  <2> QED BY <1>0, <1>1, <2>1, RestFewer
<1>3. CASE \E x \in Message, p \in Priority : ProducerCommit(x, p)
  <2>1. PICK x \in Message, p \in Priority : ProducerCommit(x, p)  BY <1>3
  <2>2. /\ p \in QueueName /\ faults' = faults
        /\ queue' = [queue EXCEPT ![p] = Append(@, x)] /\ stage[x] # "accepted"
    BY <2>1, ExportQueueAssumption DEF ProducerCommit
  <2>3. CASE m = x
    <3>1. sends[m] = 0 /\ m \notin Waiting /\ m \notin InTx
      BY <2>2, <2>3 DEF CopiesPaid, Unaccepted, Owed
    <3>2. Copies(m) = 0 /\ Copies(m)' = Copies(m) + 1
      BY <1>0, <2>2, <2>3, <3>1, CopiesTyped, CopyAppended
    <3>3. Copies(m)' = 1  BY <3>2
    <3>4. ~Stays(m)'  BY <1>1, <3>1 DEF Stays
    <3> QED BY <2>2, <3>1, <3>2, <3>3, <3>4 DEF Counted, Arrived
  <2>4. CASE m # x
    <3>1. Copies(m)' = Copies(m) /\ Copies(m) \in Nat
      BY <1>0, <2>2, <2>4, CopyAppended, CopiesTyped
    <3>2. Copies(m)' <= Copies(m)  BY <3>1
    <3> QED BY <1>1, <2>2, <3>2 DEF Counted, Fewer, FaultOrNot
  <2> QED BY <2>3, <2>4
<1>4. CASE \E p \in QueueName : \E i \in 1..Len(queue[p]) : OperatorRemoves(p, i)
  <2>1. PICK p \in QueueName : \E i \in 1..Len(queue[p]) : OperatorRemoves(p, i)  BY <1>4
  <2>2. PICK i \in 1..Len(queue[p]) : OperatorRemoves(p, i)  BY <2>1
  <2>3. faults' = faults + 1 /\ queue' = [queue EXCEPT ![p] = RemoveAt(@, i)]
    BY <2>2 DEF OperatorRemoves, Fault
  <2>4. Copies(m)' <= Copies(m)  BY <1>0, <2>3, CopyRemoved
  <2> QED BY <1>1, <2>3, <2>4 DEF Counted, Fewer, FaultOrNot
<1> QED BY <1>2, <1>3, <1>4 DEF Environment

LEMMA MovingCounted ==
  ASSUME TypeOK, Control(Discarded), Unaccepted, CopiesPaid, Moving, NEW m \in Message
  PROVE  Counted(m)
<1> USE DEF Goto, NoFault
<1>0. QueuesOK /\ sends \in [Message -> Nat] /\ scanAt \in QueueName
  BY MsmqQueueAssumption, TypedQueues DEF TypeOK, QueueTypeOK, ThreadTypeOK
<1>1. CASE ScanReceive
  <2>1. /\ Receive(scanAt) /\ UNCHANGED <<sends, faults>> /\ held = NoMessage
        /\ m \in InTx' => m = held'
    BY <1>1 DEF ScanReceive, Control, InTx
  <2>2. CASE m = held'
    <3>1. Copies(m)' + 1 = Copies(m)  BY <1>0, <2>1, <2>2, CopyTaken
    <3> QED BY <2>1, <3>1 DEF Counted, Taken, FaultOrNot
  <2>3. CASE m # held'
    <3>1. Copies(m)' = Copies(m) /\ Copies(m) \in Nat
      BY <1>0, <2>1, <2>3, CopyTaken, CopiesTyped
    <3>2. Copies(m)' <= Copies(m)  BY <3>1
    <3>3. ~Stays(m)'  BY <2>1, <2>3 DEF Stays
    <3> QED BY <2>1, <3>2, <3>3 DEF Counted, Fewer, FaultOrNot
  <2> QED BY <2>2, <2>3
<1>2. CASE SendSucceeds
  <2>1. /\ held \in Message /\ tx = "pending" /\ pc = "send" /\ pc' = "success"
        /\ UNCHANGED <<queue, tx, held, faults>>
        /\ sends' = [sends EXCEPT ![held] = @ + 1]
    BY <1>2 DEF SendSucceeds, Control
  <2>2. ~Stays(m)' /\ Copies(m)' = Copies(m) /\ Copies(m) \in Nat
    BY <1>0, <2>1, CopiesTyped DEF Stays, Copies
  <2>3. CASE m = held
    <3>1. Stays(m)  BY <2>1, <2>3, MsmqQueueAssumption DEF Stays, InTx
    <3>2. sends'[m] = sends[m] + 1  BY <1>0, <2>1, <2>3
    <3> QED BY <2>1, <2>2, <3>1, <3>2 DEF Counted, Sent
  <2>4. CASE m # held
    <3>1. Copies(m)' <= Copies(m)  BY <2>2
    <3>2. sends'[m] = sends[m]  BY <1>0, <2>1, <2>4
    <3> QED BY <2>1, <2>2, <3>1, <3>2 DEF Counted, Fewer, FaultOrNot
  <2> QED BY <2>3, <2>4
<1>3. CASE \E h \in {"requeue", "rollback"} : CommitExport(h)
  <2>1. /\ Commit(FALSE) \/ CommitThrows
        /\ tx = "pending" /\ outcome = "ok" /\ sends' = sends
        /\ faults' = faults \/ CommitThrows
    BY <1>3 DEF CommitExport, Control
  <2> QED BY <2>1, CommitCounted
<1>4. CASE Discard
  <2>1. /\ Commit(FALSE) \/ CommitThrows
        /\ tx = "pending" /\ pc = "discard" /\ sends' = sends
        /\ faults' = faults \/ CommitThrows
    BY <1>4 DEF Discard, Control
  <2>2. m \in InTx => Stays(m)  BY <2>1 DEF Stays
  <2> QED BY <2>1, <2>2, CommitCounted
<1>5. CASE RollBackExport
  <2>1. UNCHANGED <<sends, faults, held, requeued, outcome>> /\ pc = "rollback" /\ pc' = "dispose"
    BY <1>5 DEF RollBackExport, Rollback, TransactionVars
  <2>2. CASE UNCHANGED <<tx, queue>>
    <3>1. Stays(m)' => Stays(m)  BY <2>1, <2>2 DEF Stays, InTx
    <3> QED BY <1>0, <2>1, <2>2, <3>1, RestFewer DEF FaultOrNot
  <2>3. CASE tx = "pending" /\ tx' = "aborted" /\ PutBack
    <3>1. Open /\ InTx' = {}  BY <2>3, Ends DEF Open
    <3>2. m \in InTx => Stays(m)  BY <2>1, <2>3 DEF Stays
    <3> QED BY <2>1, <2>3, <3>1, <3>2, ReturnCounted DEF FaultOrNot
  <2> QED BY <1>5, <2>2, <2>3 DEF RollBackExport, Rollback, TransactionVars
<1>6. CASE Crash
  <2>1. faults' = faults + 1 /\ sends' = sends /\ InTx' = {} /\ FaultOrNot
    BY <1>6 DEF Crash, DisposeAborts, DisposeNothing, EndTransaction, Fault, InTx, FaultOrNot
  <2>2. CASE DisposeAborts
    <3>1. PutBack /\ Open  BY <2>2 DEF DisposeAborts, Open
    <3> QED BY <2>1, <3>1, ReturnCounted
  <2>3. CASE DisposeNothing
    BY <1>0, <2>1, <2>3, RestFewer DEF DisposeNothing
  <2> QED BY <1>6, <2>2, <2>3 DEF Crash
<1>7. CASE Surroundings
  BY <1>7, SurroundingsLeave, EnvironmentCounted
<1> QED BY <1>1, <1>2, <1>3, <1>4, <1>5, <1>6, <1>7 DEF Moving

LEMMA OwnCounted ==
  ASSUME TypeOK, Control(Discarded), InnerOK, Own, NEW m \in Message
  PROVE  Counted(m)
<1> USE DEF Goto, NoFault
<1>0. QueuesOK /\ Aside \in QueueName  BY MsmqQueueAssumption, TypedQueues DEF TypeOK
<1>1. CASE EnqueueLow
  <2>1. /\ held \in Message /\ pc = "requeue" /\ tx = "pending"
        /\ UNCHANGED <<tx, held, sends, outcome>>
    BY <1>1 DEF EnqueueLow, Control, InnerOK
  <2>2. CASE queue' = [queue EXCEPT ![Aside] = Append(@, held)] /\ pc' = "commitLow"
               /\ faults' = faults
    <3>1. ~Stays(m)'  BY <2>2 DEF Stays
    <3>2. CASE m = held
      <4>1. Copies(m)' = Copies(m) + 1  BY <1>0, <2>1, <2>2, <3>2, CopyAppended
      <4>2. Stays(m)  BY <2>1, <3>2, MsmqQueueAssumption DEF Stays, InTx
      <4> QED BY <2>1, <2>2, <3>1, <4>1, <4>2 DEF Counted, Copied, FaultOrNot
    <3>3. CASE m # held
      <4>1. Copies(m)' = Copies(m) /\ Copies(m) \in Nat
        BY <1>0, <2>1, <2>2, <3>3, CopyAppended, CopiesTyped
      <4>2. Copies(m)' <= Copies(m)  BY <4>1
      <4> QED BY <2>1, <2>2, <3>1, <4>2 DEF Counted, Fewer, FaultOrNot
    <3> QED BY <3>2, <3>3
  <2>3. CASE queue' = queue /\ faults' = faults + 1
    BY <1>0, <2>1, <2>3, RestFewer DEF FaultOrNot
  <2> QED BY <1>1, <2>2, <2>3 DEF EnqueueLow, Fault
<1>2. CASE CommitMoved
  <2>1. /\ Commit(FALSE) \/ CommitThrows
        /\ tx = "pending" /\ requeued /\ sends' = sends
        /\ faults' = faults \/ CommitThrows
    BY <1>2 DEF CommitMoved, Control
  <2> QED BY <2>1, CommitCounted
<1>3. CASE EndUsing
  <2>1. /\ sends' = sends /\ EndTransaction /\ pc = "dispose"
    BY <1>3 DEF EndUsing, Dispose, DisposeCommits, DisposeAborts, DisposeNothing
  <2>2. InTx' = {}  BY <2>1, Ends DEF EndTransaction
  <2>3. FaultOrNot  BY <1>3 DEF EndUsing, Dispose, Fault, FaultOrNot
  <2>4. ~Stays(m)'  BY <2>2 DEF Stays
  <2>5. CASE queue' = queue
    BY <1>0, <2>1, <2>3, <2>4, <2>5, RestFewer
  <2>6. CASE DisposeAborts /\ (tx = "pending" \/ faults' = faults + 1)
    <3>1. PutBack /\ Open  BY <2>6 DEF DisposeAborts, Open
    <3>2. m \in InTx => Stays(m) \/ faults' = faults + 1  BY <2>1, <2>6 DEF Stays
    <3> QED BY <2>1, <2>2, <2>3, <3>1, <3>2, ReturnCounted
  <2> QED BY <1>3, <2>5, <2>6
          DEF EndUsing, Dispose, DisposeCommits, DisposeNothing, MakeFinal, Fault
<1> QED BY <1>1, <1>2, <1>3 DEF Own

LEMMA PaidStep ==
  ASSUME TypeOK, TypeOK', Control(Discarded), InnerOK, CopyHolds, Unaccepted, CopiesPaid, Next
  PROVE  CopiesPaid'
<1>1. \A m \in Message : Counted(m)
  BY Splits, StillCounted, MovingCounted, OwnCounted
<1>2. QueuesOK /\ QueuesOK'  BY TypedQueues, Step DEF TypeOK
<1>3. faults \in Nat /\ faults' \in Nat
  <2>1. faults \in 0..MaxFaults /\ faults' \in 0..MaxFaults
    BY DEF TypeOK, QueueTypeOK, MsmqTypeOK
  <2>2. MaxFaults \in Nat  BY MsmqQueueAssumption
  <2> QED BY <2>1, <2>2
<1>4. sends \in [Message -> Nat] /\ sends' \in [Message -> Nat]
  BY DEF TypeOK, QueueTypeOK
<1>5. ASSUME NEW m \in Message
      PROVE  /\ Copies(m)' + sends'[m] <= 1 + faults'
             /\ Stays(m)' => Copies(m)' + sends'[m] <= faults'
  <2>1. Copies(m) \in Nat /\ Copies(m)' \in Nat  BY <1>2, CopiesTyped, CopiesTypedNext
  <2>2. sends[m] \in Nat /\ sends'[m] \in Nat  BY <1>4
  <2>3. Copies(m) + sends[m] <= 1 + faults /\ (Stays(m) => Copies(m) + sends[m] <= faults)
    BY DEF CopiesPaid
  <2> QED BY <1>1, <1>3, <2>1, <2>2, <2>3, CountedPaid
<1>6. \A m \in Message : stage'[m] # "accepted" => sends'[m] = 0
  <2>0. stage \in [Message -> {"new", "producing", "accepted", "given up"}]
    BY DEF TypeOK, QueueTypeOK
  <2>1. Shape(Discarded)  BY Step
  <2>2. CASE Delivers
    <3>1. stage[held] = "accepted"  BY <2>2 DEF Delivers, Unaccepted
    <3>2. \A m \in Message : m # held => sends'[m] = sends[m]  BY <1>4, <2>2 DEF Delivers
    <3>3. \A m \in Message : stage'[m] # "accepted" => stage[m] # "accepted"
      BY <2>2 DEF Delivers, SameAccepted
    <3> QED BY <3>1, <3>2, <3>3 DEF CopiesPaid
  <2>3. CASE sends' = sends /\ \A m \in Message : stage'[m] # "accepted" => stage[m] # "accepted"
    BY <2>3 DEF CopiesPaid
  <2> QED BY <2>0, <2>1, <2>2, <2>3 DEF Shape, Quiet, Settles, Accepts, SameAccepted
<1> QED BY <1>5, <1>6 DEF CopiesPaid

-----------------------------------------------------------------------------
(* Payloads.                                                                *)

LEMMA OwnLeavesPayloads ==
  ASSUME Own PROVE UNCHANGED <<stage, payload, lost>> /\ pc' # "delete"
BY DEF Own, EnqueueLow, CommitMoved, EndUsing, Dispose, AfterExport, Goto

LEMMA PayloadStep ==
  ASSUME TypeOK, Control(Discarded), InnerOK, CopyHolds, PayloadKept, Next
  PROVE  PayloadKept'
<1>1. \A m \in Message : sends[m] > 0 => sends'[m] > 0
  BY Step, SendsStay DEF TypeOK
<1>2. CASE \E h \in {"requeue", "rollback"} : DeletePayload(h)
  <2>1. pc = "delete" /\ pc' # "delete" /\ UNCHANGED <<stage, lost>> /\ held \in Message
    BY <1>2 DEF DeletePayload, Goto, Control
  <2>2. payload \ {held} \subseteq payload'  BY <1>2 DEF DeletePayload
  <2>3. sends'[held] > 0  BY <1>1, <2>1 DEF PayloadKept
  <2> QED BY <1>1, <2>1, <2>2, <2>3 DEF PayloadKept
<1>3. CASE \E h \in {"requeue", "rollback"} : CommitExport(h)
  <2>1. /\ held \in Message /\ sends[held] > 0
        /\ held' = held /\ UNCHANGED <<stage, payload, lost>>
    BY <1>3 DEF CommitExport, Control, Commit, CommitThrows
  <2> QED BY <1>1, <2>1 DEF PayloadKept
<1>4. CASE Surroundings
  <2>1. Environment /\ pc' = pc /\ held' = held  BY <1>4, SurroundingsLeave
  <2>2. pc = "delete" => held \in Message  BY DEF Control
  <2>3. pc' = "delete" => sends'[held'] > 0  BY <1>1, <2>1, <2>2 DEF PayloadKept
  <2> QED BY <1>1, <2>1, <2>3, EnvironmentPayloads DEF PayloadKept, TypeOK
<1>5. CASE UNCHANGED <<stage, payload, lost>> /\ pc' # "delete"
  BY <1>1, <1>5 DEF PayloadKept
<1>6. (Still(Discarded) \/ Moving) \/ Own  BY Splits
<1>7. Own => UNCHANGED <<stage, payload, lost>> /\ pc' # "delete"  BY OwnLeavesPayloads
<1>8. CASE /\ Still(Discarded) \/ Moving
           /\ ~Surroundings
           /\ \A h \in {"requeue", "rollback"} : ~DeletePayload(h) /\ ~CommitExport(h)
  BY <1>5, <1>8, PayloadsUntouched
<1> QED
  BY <1>2, <1>3, <1>4, <1>5, <1>6, <1>7, <1>8

-----------------------------------------------------------------------------
(* Types.                                                                   *)

LEMMA OwnTyped ==
  ASSUME TypeOK, Control(Discarded), Own, QueuesOK', Shape(Discarded), UNCHANGED siteVars
  PROVE  ThreadOK'
<1> DEFINE Gone == [Message -> Outcome \cup {"none", "removed"}]
<1>1. /\ queue' \in [QueueName -> Seq(Message)] /\ gone' \in Gone
      /\ sends' \in [Message -> Nat] /\ remote' \in BOOLEAN /\ corrupt' \subseteq Message
  BY Typed DEF TypeOK, ThreadOK
<1>2. \A kind : Fault(kind) => faults' \in 0..MaxFaults  BY FaultTyped DEF TypeOK
<1> HIDE DEF Gone
<1>3. CASE EnqueueLow
  BY <1>1, <1>2, <1>3, LogTyped
     DEF EnqueueLow, Control, ThreadOK, TypeOK, QueueTypeOK, MsmqTypeOK,
         ThreadTypeOK, Goto, NoFault, Gone
<1>4. CASE CommitMoved
  BY <1>1, <1>2, <1>4
     DEF CommitMoved, Commit, CommitThrows, ThreadOK, TypeOK, QueueTypeOK, MsmqTypeOK,
         ThreadTypeOK, Goto, NoFault, Gone
<1>5. CASE EndUsing
  BY <1>5, DisposeTyped DEF EndUsing, TypeOK, ThreadOK
<1> QED BY <1>3, <1>4, <1>5 DEF Own

LEMMA TypeStep ==
  ASSUME TypeOK, Control(Discarded), InnerOK, CopyHolds, Next
  PROVE  TypeOK'
BY Splits, Step, StillTyped, MovingTyped, OwnTyped DEF TypeOK, ThreadOK

-----------------------------------------------------------------------------
(* The theorems.                                                            *)

\* The inductive invariant: types, the state of both transactions at every
\* statement of ExportMessage, and the place of every message.
THEOREM Invariance == Spec => []IInv
<1>1. Init => IInv
  <2> SUFFICES ASSUME Init  PROVE IInv
    OBVIOUS
  <2>1. TypeOK /\ Control(Discarded) /\ Owed = {}
    BY ThreadInitHolds DEF Init, TypeOK, ThreadOK
  <2>2. InnerOK /\ CopyHolds
    BY DEF Init, QueueInit, MsmqInit, ThreadInit, InnerOK, CopyHolds
  <2>3. Unaccepted /\ NoMessageLost
    BY <2>1 DEF Init, QueueInit, MsmqInit, Unaccepted, NoMessageLost, KeptUnless
  <2>4. PayloadKept
    BY DEF Init, QueueInit, MsmqInit, ThreadInit, PayloadKept
  <2>5. CopiesPaid
    <3>1. \A m \in Message : m \notin Waiting /\ m \notin InTx  BY <2>1 DEF Owed
    <3>2. QueuesOK  BY <2>1, TypedQueues DEF TypeOK
    <3>3. \A m \in Message : Copies(m) = 0 /\ ~Stays(m)
      BY <3>1, <3>2, CopiesTyped DEF Stays
    <3>4. faults = 0 /\ \A m \in Message : sends[m] = 0  BY DEF Init, QueueInit, MsmqInit
    <3>5. 0 + 0 <= 1 + 0  OBVIOUS
    <3> QED BY <3>3, <3>4, <3>5 DEF CopiesPaid
  <2> QED BY <2>1, <2>2, <2>3, <2>4, <2>5 DEF IInv
<1>2. IInv /\ [Next]_vars => IInv'
  <2>1. ASSUME IInv, Next  PROVE IInv'
    <3>1. TypeOK' /\ Control(Discarded)' /\ Shape(Discarded)
      BY <2>1, TypeStep, Step DEF IInv
    <3>2. InnerOK' /\ CopyHolds'  BY <2>1, InnerStep, CopyStep DEF IInv
    <3>3. Unaccepted' /\ KeptUnless(Discarded)'
      BY <2>1, <3>1, UnacceptedStep, KeptStep
         DEF IInv, TypeOK, NoMessageLost, Discarded
    <3>4. PayloadKept' /\ CopiesPaid'  BY <2>1, <3>1, PayloadStep, PaidStep DEF IInv
    <3> QED BY <3>1, <3>2, <3>3, <3>4 DEF IInv, NoMessageLost, Discarded
  <2>2. ASSUME IInv, UNCHANGED vars  PROVE IInv'
    <3>1. TypeOK' /\ Control(Discarded)' /\ Quiet /\ Waiting' = Waiting
      BY <2>2, ThreadStutters DEF IInv, TypeOK, ThreadOK, vars
    <3>2. InnerOK' /\ CopyHolds'
      BY <2>2, <3>1 DEF IInv, InnerOK, CopyHolds, CopyKept, Open, vars, queueVars, threadVars
    <3>3. Shape(Discarded)  BY <3>1 DEF Shape
    <3>4. Unaccepted' /\ KeptUnless(Discarded)'
      BY <2>2, <3>3, UnacceptedStep, KeptStep
         DEF IInv, TypeOK, NoMessageLost, Discarded
    <3>5. UNCHANGED <<queueVars, threadVars>>  BY <2>2 DEF vars
    <3>6. PayloadKept'
      BY <2>2, <3>5 DEF IInv, PayloadKept, queueVars, threadVars
    <3>7. CopiesPaid'
      BY <2>2, <3>5 DEF IInv, CopiesPaid, Copies, Stays, InTx, queueVars, threadVars
    <3> QED BY <3>1, <3>2, <3>4, <3>6, <3>7 DEF IInv, NoMessageLost, Discarded
  <2> QED BY <2>1, <2>2
<1> QED BY <1>1, <1>2, PTL DEF Spec

\* Whatever ExportMessage and its surroundings do, the state stays typed.
THEOREM TypeCorrect == Spec => []TypeOK
BY Invariance, PTL DEF IInv

\* With the move to LOW in a transaction of its own, too, no accepted export
\* is lost, whichever of the two commits fails, is lost or never comes.
THEOREM NothingLost == Spec => []NoMessageLost
BY Invariance, PTL DEF IInv

\* As long as a copy of a message can be received, its payload is there or
\* the message has been delivered, whatever became of the second commit.
THEOREM PayloadWaits == Spec => []PayloadUntilDelivered
<1>1. IInv => PayloadUntilDelivered
  <2> SUFFICES ASSUME IInv, NEW m \in Message, InSystem(m), m \notin payload \cup lost
               PROVE  sends[m] > 0
    BY DEF PayloadUntilDelivered
  <2>1. m \in Owed  BY DEF InSystem, Owed
  <2>2. stage[m] = "accepted"  BY <2>1 DEF IInv, Unaccepted
  <2> QED BY <2>2 DEF IInv, PayloadKept
<1> QED BY <1>1, Invariance, PTL

LEMMA CountsTyped ==
  ASSUME TypeOK, NEW m \in Message
  PROVE  Copies(m) \in Nat /\ sends[m] \in Nat /\ faults \in Nat
<1>1. faults \in 0..MaxFaults /\ sends[m] \in Nat  BY DEF TypeOK, QueueTypeOK, MsmqTypeOK
<1>2. MaxFaults \in Nat  BY MsmqQueueAssumption
<1>3. faults \in Nat  BY <1>1, <1>2
<1> QED BY <1>1, <1>3, CopiesTyped, TypedQueues DEF TypeOK

\* Every delivery of a message but one is paid for by a fault.
THEOREM Repetitions == Spec => []ResendOnlyAfterFault
<1>1. IInv => ResendOnlyAfterFault
  <2> SUFFICES ASSUME IInv, NEW m \in Message  PROVE sends[m] <= 1 + faults
    BY DEF ResendOnlyAfterFault
  <2>1. Copies(m) \in Nat /\ sends[m] \in Nat /\ faults \in Nat  BY CountsTyped DEF IInv
  <2>2. Copies(m) + sends[m] <= 1 + faults  BY DEF IInv, CopiesPaid
  <2> QED BY <2>1, <2>2
<1> QED BY <1>1, Invariance, PTL

\* Every copy of a message but one is paid for by a fault: the message that is
\* neither on its way to LOW nor delivered is the one copy there may be.
THEOREM NoMoreCopies == Spec => []CopyOnlyAfterFault
<1>1. IInv => CopyOnlyAfterFault
  <2> SUFFICES ASSUME IInv, NEW m \in Message
               PROVE  Copies(m) + (IF m \in InTx /\ ~requeued THEN 1 ELSE 0) <= 1 + faults
    BY DEF CopyOnlyAfterFault
  <2>1. Copies(m) \in Nat /\ sends[m] \in Nat /\ faults \in Nat  BY CountsTyped DEF IInv
  <2>2. Copies(m) + sends[m] <= 1 + faults /\ (Stays(m) => Copies(m) + sends[m] <= faults)
    BY DEF IInv, CopiesPaid
  <2>3. CASE ~(m \in InTx /\ ~requeued)
    <3>1. Copies(m) <= 1 + faults  BY <2>1, <2>2
    <3> QED BY <2>1, <2>3, <3>1
  <2>4. CASE m \in InTx /\ ~requeued /\ Stays(m)
    <3>1. Copies(m) + 1 <= 1 + faults  BY <2>1, <2>2, <2>4
    <3> QED BY <2>4, <3>1
  <2>5. CASE m \in InTx /\ ~requeued /\ ~Stays(m)
    <3>1. m = held /\ sends[m] > 0
      BY <2>5 DEF IInv, InTx, Stays, Control, MayLetGo, Discarded
    <3>2. Copies(m) + 1 <= 1 + faults  BY <2>1, <2>2, <3>1
    <3> QED BY <2>5, <3>2
  <2> QED BY <2>3, <2>4, <2>5
<1> QED BY <1>1, Invariance, PTL

\* The exporter with its queues and transactions is an outbox: it accepts a
\* message once, settles it once and says "ok" only of what it has delivered.
THEOREM Implements == Spec => DeliverySpec
<1>0. Discarded \subseteq Reason \ {"ok"}  BY DEF Discarded, Reason
<1>1. Init => Delivery!Init  BY ImplementsInit DEF Init
<1>2. IInv /\ [Next]_vars => [Delivery!Next]_(Delivery!vars)
  <2>1. ASSUME IInv, Next  PROVE [Delivery!Next]_(Delivery!vars)
    BY <1>0, <2>1, Step, ImplementsStep DEF IInv, TypeOK
  <2>2. ASSUME IInv, UNCHANGED vars  PROVE [Delivery!Next]_(Delivery!vars)
    <3>1. Quiet  BY <2>2, ThreadStutters DEF IInv, TypeOK, ThreadOK, vars
    <3> QED BY <1>0, <2>2, <3>1, ImplementsStep DEF IInv, TypeOK, Shape
  <2> QED BY <2>1, <2>2
<1> QED BY <1>1, <1>2, Invariance, PTL DEF Spec, DeliverySpec, Delivery!Spec

-----------------------------------------------------------------------------
(* The pause after an error.  IsNewMessageFound is only true when the       *)
(* export was completed, so whoever failed a send goes to sleep.            *)

RestInv ==
  /\ failedSinceSleep # {} =>
       /\ ~found
       /\ pc \in {"discard", "failed", "requeue", "commitLow", "rollback", "dispose",
                 "sleep", "dead", "down"}
  /\ pc \notin {"idle", "dispose", "sleep", "dead", "down"} => ~found

LEMMA RestStep == ASSUME RestInv, [Next]_vars PROVE RestInv'
<1> USE DEF RestInv, Goto
<1>1. CASE Begin \/ Dequeue \/ Sleep \/ Restart
  BY <1>1 DEF Begin, BeginExport, Dequeue, WaitAny, ScanNext, ScanReceive, DequeueFails,
              Sleep, Restart
<1>2. CASE Send
  <2>1. \A o : Handler(o) \in {"discard", "requeue", "rollback"}  BY DEF Handler
  <2> QED BY <1>2, <2>1 DEF Send, SendSucceeds, SendThrows
<1>3. CASE OnSuccess \/ CommitSent \/ DeleteMessageData
  <2>1. CASE OnSuccess  BY <2>1 DEF OnSuccess, Succeed
  <2>2. CASE CommitSent  BY <2>2 DEF CommitSent, CommitExport
  <2>3. CASE DeleteMessageData  BY <2>3 DEF DeleteMessageData, DeletePayload
  <2> QED BY <1>3, <2>1, <2>2, <2>3
<1>4. CASE CatchInvalid \/ OnInvalidMessageException \/ EnqueueLow \/ CommitMoved
  <2>1. CASE CatchInvalid  BY <2>1 DEF CatchInvalid, Discard
  <2>2. CASE OnInvalidMessageException  BY <2>2 DEF OnInvalidMessageException, LogDiscarded
  <2>3. CASE EnqueueLow  BY <2>3 DEF EnqueueLow
  <2>4. CASE CommitMoved  BY <2>4 DEF CommitMoved
  <2> QED BY <1>4, <2>1, <2>2, <2>3, <2>4
<1>5. CASE CatchRollback \/ Abort \/ Crash
  BY <1>5 DEF CatchRollback, RollBackExport, Abort, AbortAt, Crash
<1>6. CASE EndUsing
  BY <1>6 DEF EndUsing, Dispose, AfterExport
<1>7. CASE Surroundings \/ UNCHANGED vars
  BY <1>7 DEF Surroundings, vars, threadVars
<1> QED BY <1>1, <1>2, <1>3, <1>4, <1>5, <1>6, <1>7 DEF Next, ThreadStep, ExportMessage

\* No message is sent again before the thread has slept, whatever went wrong
\* in between and wherever the message was put back.
THEOREM RetriesRested == Spec => []RetryOnlyAfterSleep
<1>1. Init => RestInv  BY DEF Init, ThreadInit, RestInv
<1>2. RestInv => RetryOnlyAfterSleep  BY DEF RestInv, RetryOnlyAfterSleep
<1> QED BY <1>1, <1>2, RestStep, PTL DEF Spec
=============================================================================
