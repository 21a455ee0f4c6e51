------------------- MODULE ImportApplicationManagerProofs -------------------
(***************************************************************************)
(* Proofs about the import application manager, for any number of imports, *)
(* faults and resubmissions: its state is well-typed, no import is lost or *)
(* doubled, nothing is imported twice without a fault, and together with   *)
(* its queues and the administration tool it implements the inbox of       *)
(* MessageDelivery.                                                        *)
(***************************************************************************)
EXTENDS ImportApplicationManager, MsmqQueueProofs, FiniteSetTheorems

\* Why a message may have left the queues.
Justified(m, reason) ==
  \/ reason \in endings[m]
  \/ reason = "deleted"
  \/ reason \in {"corrupt", "unreadable"} /\ m \in corrupt

\* The state of the transaction at each statement of ProcessNextImportMessage.
Control ==
  /\ pc \in {"idle", "sleep", "down"} => tx = "none"
  /\ pc \in {"wait", "scan", "rollback"} => held = NoMessage
  /\ pc \in {"wait", "scan", "invalid", "run", "delete", "moveToError", "commit", "rollback"}
       => tx = "pending"
  /\ pc \in {"wait", "scan", "invalid", "run", "delete", "moveToError"} => ~requeued
  /\ pc \in {"invalid", "run", "delete", "moveToError", "commit"} => held \in Message
  /\ pc = "invalid" => held \in corrupt
  /\ pc = "delete" => outcome \in endings[held]
  /\ pc = "commit" \/ tx = "complete" =>
       held \in Message /\ (requeued \/ Justified(held, outcome))

\* What nobody has submitted yet has no history.
Unaccepted ==
  \A m \in Message :
    stage[m] # "accepted" => m \notin Owed /\ gone[m] = "none" /\ imports[m] = 0

\* "ok" is only ever the ending of a run.
OkIsARun == \A m \in Message : "ok" \in endings[m] => imports[m] > 0

Places == Unique /\ Settled

\* A payload is there until its message has been handled.
PayloadKept ==
  \A m \in Message : stage[m] \in {"submitting", "accepted"} =>
    m \in payload \cup lost \/ endings[m] # {}

\* The message that has been imported, on its way out of the queues.
Leaving(m) ==
  /\ m = held /\ outcome = "ok" /\ ~requeued
  /\ pc \in {"delete", "commit"} \/ tx = "complete"

\* Runs made and the one to come, against the faults so far.
RunsPaid ==
  \A m \in Message :
    /\ imports[m] <= 1 + faults
    /\ m \in Owed /\ ~Leaving(m) => imports[m] <= faults

IInv ==
  /\ TypeOK /\ Control /\ Unaccepted /\ OkIsARun /\ NoImportLost
  /\ Places /\ PayloadKept /\ RunsPaid

-----------------------------------------------------------------------------
(* Types and sequences.                                                     *)

LEMMA Sites ==
  /\ Aside \in QueueName /\ Priority \subseteq QueueName /\ Aside \notin Priority
  /\ NoMessage \notin Message
BY MsmqQueueAssumption, ImportQueueAssumption DEF Priority

LEMMA Typed ==
  ASSUME TypeOK
  PROVE  /\ QueuesOK
         /\ gone \in [Message -> Reason \cup {"none"}]
         /\ stage \in [Message -> {"new", "submitting", "accepted", "given up"}]
         /\ endings \in [Message -> SUBSET Ending]
         /\ imports \in [Message -> Nat]
         /\ held \in Message \cup {NoMessage}
         /\ heldFrom \in QueueName
         /\ requeued \in BOOLEAN
         /\ outcome \in Outcome
         /\ corrupt \subseteq Message
BY DEF TypeOK, QueueTypeOK, MsmqTypeOK, QueuesOK

\* What is left of a sequence when the entries at some positions are removed.
LEMMA KeptInOrder ==
  ASSUME NEW S, NEW s \in Seq(S), IsInjective(s), NEW K, K \subseteq 1..Len(s),
         NEW at \in InOrder(K)
  PROVE  /\ [k \in DOMAIN at |-> s[at[k]]] \in Seq(S)
         /\ IsInjective([k \in DOMAIN at |-> s[at[k]]])
         /\ \A x : x \in ToSet([k \in DOMAIN at |-> s[at[k]]]) <=> \E i \in K : s[i] = x
<1> DEFINE n == Cardinality(K)
           t == [k \in DOMAIN at |-> s[at[k]]]
<1>1. Len(s) \in Nat /\ DOMAIN s = 1..Len(s) /\ \A i \in 1..Len(s) : s[i] \in S  OBVIOUS
<1>2. IsFiniteSet(1..Len(s))  BY <1>1, FS_Interval
<1>3. n \in Nat  BY <1>2, FS_Subset, FS_CardinalityType
<1>4. /\ at \in [1..n -> K]
      /\ \A i, j \in 1..n : at[i] = at[j] => i = j
      /\ \A i \in K : \E k \in 1..n : at[k] = i
  BY DEF InOrder, Bijection, Injection, Surjection, IsInjective
<1> HIDE DEF n
<1>5. DOMAIN at = 1..n /\ \A k \in 1..n : at[k] \in 1..Len(s)  BY <1>4
<1>6. t \in [1..n -> S] /\ \A k \in 1..n : t[k] = s[at[k]]  BY <1>1, <1>5
<1> HIDE DEF t
<1>7. t \in Seq(S)  BY <1>3, <1>6
<1>8. DOMAIN t = 1..n  BY <1>6
<1>9. IsInjective(t)  BY <1>1, <1>4, <1>5, <1>6, <1>8 DEF IsInjective
<1>10. ASSUME NEW x  PROVE x \in ToSet(t) <=> \E i \in K : s[i] = x
  <2>1. x \in ToSet(t) <=> \E k \in 1..n : s[at[k]] = x  BY <1>6, <1>8 DEF ToSet
  <2>2. (\E k \in 1..n : s[at[k]] = x) => \E i \in K : s[i] = x  BY <1>4
  <2>3. (\E i \in K : s[i] = x) => \E k \in 1..n : s[at[k]] = x  BY <1>4
  <2> QED BY <2>1, <2>2, <2>3
<1> QED BY <1>7, <1>9, <1>10 DEF t

-----------------------------------------------------------------------------
(* The shape of a step: what it does to the messages that are still owed.   *)

SameAccepted ==
  \A m \in Message : stage'[m] = "accepted" <=> stage[m] = "accepted"

Quiet == Owed' = Owed /\ gone' = gone /\ SameAccepted

Accepts(m) ==
  /\ stage[m] # "accepted"
  /\ \A x \in Message : stage'[x] = "accepted" <=> stage[x] = "accepted" \/ x = m
  /\ Owed' = Owed \cup {m} /\ gone' = gone

\* One transaction may settle several messages.
Settles(S, reason) ==
  /\ Owed' = Owed \ S /\ SameAccepted
  /\ gone' = [m \in Message |-> IF m \in S THEN reason ELSE gone[m]]
  /\ \A m \in S : Justified(m, reason)

Shape ==
  \/ Quiet
  \/ \E m \in Message : Accepts(m)
  \/ \E S \in SUBSET Owed : \E reason \in Reason : Settles(S, reason)

\* Nothing moves.
LEMMA RestsShape ==
  ASSUME TypeOK, Places, Rests, SameAccepted
  PROVE  QueuesOK' /\ Unique' /\ Shape
<1>1. QueuesOK' /\ Unique' /\ Owed' = Owed  BY Typed, RestsUnique DEF Places
<1> QED BY <1>1 DEF Rests, Quiet, Shape

LEMMA TakesShape ==
  ASSUME TypeOK, Places, NEW p \in QueueName, Takes(p), SameAccepted
  PROVE  QueuesOK' /\ Unique' /\ Shape
<1>1. QueuesOK' /\ Unique' /\ Owed' = Owed  BY Typed, TakesUnique DEF Places
<1> QED BY <1>1 DEF Takes, Quiet, Shape

\* A message in the transaction has been accepted and has no ending.
LEMMA HeldOwed ==
  ASSUME TypeOK, Unaccepted, Places, Open, held \in Message
  PROVE  held \in Owed /\ InTx = {held} /\ stage[held] = "accepted" /\ gone[held] = "none"
<1>1. InTx = {held} /\ held \in Owed  BY Sites DEF Owed, InTx, Open
<1> QED BY <1>1 DEF Unaccepted, Places, Settled

\* A message goes back in front of the queue it was received from.
LEMMA PutBackShape ==
  ASSUME TypeOK, Places, Open, PutBack, InTx' = {}, SameAccepted
  PROVE  QueuesOK' /\ Unique' /\ Shape
<1>0. QueuesOK /\ Unique /\ held \in Message \cup {NoMessage} /\ heldFrom \in QueueName
  BY Typed DEF Places
<1>1. CASE held = NoMessage
  <2>1. Rests  BY <1>1 DEF PutBack, InTx, Rests
  <2> QED BY <2>1, RestsShape
<1>2. CASE held # NoMessage
  <2>1. Returns(heldFrom, held)  BY <1>2 DEF PutBack, InTx, Open, Returns
  <2>2. QueuesOK' /\ Unique' /\ Owed' = Owed  BY <1>0, <1>2, <2>1, ReturnsUnique
  <2> QED BY <2>1, <2>2 DEF Returns, Quiet, Shape
<1> QED BY <1>1, <1>2

\* The receive becomes final: the message is in the error queue, or is gone
\* for a reason.
LEMMA FinalShape ==
  ASSUME TypeOK, Unaccepted, Places, Open, held \in Message, MakeFinal(requeued), InTx' = {},
         requeued \/ Justified(held, outcome), SameAccepted
  PROVE  /\ QueuesOK' /\ Unique' /\ Shape
         /\ ~requeued => gone'[held] = outcome
<1>0. /\ QueuesOK /\ Unique /\ gone \in [Message -> Reason \cup {"none"}]
      /\ endings[held] \subseteq Ending /\ requeued \in BOOLEAN
  BY Typed DEF Places
<1>1. held \in Owed /\ InTx = {held} /\ gone[held] = "none"  BY HeldOwed
<1>2. CASE requeued
  <2>1. held \notin Waiting  BY <1>0, <1>1 DEF Unique
  <2>2. Arrives(Aside, held)  BY <1>1, <1>2, <2>1 DEF Arrives, MakeFinal
  <2>3. QueuesOK' /\ Unique' /\ Owed' = Owed \cup {held}
    BY <1>0, <2>2, Sites, ArrivesUnique
  <2>4. Quiet  BY <1>1, <2>2, <2>3 DEF Arrives, Quiet
  <2> QED BY <1>2, <2>3, <2>4 DEF Shape
<1>3. CASE ~requeued
  <2>1. held # NoMessage  BY Sites
  <2>2. LetsGo(held, outcome)  BY <1>1, <1>3, <2>1 DEF LetsGo, MakeFinal
  <2>3. QueuesOK' /\ Unique' /\ Owed' = Owed \ {held}  BY <1>0, <2>2, LetsGoUnique
  <2>4. gone' = [gone EXCEPT ![held] = outcome]  BY <2>2 DEF LetsGo
  <2>5. /\ gone' = [m \in Message |-> IF m \in {held} THEN outcome ELSE gone[m]]
        /\ gone'[held] = outcome
    BY <1>0, <2>4
  <2>6. outcome \in Reason  BY <1>0, <1>3 DEF Justified, Reason
  <2>7. Settles({held}, outcome)  BY <1>3, <2>3, <2>5 DEF Settles
  <2>8. {held} \in SUBSET Owed  BY <1>1
  <2>9. Shape  BY <2>6, <2>7, <2>8 DEF Shape
  <2> QED BY <2>3, <2>5, <2>9
<1> QED BY <1>0, <1>2, <1>3

-----------------------------------------------------------------------------
(* The administration tool.                                                 *)

\* What cannot be read leaves the error queue.
LEMMA GetAllShape ==
  ASSUME TypeOK, Places, GetAll
  PROVE  QueuesOK' /\ Unique' /\ Shape
<1> DEFINE s == queue[Aside]
           K == {i \in 1..Len(s) : s[i] \notin corrupt}
           S == Contents(Aside) \cap corrupt
<1>0. /\ QueuesOK /\ Unique /\ Aside \in QueueName
      /\ gone \in [Message -> Reason \cup {"none"}] /\ corrupt \subseteq Message
  BY Typed, Sites DEF Places
<1>1. s \in Seq(Message) /\ IsInjective(s) /\ DOMAIN s = 1..Len(s)
  BY <1>0 DEF QueuesOK, Unique
<1>2. PICK at \in InOrder(K) : queue' = [queue EXCEPT ![Aside] = [k \in DOMAIN at |-> s[at[k]]]]
  BY DEF GetAll
<1> DEFINE t == [k \in DOMAIN at |-> s[at[k]]]
<1>3. /\ t \in Seq(Message) /\ IsInjective(t)
      /\ \A x : x \in ToSet(t) <=> \E i \in K : s[i] = x
  BY <1>1, KeptInOrder
<1>4. queue' = [queue EXCEPT ![Aside] = t]  BY <1>2
<1>5. Contents(Aside) = ToSet(s)  BY DEF Contents
<1> HIDE DEF t
<1>6. ToSet(t) = Contents(Aside) \ S
  BY <1>1, <1>3, <1>5 DEF ToSet
<1> HIDE DEF K
<1>7. /\ QueuesOK'
      /\ Contents(Aside)' = Contents(Aside) \ S
      /\ \A q \in QueueName \ {Aside} : Contents(q)' = Contents(q)
  BY <1>0, <1>3, <1>4, <1>6, QueueUpdated
<1>8. /\ \A p \in QueueName : IsInjective(queue'[p])
      /\ \A p, q \in QueueName : p # q => Contents(p)' \cap Contents(q)' = {}
  <2>1. ToSet(t) \subseteq ToSet(queue[Aside])  BY <1>5, <1>6
  <2>3. QueuesOK /\ Unique /\ Aside \in QueueName  BY <1>0
  <2>4. t \in Seq(Message) /\ IsInjective(t)  BY <1>3
  <2> HIDE DEF s, S
  <2> QED BY <1>4, <2>1, <2>3, <2>4, UniqueShrunk
<1>9. InTx' = InTx  BY DEF GetAll, TransactionVars, InTx
<1>10. S \subseteq Waiting /\ S \subseteq Message /\ S \cap InTx = {}
  BY <1>0, InQueue DEF Unique
<1>11. Waiting' = Waiting \ S
  <2>1. \A q \in QueueName \ {Aside} : Contents(q) \cap S = {}  BY <1>0 DEF Unique
  <2>2. \A x : x \in Waiting <=> \E q \in QueueName : x \in Contents(q)  BY InQueue
  <2>3. \A x : x \in Waiting' <=> \E q \in QueueName : x \in Contents(q)'  BY InQueue
  <2>4. \A q \in QueueName : Contents(q)' = Contents(q) \ S  BY <1>7, <2>1
  <2> QED BY <2>2, <2>3, <2>4
<1>12. Unique'  BY <1>0, <1>8, <1>9, <1>11 DEF Unique
<1>13. Owed' = Owed \ S /\ S \in SUBSET Owed  BY <1>9, <1>10, <1>11 DEF Owed
<1>14. gone' = [m \in Message |-> IF m \in S THEN "unreadable" ELSE gone[m]]
  <2>1. Contents(Aside) \ Readable = S  BY DEF Readable
  <2> QED BY <2>1 DEF GetAll
<1>15. Settles(S, "unreadable")
  BY <1>13, <1>14 DEF Settles, Justified, SameAccepted, GetAll, submitVars
<1>16. Shape  BY <1>13, <1>15 DEF Shape, Reason
<1> QED BY <1>7, <1>12, <1>16

LEMMA DeleteShape ==
  ASSUME TypeOK, Places, NEW m \in Message, Delete(m)
  PROVE  QueuesOK' /\ Unique' /\ Shape
<1>0. /\ QueuesOK /\ Unique /\ Aside \in QueueName
      /\ gone \in [Message -> Reason \cup {"none"}]
  BY Typed, Sites DEF Places
<1>1. PICK i \in 1..Len(queue[Aside]) :
        queue[Aside][i] = m /\ queue' = [queue EXCEPT ![Aside] = RemoveAt(@, i)]
  BY DEF Delete
<1>2. Removes(Aside, i, "deleted")
  BY <1>1 DEF Removes, Delete, TransactionVars, InTx
<1>3. QueuesOK' /\ Unique' /\ m \in Owed /\ Owed' = Owed \ {m}
  BY <1>0, <1>1, <1>2, RemovesUnique
<1>4. gone' = [x \in Message |-> IF x \in {m} THEN "deleted" ELSE gone[x]]
  BY <1>0 DEF Delete
<1>5. Settles({m}, "deleted")
  BY <1>3, <1>4 DEF Settles, Justified, SameAccepted, Delete, submitVars
<1>6. Shape
  <2>1. {m} \in SUBSET Owed /\ "deleted" \in Reason  BY <1>3 DEF Reason
  <2> QED BY <1>5, <2>1 DEF Shape
<1> QED BY <1>3, <1>6

\* From one queue to another: nothing is owed more or less.
LEMMA SaveAndImportShape ==
  ASSUME TypeOK, Places, NEW m \in Message, NEW p \in Priority, SaveAndImport(m, p)
  PROVE  QueuesOK' /\ Unique' /\ Shape
<1>0. /\ QueuesOK /\ Unique /\ Aside \in QueueName /\ p \in QueueName /\ p # Aside
  BY Typed, Sites DEF Places
<1>1. PICK i \in 1..Len(queue[Aside]) :
        /\ queue[Aside][i] = m
        /\ queue' = [queue EXCEPT ![Aside] = RemoveAt(@, i), ![p] = Append(@, m)]
  BY DEF SaveAndImport
<1> DEFINE s == RemoveAt(queue[Aside], i)
           t == Append(queue[p], m)
<1>2. /\ queue[Aside] \in Seq(Message) /\ IsInjective(queue[Aside])
      /\ queue[p] \in Seq(Message) /\ IsInjective(queue[p])
  BY <1>0 DEF QueuesOK, Unique
<1>3. Contents(Aside) = ToSet(queue[Aside]) /\ Contents(p) = ToSet(queue[p])
  BY DEF Contents
<1>4. m \in Contents(Aside) /\ m \in Waiting
  <2>1. m \in ToSet(queue[Aside])  BY <1>1, <1>2 DEF ToSet
  <2> QED BY <1>0, <1>3, <2>1, InQueue
<1>5. \A q \in QueueName \ {Aside} : m \notin Contents(q)  BY <1>0, <1>4 DEF Unique
<1>6. s \in Seq(Message) /\ IsInjective(s) /\ ToSet(s) = Contents(Aside) \ {m}
  <2>1. /\ s \in Seq(Message) /\ ToSet(queue[Aside]) \ {m} \subseteq ToSet(s)
        /\ ToSet(s) \subseteq ToSet(queue[Aside])
    BY <1>1, <1>2, RemoveElements
  <2>2. IsInjective(s) /\ m \notin ToSet(s)  BY <1>1, <1>2, RemoveInjectiveSeq
  <2> HIDE DEF s
  <2> QED BY <1>3, <2>1, <2>2
<1>7. t \in Seq(Message) /\ IsInjective(t) /\ ToSet(t) = Contents(p) \cup {m}
  <2>1. m \notin ToSet(queue[p])  BY <1>0, <1>3, <1>5
  <2> QED BY <1>2, <1>3, <2>1, AppendElements, AppendInjectiveSeq
<1>8. /\ queue' \in [QueueName -> Seq(Message)]
      /\ queue'[Aside] = s /\ queue'[p] = t
      /\ \A q \in QueueName : q # Aside /\ q # p => queue'[q] = queue[q]
  <2>1. queue' = [queue EXCEPT ![Aside] = s, ![p] = t]  BY <1>0, <1>1 DEF QueuesOK
  <2> HIDE DEF s, t
  <2> QED BY <1>0, <1>6, <1>7, <2>1 DEF QueuesOK
<1> HIDE DEF s, t
<1>9. \A q \in QueueName : IsInjective(queue'[q])
  BY <1>0, <1>6, <1>7, <1>8 DEF Unique
<1>10. ASSUME NEW q \in QueueName, NEW x
       PROVE  x \in Contents(q)' <=> IF x = m THEN q = p ELSE x \in Contents(q)
  <2>1. CASE q = Aside
    <3>1. Contents(q)' = ToSet(s)  BY <1>8, <2>1 DEF Contents
    <3> QED BY <1>0, <1>6, <2>1, <3>1
  <2>2. CASE q = p
    <3>1. Contents(q)' = ToSet(t)  BY <1>8, <2>2 DEF Contents
    <3> QED BY <1>7, <2>2, <3>1
  <2>3. CASE q # Aside /\ q # p
    <3>1. Contents(q)' = Contents(q)  BY <1>8, <2>3 DEF Contents
    <3> QED BY <1>5, <2>3, <3>1
  <2> QED BY <2>1, <2>2, <2>3
<1>11. \A q, r \in QueueName : q # r => Contents(q)' \cap Contents(r)' = {}
  <2> SUFFICES ASSUME NEW q \in QueueName, NEW r \in QueueName, q # r,
                      NEW x, x \in Contents(q)', x \in Contents(r)'
               PROVE  FALSE
    OBVIOUS
  <2>1. CASE x = m  BY <1>10, <2>1
  <2>2. CASE x # m
    <3>1. x \in Contents(q) /\ x \in Contents(r)  BY <1>10, <2>2
    <3> QED BY <1>0, <3>1 DEF Unique
  <2> QED BY <2>1, <2>2
<1>12. Waiting' = Waiting
  <2>1. \A x : x \in Waiting <=> \E q \in QueueName : x \in Contents(q)  BY InQueue
  <2>2. \A x : x \in Waiting' <=> \E q \in QueueName : x \in Contents(q)'  BY InQueue
  <2>3. m \in Waiting'  BY <1>0, <1>10, <2>2
  <2>4. \A x : x # m => (x \in Waiting' <=> x \in Waiting)  BY <1>10, <2>1, <2>2
  <2> QED BY <1>4, <2>3, <2>4
<1>13. InTx' = InTx  BY DEF SaveAndImport, TransactionVars, InTx
<1>14. Unique'  BY <1>0, <1>9, <1>11, <1>12, <1>13 DEF Unique
<1>15. QueuesOK'  BY <1>8 DEF QueuesOK
<1>16. Quiet
  BY <1>12, <1>13 DEF Quiet, Owed, SameAccepted, SaveAndImport, submitVars
<1> QED BY <1>14, <1>15, <1>16 DEF Shape

-----------------------------------------------------------------------------
(* Every step has that shape.                                               *)

\* The actions that move no message.
Still ==
  \/ Begin \/ WaitAny \/ ScanNext \/ CatchInvalidMessage \/ DequeueFails
  \/ Run \/ DeleteMessageData \/ EnqueueErroneous \/ Sleep \/ Restart

LEMMA StillShape ==
  ASSUME TypeOK, Control, Places, Still
  PROVE  QueuesOK' /\ Unique' /\ Shape
<1>1. CASE Begin
  <2>1. InTx = {} /\ InTx' = {}  BY <1>1 DEF Begin, BeginTransaction, Control, InTx
  <2> QED BY <1>1, <2>1, RestsShape DEF Begin, Rests, SameAccepted, submitVars
<1>2. CASE ~Begin
  <2>1. UNCHANGED <<queue, tx, held, gone, stage>>
    BY <1>2 DEF Still, WaitAny, ScanNext, CatchInvalidMessage, DequeueFails, Run,
                DeleteMessageData, EnqueueErroneous, Sleep, Restart,
                queueVars, TransactionVars, submitVars
  <2> QED BY <2>1, RestsShape DEF Rests, SameAccepted, InTx
<1> QED BY <1>1, <1>2

\* The actions that end a transaction.
LEMMA CommitShape ==
  ASSUME TypeOK, Control, Unaccepted, Places, CommitHandled
  PROVE  QueuesOK' /\ Unique' /\ Shape
<1>1. /\ pc = "commit" /\ tx = "pending" /\ held \in Message /\ SameAccepted
      /\ requeued \/ Justified(held, outcome)
  BY DEF CommitHandled, Control, SameAccepted, submitVars
<1>2. CASE Commit(requeued) /\ ~remote
  <2>1. MakeFinal(requeued) /\ InTx' = {}  BY <1>2 DEF Commit, InTx
  <2> QED BY <1>1, <2>1, FinalShape DEF Open
<1>3. CASE (Commit(requeued) /\ remote) \/ CommitThrows
  <2>1. UNCHANGED <<queue, held, gone>> /\ tx' \in {"pending", "complete"}
    BY <1>1, <1>3 DEF Commit, CommitThrows
  <2>2. Rests  BY <1>1, <2>1 DEF Rests, InTx
  <2> QED BY <1>1, <2>2, RestsShape
<1> QED BY <1>2, <1>3 DEF CommitHandled

LEMMA EndShape ==
  ASSUME TypeOK, Control, Unaccepted, Places, EndUsing \/ Crash
  PROVE  QueuesOK' /\ Unique' /\ Shape
<1>1. InTx' = {} /\ SameAccepted
  BY DEF EndUsing, Crash, DisposeCommits, DisposeAborts, DisposeNothing, EndTransaction, InTx,
         SameAccepted, submitVars
<1>2. CASE DisposeCommits(requeued)
  BY <1>1, <1>2, FinalShape DEF DisposeCommits, Open, Control
<1>3. CASE DisposeAborts
  BY <1>1, <1>3, PutBackShape DEF DisposeAborts, Open
<1>4. CASE DisposeNothing
  <2>1. Rests  BY <1>1, <1>4 DEF DisposeNothing, Rests, InTx
  <2> QED BY <1>1, <2>1, RestsShape
<1> QED BY <1>2, <1>3, <1>4 DEF EndUsing, Crash

LEMMA RollbackShape ==
  ASSUME TypeOK, Control, Places, RollbackNothing
  PROVE  QueuesOK' /\ Unique' /\ Shape
<1>1. held = NoMessage /\ UNCHANGED <<queue, held, gone, stage>>
  BY DEF RollbackNothing, Rollback, PutBack, Control, submitVars
<1>2. Rests /\ SameAccepted  BY <1>1 DEF Rests, InTx, SameAccepted
<1> QED BY <1>2, RestsShape

LEMMA ScanShape ==
  ASSUME TypeOK, Control, Places, ScanReceive
  PROVE  QueuesOK' /\ Unique' /\ Shape /\ held' \in Message /\ held' # NoMessage
<1>1. /\ pc = "scan" /\ tx = "pending" /\ held = NoMessage
      /\ Receive(scanAt) /\ gone' = gone /\ SameAccepted
  BY DEF ScanReceive, Control, SameAccepted, submitVars
<1>2. scanAt \in QueueName /\ QueuesOK  BY Typed, Sites DEF TypeOK
<1>3. Takes(scanAt)  BY <1>1, <1>2, ReceiveTakes, MsmqQueueAssumption
<1>4. held' \in Message  BY <1>1, <1>2, ReceiveOwed, MsmqQueueAssumption
<1> QED BY <1>1, <1>2, <1>3, <1>4, TakesShape, Sites

\* The modules that submit imports.
LEMMA SubmitShape ==
  ASSUME TypeOK, Unaccepted, Places, NEW m \in Message, NEW p \in QueueName, SubmitImport(m, p)
  PROVE  QueuesOK' /\ Unique' /\ Shape
<1>0. /\ QueuesOK /\ Unique
      /\ stage \in [Message -> {"new", "submitting", "accepted", "given up"}]
  BY Typed DEF Places
<1>1. m \notin Owed /\ gone[m] = "none" /\ stage[m] # "accepted"
  BY DEF SubmitImport, Unaccepted
<1>2. UNCHANGED <<tx, held, gone>>  BY DEF SubmitImport, TransactionVars
<1>3. Arrives(p, m)  BY <1>1, <1>2 DEF Arrives, SubmitImport, InTx, Owed
<1>4. QueuesOK' /\ Unique' /\ Owed' = Owed \cup {m}  BY <1>0, <1>3, ArrivesUnique
<1>5. Accepts(m)  BY <1>0, <1>1, <1>2, <1>4 DEF Accepts, SubmitImport
<1> QED BY <1>4, <1>5 DEF Shape

LEMMA SubmittersShape ==
  ASSUME TypeOK, Unaccepted, Places, Submitters
  PROVE  QueuesOK' /\ Unique' /\ Shape
<1>0. stage \in [Message -> {"new", "submitting", "accepted", "given up"}]
  BY Typed
<1>1. CASE \E m \in Message : StorePayload(m) \/ SubmitFails(m) \/ PayloadDisappears(m)
  <2>1. UNCHANGED <<queue, tx, held, gone>>
    BY <1>1 DEF StorePayload, SubmitFails, PayloadDisappears, TransactionVars
  <2>2. SameAccepted
    BY <1>0, <1>1 DEF StorePayload, SubmitFails, PayloadDisappears, SameAccepted
  <2> QED BY <2>1, <2>2, RestsShape DEF Rests, InTx
<1>2. CASE \E m \in Message, p \in QueueName : SubmitImport(m, p)
  BY <1>2, SubmitShape
<1> QED BY <1>1, <1>2 DEF Submitters

LEMMA AdministrationShape ==
  ASSUME TypeOK, Places, Administration
  PROVE  QueuesOK' /\ Unique' /\ Shape
BY GetAllShape, DeleteShape, SaveAndImportShape DEF Administration

\* The actions, one by one.
LEMMA Cases ==
  ASSUME Next
  PROVE  /\ \/ Still \/ CommitHandled \/ RollbackNothing \/ EndUsing \/ Crash \/ ScanReceive
            \/ Submitters /\ UNCHANGED threadVars
            \/ Administration /\ UNCHANGED threadVars
         /\ UNCHANGED siteVars
BY DEF Next, ThreadStep, ProcessNextImportMessage, Surroundings, Still

LEMMA StepShape ==
  ASSUME TypeOK, Control, Unaccepted, Places, Next
  PROVE  QueuesOK' /\ Unique' /\ Shape
BY Cases, StillShape, CommitShape, RollbackShape, EndShape, ScanShape, SubmittersShape,
   AdministrationShape

-----------------------------------------------------------------------------
(* The histories of the runs.                                               *)

\* What Run notes, and nobody else.
LEMMA RunNotes ==
  ASSUME TypeOK, Control, Next, Run
  PROVE  /\ held \in Message /\ held' = held /\ outcome' \in Outcome
         /\ UNCHANGED <<stage, payload, lost, faults, queue, tx, gone, requeued>>
         /\ imports' = IF outcome' = "ok" THEN [imports EXCEPT ![held] = @ + 1] ELSE imports
         /\ endings' = IF outcome' \in Ending
                       THEN [endings EXCEPT ![held] = @ \cup {outcome'}] ELSE endings
<1>1. held \in Message  BY DEF Run, Control
<1>2. RunEndings \subseteq Outcome
  BY <1>1, OutcomesAssumption DEF RunEndings, Outcome
<1> QED BY <1>1, <1>2 DEF Run, submitVars

LEMMA HistoryUntouched ==
  ASSUME Next, ~Run  PROVE UNCHANGED <<imports, endings>>
<1>1. CASE Still
  BY <1>1 DEF Still, Begin, WaitAny, ScanNext, CatchInvalidMessage, DequeueFails,
              DeleteMessageData, EnqueueErroneous, Sleep, Restart, queueVars, historyVars
<1>2. CASE CommitHandled \/ RollbackNothing \/ EndUsing \/ Crash \/ ScanReceive
  BY <1>2 DEF CommitHandled, RollbackNothing, EndUsing, Crash, ScanReceive, historyVars
<1>3. CASE Submitters \/ Administration
  BY <1>3 DEF Submitters, StorePayload, SubmitFails, PayloadDisappears, SubmitImport,
              Administration, GetAll, Delete, SaveAndImport, historyVars
<1> QED BY <1>1, <1>2, <1>3, Cases

LEMMA HistoryGrows ==
  ASSUME TypeOK, Control, Next
  PROVE  /\ \A m \in Message : endings[m] \subseteq endings'[m]
         /\ endings' \in [Message -> SUBSET Ending]
<1>0. endings \in [Message -> SUBSET Ending]  BY Typed
<1>1. CASE Run
  <2>1. /\ held \in Message
        /\ endings' = IF outcome' \in Ending
                      THEN [endings EXCEPT ![held] = @ \cup {outcome'}] ELSE endings
    BY <1>1, RunNotes
  <2> QED BY <1>0, <2>1
<1>2. CASE ~Run  BY <1>0, <1>2, HistoryUntouched
<1> QED BY <1>1, <1>2

LEMMA RunsTyped ==
  ASSUME TypeOK, Control, Next
  PROVE  /\ imports' \in [Message -> Nat]
         /\ \A m \in Message : imports[m] > 0 => imports'[m] > 0
<1>0. imports \in [Message -> Nat]  BY Typed
<1>1. CASE Run
  <2>1. held \in Message /\ (imports' = imports \/ imports' = [imports EXCEPT ![held] = @ + 1])
    BY <1>1, RunNotes
  <2> QED BY <1>0, <2>1
<1>2. CASE ~Run  BY <1>0, <1>2, HistoryUntouched
<1> QED BY <1>1, <1>2

\* A reason stays a reason.
LEMMA JustifiedStays ==
  ASSUME TypeOK, Control, Next, NEW m \in Message, NEW reason, Justified(m, reason)
  PROVE  Justified(m, reason)'
BY HistoryGrows, Cases DEF Justified, siteVars

LEMMA OkStep ==
  ASSUME TypeOK, Control, OkIsARun, Next
  PROVE  OkIsARun'
<1>0. imports \in [Message -> Nat] /\ endings \in [Message -> SUBSET Ending]  BY Typed
<1>1. \A m \in Message : imports[m] > 0 => imports'[m] > 0  BY RunsTyped
<1>2. CASE Run
  <2>1. /\ held \in Message
        /\ imports' = IF outcome' = "ok" THEN [imports EXCEPT ![held] = @ + 1] ELSE imports
        /\ endings' = IF outcome' \in Ending
                      THEN [endings EXCEPT ![held] = @ \cup {outcome'}] ELSE endings
    BY <1>2, RunNotes
  <2>2. outcome' = "ok" => imports'[held] > 0
    <3>1. outcome' = "ok" => imports'[held] = imports[held] + 1 /\ imports[held] \in Nat
      BY <1>0, <2>1
    <3>2. \A n \in Nat : n + 1 > 0  OBVIOUS
    <3> QED BY <3>1, <3>2
  <2>3. \A m \in Message : "ok" \in endings'[m] =>
          "ok" \in endings[m] \/ (m = held /\ outcome' = "ok")
    BY <1>0, <2>1
  <2> QED BY <1>1, <2>2, <2>3 DEF OkIsARun
<1>3. CASE ~Run  BY <1>1, <1>3, HistoryUntouched DEF OkIsARun
<1> QED BY <1>2, <1>3

-----------------------------------------------------------------------------
(* The statements of ProcessNextImportMessage.                              *)

LEMMA StillControl ==
  ASSUME TypeOK, Control, Next, Still
  PROVE  Control'
<1> USE DEF Goto, NoFault, Fault
<1>0. /\ held \in Message \cup {NoMessage} /\ NoMessage \notin Message
      /\ endings \in [Message -> SUBSET Ending] /\ corrupt' = corrupt
  BY Typed, Sites, Cases DEF siteVars
<1>1. CASE Begin  BY <1>1 DEF Begin, BeginTransaction, Control
<1>2. CASE WaitAny \/ ScanNext \/ DequeueFails
  BY <1>2 DEF WaitAny, ScanNext, DequeueFails, Control, queueVars, TransactionVars, historyVars,
              Justified
<1>3. CASE CatchInvalidMessage
  BY <1>0, <1>3 DEF CatchInvalidMessage, Control, Justified
<1>4. CASE Run
  <2>1. /\ pc' = AfterRun(outcome') /\ UNCHANGED <<tx, held, requeued>> /\ pc = "run"
    BY <1>4 DEF Run
  <2>2. AfterRun(outcome') = "delete" => outcome' \in Ending  BY DEF AfterRun
  <2>3. AfterRun(outcome') \in {"delete", "moveToError", "dispose"}  BY DEF AfterRun
  <2>4. outcome' \in Ending => outcome' \in endings'[held]
    BY <1>0, <1>4, RunNotes
  <2> QED BY <2>1, <2>2, <2>3, <2>4 DEF Control
<1>5. CASE DeleteMessageData
  BY <1>5 DEF DeleteMessageData, Control, TransactionVars, historyVars, Justified
<1>6. CASE EnqueueErroneous
  BY <1>6 DEF EnqueueErroneous, Control
<1>7. CASE Sleep \/ Restart
  BY <1>7 DEF Sleep, Restart, Control, queueVars, TransactionVars
<1> QED BY <1>1, <1>2, <1>3, <1>4, <1>5, <1>6, <1>7 DEF Still

LEMMA ControlStep ==
  ASSUME TypeOK, Control, Places, Next
  PROVE  Control'
<1> USE DEF Goto, NoFault, Fault
<1>0. corrupt' = corrupt /\ requeued \in BOOLEAN  BY Typed, Cases DEF siteVars
<1>1. CASE Still  BY <1>1, StillControl
<1>2. CASE ScanReceive
  <2>1. held' \in Message  BY <1>2, ScanShape
  <2> QED BY <1>0, <1>2, <2>1 DEF ScanReceive, Receive, Control
<1>3. CASE CommitHandled
  BY <1>0, <1>3 DEF CommitHandled, Commit, CommitThrows, Control, Justified, historyVars
<1>4. CASE RollbackNothing
  BY <1>4 DEF RollbackNothing, Rollback, Control
<1>5. CASE EndUsing
  <2>1. tx' = "none" /\ pc' \in {"idle", "sleep"}
    BY <1>5 DEF EndUsing, DisposeCommits, DisposeAborts, DisposeNothing, EndTransaction,
                NextIteration
  <2> QED BY <2>1 DEF Control
<1>6. CASE Crash
  BY <1>6 DEF Crash, DisposeAborts, DisposeNothing, EndTransaction, Control
<1>7. CASE (Submitters \/ Administration) /\ UNCHANGED threadVars
  <2>1. UNCHANGED <<tx, held, requeued, outcome, endings>>
    BY <1>7 DEF Submitters, StorePayload, SubmitFails, PayloadDisappears, SubmitImport,
                Administration, GetAll, Delete, SaveAndImport, TransactionVars, historyVars
  <2> QED BY <1>0, <1>7, <2>1 DEF Control, Justified, threadVars
<1> QED BY <1>1, <1>2, <1>3, <1>4, <1>5, <1>6, <1>7, Cases

-----------------------------------------------------------------------------
(* Where the imports are.                                                   *)

LEMMA GoneStep ==
  ASSUME TypeOK, Unaccepted, Places, Shape
  PROVE  /\ gone' \in [Message -> Reason \cup {"none"}]
         /\ Settled'
         /\ \A m \in Message : gone[m] # "none" => gone'[m] = gone[m]
<1>0. gone \in [Message -> Reason \cup {"none"}] /\ Settled  BY Typed DEF Places
<1>1. CASE Quiet  BY <1>0, <1>1 DEF Quiet, Settled
<1>2. CASE \E m \in Message : Accepts(m)
  BY <1>0, <1>2 DEF Accepts, Settled, Unaccepted
<1>3. CASE \E S \in SUBSET Owed : \E reason \in Reason : Settles(S, reason)
  <2>1. PICK S \in SUBSET Owed, reason \in Reason : Settles(S, reason)  BY <1>3
  <2>2. \A m \in Message : gone'[m] = IF m \in S THEN reason ELSE gone[m]
    BY <2>1 DEF Settles
  <2> QED BY <1>0, <2>1, <2>2 DEF Settles, Settled
<1> QED BY <1>1, <1>2, <1>3 DEF Shape

LEMMA PlacesStep ==
  ASSUME TypeOK, Control, Unaccepted, Places, Next
  PROVE  Places'
BY StepShape, GoneStep DEF Places

LEMMA UnacceptedStep ==
  ASSUME TypeOK, Control, Unaccepted, Places, Next
  PROVE  Unaccepted'
<1>0. Shape /\ imports \in [Message -> Nat]  BY StepShape, Typed
<1>1. \A m \in Message : stage'[m] # "accepted" =>
        stage[m] # "accepted" /\ m \notin Owed' /\ gone'[m] = "none"
  <2>1. CASE Quiet  BY <2>1 DEF Quiet, SameAccepted, Unaccepted
  <2>2. CASE \E m \in Message : Accepts(m)  BY <2>2 DEF Accepts, Unaccepted
  <2>3. CASE \E S \in SUBSET Owed : \E reason \in Reason : Settles(S, reason)
    <3>1. PICK S \in SUBSET Owed, reason \in Reason : Settles(S, reason)  BY <2>3
    <3> QED BY <3>1 DEF Settles, SameAccepted, Unaccepted
  <2> QED BY <1>0, <2>1, <2>2, <2>3 DEF Shape
<1>2. \A m \in Message : stage[m] # "accepted" => imports'[m] = 0
  <2>1. CASE Run
    <3>1. /\ held \in Message /\ Open
          /\ imports' = imports \/ imports' = [imports EXCEPT ![held] = @ + 1]
      BY <2>1, RunNotes DEF Run, Control, Open
    <3>2. stage[held] = "accepted"  BY <3>1, HeldOwed
    <3> QED BY <1>0, <3>1, <3>2 DEF Unaccepted
  <2>2. CASE ~Run  BY <2>2, HistoryUntouched DEF Unaccepted
  <2> QED BY <2>1, <2>2
<1> QED BY <1>1, <1>2 DEF Unaccepted

\* An accepted import is owed, or it is gone for a reason.
Kept == \A m \in Message : stage[m] = "accepted" => m \in Owed \/ Justified(m, gone[m])

LEMMA KeptIsNoImportLost ==
  ASSUME TypeOK PROVE NoImportLost <=> Kept
<1>0. gone \in [Message -> Reason \cup {"none"}]  BY Typed
<1> QED BY <1>0 DEF NoImportLost, Kept, InSystem, Owed, Justified

LEMMA KeptStep ==
  ASSUME TypeOK, Control, Unaccepted, Places, Kept, Next
  PROVE  Kept'
<1>0. Shape /\ gone \in [Message -> Reason \cup {"none"}]  BY StepShape, Typed
<1>1. \A m \in Message : Justified(m, gone[m]) => Justified(m, gone[m])'
  <2> SUFFICES ASSUME NEW m \in Message, Justified(m, gone[m])  PROVE Justified(m, gone[m])'
    OBVIOUS
  <2>1. gone[m] # "none"
    <3>1. endings \in [Message -> SUBSET Ending]  BY Typed
    <3> QED BY <3>1 DEF Justified, Ending
  <2>2. gone'[m] = gone[m]  BY <1>0, <2>1, GoneStep
  <2>3. /\ endings[m] \subseteq endings'[m] /\ corrupt' = corrupt
    BY HistoryGrows, Cases DEF siteVars
  <2> QED BY <2>2, <2>3 DEF Justified
<1>2. CASE Quiet  BY <1>1, <1>2 DEF Quiet, SameAccepted, Kept
<1>3. CASE \E m \in Message : Accepts(m)  BY <1>1, <1>3 DEF Accepts, Kept
<1>4. CASE \E S \in SUBSET Owed : \E reason \in Reason : Settles(S, reason)
  <2>1. PICK S \in SUBSET Owed, reason \in Reason : Settles(S, reason)  BY <1>4
  <2>2. \A m \in Message \cap S : gone'[m] = reason  BY <2>1 DEF Settles
  <2>3. \A m \in Message \cap S : endings[m] \subseteq endings'[m] /\ corrupt' = corrupt
    BY HistoryGrows, Cases DEF siteVars
  <2>4. \A m \in Message \cap S : Justified(m, gone[m])'
    BY <2>1, <2>2, <2>3 DEF Settles, Justified
  <2> QED BY <1>1, <2>1, <2>4 DEF Settles, SameAccepted, Kept
<1> QED BY <1>0, <1>2, <1>3, <1>4 DEF Shape

-----------------------------------------------------------------------------
(* Payloads.                                                                *)

LEMMA PayloadsUntouched ==
  ASSUME Next, ~Submitters, ~DeleteMessageData  PROVE UNCHANGED <<stage, payload, lost>>
<1>1. CASE Still
  BY <1>1 DEF Still, Begin, WaitAny, ScanNext, CatchInvalidMessage, DequeueFails, Run,
              EnqueueErroneous, Sleep, Restart, queueVars, submitVars
<1>2. CASE CommitHandled \/ RollbackNothing \/ EndUsing \/ Crash \/ ScanReceive
  BY <1>2 DEF CommitHandled, RollbackNothing, EndUsing, Crash, ScanReceive, submitVars
<1>3. CASE Administration
  BY <1>3 DEF Administration, GetAll, Delete, SaveAndImport, submitVars
<1> QED BY <1>1, <1>2, <1>3, Cases

LEMMA PayloadStep ==
  ASSUME TypeOK, Control, PayloadKept, Next
  PROVE  PayloadKept'
<1>0. /\ stage \in [Message -> {"new", "submitting", "accepted", "given up"}]
      /\ \A m \in Message : endings[m] \subseteq endings'[m]
  BY Typed, HistoryGrows
<1>1. CASE Submitters
  <2>1. \A m \in Message : stage'[m] \in {"submitting", "accepted"} =>
          \/ stage[m] \in {"submitting", "accepted"} /\ payload \cup lost \subseteq payload' \cup lost'
          \/ m \in payload'
    <3>1. CASE \E m \in Message : StorePayload(m)  BY <1>0, <3>1 DEF StorePayload
    <3>2. CASE \E m \in Message, p \in QueueName : SubmitImport(m, p)
      BY <1>0, <3>2 DEF SubmitImport
    <3>3. CASE \E m \in Message : SubmitFails(m)  BY <1>0, <3>3 DEF SubmitFails
    <3>4. CASE \E m \in Message : PayloadDisappears(m)
      BY <1>0, <3>4 DEF PayloadDisappears
    <3> QED BY <1>1, <3>1, <3>2, <3>3, <3>4 DEF Submitters
  <2> QED BY <1>0, <2>1 DEF PayloadKept
<1>2. CASE DeleteMessageData
  <2>1. /\ payload \ {held} \subseteq payload' /\ UNCHANGED <<stage, lost>>
        /\ outcome \in endings[held]
    BY <1>2 DEF DeleteMessageData, Control
  <2> QED BY <1>0, <2>1 DEF PayloadKept
<1>3. CASE ~Submitters /\ ~DeleteMessageData
  BY <1>0, <1>3, PayloadsUntouched DEF PayloadKept
<1> QED BY <1>1, <1>2, <1>3

-----------------------------------------------------------------------------
(* Types.                                                                   *)

\* A bounded counter, and one more.
LEMMA Bounded ==
  ASSUME NEW n \in Nat, NEW i \in 0..n, i < n PROVE i + 1 \in 0..n
OBVIOUS

LEMMA FaultTyped ==
  ASSUME TypeOK, NEW kind, Fault(kind) PROVE faults' \in 0..MaxFaults
<1>1. faults \in 0..MaxFaults /\ MaxFaults \in Nat
  BY MsmqQueueAssumption DEF TypeOK, QueueTypeOK, MsmqTypeOK
<1> QED BY <1>1, Bounded DEF Fault

\* The part of the state that the shape of a step does not speak of.
ThreadOK ==
  /\ tx \in {"none", "pending", "complete", "committed", "aborted"}
  /\ held \in Message \cup {NoMessage}
  /\ heldFrom \in QueueName
  /\ requeued \in BOOLEAN
  /\ outcome \in Outcome
  /\ pc \in {"idle", "wait", "scan", "invalid", "run", "delete", "moveToError", "commit",
             "rollback", "dispose", "sleep", "down"}
  /\ scanAt \in Priority
  /\ moreWork \in BOOLEAN
  /\ escaping \in BOOLEAN

SurroundingsOK ==
  /\ stage \in [Message -> {"new", "submitting", "accepted", "given up"}]
  /\ payload \subseteq Message
  /\ listed \subseteq Message
  /\ resubmits \in 0..MaxResubmits
  /\ lost \subseteq Message

LEMMA Parts ==
  TypeOK <=> /\ ThreadOK /\ SurroundingsOK /\ QueuesOK
             /\ remote \in BOOLEAN /\ corrupt \subseteq Message
             /\ gone \in [Message -> Reason \cup {"none"}]
             /\ imports \in [Message -> Nat] /\ endings \in [Message -> SUBSET Ending]
             /\ faults \in 0..MaxFaults
BY DEF TypeOK, QueueTypeOK, MsmqTypeOK, ThreadOK, SurroundingsOK, QueuesOK

LEMMA FaultsTyped ==
  ASSUME TypeOK, Next PROVE faults' \in 0..MaxFaults
<1>1. faults \in 0..MaxFaults  BY Parts
<1>2. faults' = faults \/ \E kind : Fault(kind)
  <2>1. CASE Still
    BY <2>1 DEF Still, Begin, WaitAny, ScanNext, CatchInvalidMessage, DequeueFails, Run,
                DeleteMessageData, EnqueueErroneous, Sleep, Restart, queueVars, NoFault
  <2>2. CASE CommitHandled \/ RollbackNothing \/ EndUsing \/ Crash \/ ScanReceive
    BY <2>2 DEF CommitHandled, CommitThrows, RollbackNothing, EndUsing, Crash, ScanReceive,
                NoFault
  <2>3. CASE Submitters \/ Administration
    BY <2>3 DEF Submitters, StorePayload, SubmitFails, PayloadDisappears, SubmitImport,
                Administration, GetAll, Delete, SaveAndImport
  <2> QED BY <2>1, <2>2, <2>3, Cases
<1> QED BY <1>1, <1>2, FaultTyped

LEMMA StillTyped ==
  ASSUME TypeOK, Control, Next, Still
  PROVE  ThreadOK'
<1>0. ThreadOK  BY Parts
<1> USE DEF Goto
<1>1. CASE Begin \/ WaitAny \/ DequeueFails
  BY <1>0, <1>1 DEF Begin, BeginTransaction, WaitAny, DequeueFails, ThreadOK, queueVars,
                    TransactionVars, Priority
<1>2. CASE ScanNext
  BY <1>0, <1>2 DEF ScanNext, ThreadOK, queueVars, TransactionVars, Priority, NextPriority
<1>3. CASE Run
  <2>1. outcome' \in Outcome /\ UNCHANGED <<tx, held, heldFrom, requeued, scanAt, moreWork>>
        /\ pc' = AfterRun(outcome') /\ escaping' \in BOOLEAN
    BY <1>3, RunNotes DEF Run
  <2>2. AfterRun(outcome') \in {"delete", "moveToError", "dispose"}  BY DEF AfterRun
  <2> QED BY <1>0, <2>1, <2>2 DEF ThreadOK
<1>4. CASE CatchInvalidMessage
  BY <1>0, <1>4 DEF CatchInvalidMessage, ThreadOK, Outcome
<1>5. CASE DeleteMessageData \/ EnqueueErroneous
  BY <1>0, <1>5 DEF DeleteMessageData, EnqueueErroneous, ThreadOK, TransactionVars
<1>6. CASE Sleep \/ Restart
  BY <1>0, <1>6 DEF Sleep, Restart, ThreadOK, queueVars, TransactionVars
<1> QED BY <1>1, <1>2, <1>3, <1>4, <1>5, <1>6 DEF Still

LEMMA ThreadStepTyped ==
  ASSUME TypeOK, Control, Places, Next
  PROVE  ThreadOK'
<1>0. ThreadOK  BY Parts
<1> USE DEF Goto
<1>1. CASE Still  BY <1>1, StillTyped
<1>2. CASE ScanReceive
  <2>1. held' \in Message  BY <1>2, ScanShape
  <2>2. scanAt \in QueueName  BY <1>0, Sites DEF ThreadOK
  <2> QED BY <1>0, <1>2, <2>1, <2>2 DEF ScanReceive, Receive, ThreadOK
<1>3. CASE CommitHandled
  BY <1>0, <1>3 DEF CommitHandled, Commit, CommitThrows, ThreadOK
<1>4. CASE RollbackNothing
  BY <1>0, <1>4 DEF RollbackNothing, Rollback, ThreadOK
<1>5. CASE EndUsing \/ Crash
  <2>1. /\ tx' = "none" /\ held' = NoMessage /\ requeued' = FALSE
        /\ UNCHANGED <<heldFrom, outcome, scanAt, moreWork>>
        /\ pc' \in {"idle", "sleep", "down"} /\ escaping' = FALSE
    BY <1>5 DEF EndUsing, Crash, DisposeCommits, DisposeAborts, DisposeNothing, EndTransaction,
                NextIteration
  <2> QED BY <1>0, <2>1 DEF ThreadOK
<1>6. CASE (Submitters \/ Administration) /\ UNCHANGED threadVars
  <2>1. UNCHANGED <<tx, held, heldFrom, requeued, outcome>>
    BY <1>6 DEF Submitters, StorePayload, SubmitFails, PayloadDisappears, SubmitImport,
                Administration, GetAll, Delete, SaveAndImport, TransactionVars
  <2> QED BY <1>0, <1>6, <2>1 DEF ThreadOK, threadVars
<1> QED BY <1>1, <1>2, <1>3, <1>4, <1>5, <1>6, Cases

LEMMA SurroundingsTyped ==
  ASSUME TypeOK, Next
  PROVE  SurroundingsOK'
<1>0. SurroundingsOK  BY Parts
<1>1. CASE Still
  BY <1>0, <1>1 DEF Still, Begin, WaitAny, ScanNext, CatchInvalidMessage, DequeueFails, Run,
                DeleteMessageData, EnqueueErroneous, Sleep, Restart, queueVars, submitVars,
                adminVars, SurroundingsOK
<1>2. CASE CommitHandled \/ RollbackNothing \/ EndUsing \/ Crash \/ ScanReceive
  BY <1>0, <1>2 DEF CommitHandled, RollbackNothing, EndUsing, Crash, ScanReceive, submitVars,
                adminVars, SurroundingsOK
<1>3. CASE Submitters
  BY <1>0, <1>3 DEF Submitters, StorePayload, SubmitFails, PayloadDisappears, SubmitImport,
                adminVars, SurroundingsOK
<1>4. CASE GetAll
  <2>1. Contents(Aside) \subseteq Message  BY Typed, Sites, ContentsTyped
  <2> QED BY <1>0, <1>4, <2>1 DEF GetAll, Readable, submitVars, SurroundingsOK
<1>5. CASE \E m \in Message : Delete(m)
  BY <1>0, <1>5 DEF Delete, submitVars, SurroundingsOK
<1>6. CASE \E m \in Message, p \in Priority : SaveAndImport(m, p)
  <2>1. resubmits' \in 0..MaxResubmits
    <3>1. resubmits \in 0..MaxResubmits /\ MaxResubmits \in Nat
      BY <1>0, ImportQueueAssumption DEF SurroundingsOK
    <3>2. resubmits < MaxResubmits /\ resubmits' = resubmits + 1  BY <1>6 DEF SaveAndImport
    <3> QED BY <3>1, <3>2, Bounded
  <2> QED BY <1>0, <1>6, <2>1 DEF SaveAndImport, submitVars, SurroundingsOK
<1> QED BY <1>1, <1>2, <1>3, <1>4, <1>5, <1>6, Cases DEF Administration

LEMMA TypeStep ==
  ASSUME TypeOK, Control, Unaccepted, Places, Next
  PROVE  TypeOK'
<1>1. QueuesOK' /\ gone' \in [Message -> Reason \cup {"none"}]  BY StepShape, GoneStep
<1>2. ThreadOK' /\ SurroundingsOK' /\ faults' \in 0..MaxFaults
  BY ThreadStepTyped, SurroundingsTyped, FaultsTyped
<1>3. imports' \in [Message -> Nat] /\ endings' \in [Message -> SUBSET Ending]
  BY RunsTyped, HistoryGrows
<1>4. remote' \in BOOLEAN /\ corrupt' \subseteq Message  BY Parts, Cases DEF siteVars
<1> QED
  BY <1>1, <1>2, <1>3, <1>4
     DEF TypeOK, QueueTypeOK, MsmqTypeOK, ThreadOK, SurroundingsOK, QueuesOK

-----------------------------------------------------------------------------
(* Repetitions.  A step either costs a fault or lets what is on its way out *)
(* go on.                                                                   *)

NotRecalled == \A m \in Owed' : Leaving(m) => Leaving(m)'

Paid == faults' = faults + 1 \/ (faults' = faults /\ NotRecalled)

\* What has an ending after the step is owed no more.
LEMMA FinalNotRecalled ==
  ASSUME TypeOK, Control, Unaccepted, Places, Places', Open, held \in Message,
         MakeFinal(requeued), InTx' = {}, requeued \/ Justified(held, outcome), SameAccepted
  PROVE  NotRecalled
<1>1. CASE requeued  BY <1>1 DEF NotRecalled, Leaving
<1>2. CASE ~requeued
  <2>1. gone'[held] = outcome  BY <1>2, FinalShape
  <2>2. outcome # "none"  BY Typed DEF Outcome, Ending
  <2>3. held \notin Owed'  BY <2>1, <2>2 DEF Places, Settled
  <2> QED BY <2>3 DEF NotRecalled, Leaving
<1> QED BY <1>1, <1>2, Typed

LEMMA StepPaid ==
  ASSUME TypeOK, Control, Unaccepted, Places, Places', Next
  PROVE  Paid
<1> USE DEF Goto, NoFault, Fault
<1>1. CASE Begin \/ WaitAny \/ ScanNext \/ DequeueFails \/ Sleep \/ Restart \/ ScanReceive
  BY <1>1 DEF Begin, WaitAny, ScanNext, DequeueFails, Sleep, Restart, ScanReceive, Control,
              queueVars, TransactionVars, Paid, NotRecalled, Leaving
<1>2. CASE CatchInvalidMessage \/ Run \/ EnqueueErroneous
  BY <1>2 DEF CatchInvalidMessage, Run, EnqueueErroneous, Control, Paid, NotRecalled, Leaving
<1>3. CASE DeleteMessageData
  BY <1>3 DEF DeleteMessageData, TransactionVars, Paid, NotRecalled, Leaving
<1>4. CASE CommitHandled
  <2>1. /\ pc = "commit" /\ tx = "pending" /\ held \in Message /\ SameAccepted
        /\ requeued \/ Justified(held, outcome)
    BY <1>4 DEF CommitHandled, Control, SameAccepted, submitVars
  <2>2. CASE Commit(requeued) /\ faults' = faults /\ ~remote
    <3>1. MakeFinal(requeued) /\ InTx' = {}  BY <2>2 DEF Commit, InTx
    <3> QED BY <2>1, <2>2, <3>1, FinalNotRecalled DEF Open, Paid
  <2>3. CASE Commit(requeued) /\ faults' = faults /\ remote
    BY <2>3 DEF Commit, Paid, NotRecalled, Leaving
  <2>4. CASE CommitThrows  BY <2>4 DEF CommitThrows, Paid
  <2> QED BY <1>4, <2>2, <2>3, <2>4 DEF CommitHandled
<1>5. CASE RollbackNothing
  BY <1>5, Sites DEF RollbackNothing, Control, Paid, NotRecalled, Leaving
<1>6. CASE EndUsing
  <2>1. pc = "dispose"  BY <1>6 DEF EndUsing
  <2>2. CASE DisposeCommits(requeued) /\ faults' = faults
    <3>1. /\ InTx' = {} /\ SameAccepted /\ MakeFinal(requeued) /\ tx = "complete"
      BY <1>6, <2>2 DEF EndUsing, DisposeCommits, EndTransaction, InTx, SameAccepted, submitVars
    <3> QED BY <2>2, <3>1, FinalNotRecalled DEF Open, Control, Paid
  <2>3. CASE tx # "complete" /\ faults' = faults
    BY <2>1, <2>3 DEF Paid, NotRecalled, Leaving
  <2>4. CASE faults' = faults + 1  BY <2>4 DEF Paid
  <2> QED BY <1>6, <2>2, <2>3, <2>4 DEF EndUsing, DisposeNothing
<1>7. CASE Crash  BY <1>7 DEF Crash, Paid
<1>8. CASE (Submitters \/ Administration) /\ UNCHANGED threadVars
  <2>1. UNCHANGED <<tx, held, requeued, outcome>> /\ (faults' = faults \/ faults' = faults + 1)
    BY <1>8 DEF Submitters, StorePayload, SubmitFails, PayloadDisappears, SubmitImport,
                Administration, GetAll, Delete, SaveAndImport, TransactionVars
  <2> QED BY <1>8, <2>1 DEF Paid, NotRecalled, Leaving, threadVars
<1> QED BY <1>1, <1>2, <1>3, <1>4, <1>5, <1>6, <1>7, <1>8, Cases DEF Still

LEMMA RunsStep ==
  ASSUME TypeOK, Control, Unaccepted, Places, RunsPaid, Next
  PROVE  RunsPaid'
<1>n. imports \in [Message -> Nat] /\ faults \in Nat
  <2>1. faults \in 0..MaxFaults /\ MaxFaults \in Nat  BY Parts, MsmqQueueAssumption
  <2>2. faults \in Nat  BY <2>1
  <2> QED BY <2>2, Typed
<1>1. Shape /\ Places' /\ Paid  BY StepShape, PlacesStep, StepPaid
<1>2. CASE Run
  <2>1. /\ held \in Message /\ held' = held /\ UNCHANGED <<faults, queue, tx, requeued>>
        /\ imports' = IF outcome' = "ok" THEN [imports EXCEPT ![held] = @ + 1] ELSE imports
    BY <1>2, RunNotes
  <2>2. pc = "run" /\ tx = "pending" /\ ~requeued /\ pc' = AfterRun(outcome')
    BY <1>2 DEF Run, Control, Goto
  <2>3. Owed' = Owed  BY <2>1 DEF Owed, Waiting, Contents, InTx
  <2>4. held \in Owed  BY <2>1, <2>2, HeldOwed DEF Open
  <2>5. \A m \in Message : ~Leaving(m)  BY <2>2 DEF Leaving
  <2>6. imports[held] <= faults /\ imports[held] \in Nat
    BY <1>n, <2>1, <2>4, <2>5 DEF RunsPaid
  <2>7. CASE outcome' = "ok"
    <3>1. Leaving(held)'
      <4>1. AfterRun("ok") = "delete"  BY DEF AfterRun, Ending
      <4> QED BY <2>1, <2>2, <2>7, <4>1 DEF Leaving
    <3>2. imports' = [imports EXCEPT ![held] = @ + 1]  BY <2>1, <2>7
    <3>3. imports'[held] = imports[held] + 1  BY <1>n, <2>1, <3>2
    <3>4. \A m \in Message : m # held => imports'[m] = imports[m]  BY <1>n, <3>2
    <3>5. imports'[held] <= 1 + faults'
      <4>1. faults' = faults  BY <2>1
      <4> QED BY <1>n, <2>6, <3>3, <4>1
    <3> QED BY <2>1, <2>3, <2>5, <3>1, <3>4, <3>5 DEF RunsPaid
  <2>8. CASE outcome' # "ok"
    BY <2>1, <2>3, <2>5, <2>8 DEF RunsPaid
  <2> QED BY <2>7, <2>8
<1>3. CASE ~Run
  <2>1. imports' = imports  BY <1>3, HistoryUntouched
  <2> SUFFICES ASSUME NEW m \in Message
               PROVE  /\ imports'[m] <= 1 + faults'
                      /\ m \in Owed' /\ ~Leaving(m)' => imports'[m] <= faults'
    BY DEF RunsPaid
  <2>2. imports[m] \in Nat /\ imports'[m] = imports[m] /\ imports[m] <= 1 + faults
    BY <1>n, <2>1 DEF RunsPaid
  <2>3. CASE faults' = faults + 1
    <3>1. imports'[m] <= 1 + faults' /\ imports'[m] <= faults'  BY <1>n, <2>2, <2>3
    <3> QED BY <3>1
  <2>4. CASE faults' = faults /\ NotRecalled
    <3>1. m \in Owed' => m \in Owed \/ imports[m] = 0
      BY <1>1 DEF Shape, Quiet, Accepts, Settles, Unaccepted
    <3>2. 0 <= faults  BY <1>n
    <3>3. m \in Owed' /\ ~Leaving(m)' => ~Leaving(m)  BY <2>4 DEF NotRecalled
    <3> QED BY <2>2, <2>4, <3>1, <3>2, <3>3 DEF RunsPaid
  <2> QED BY <1>1, <2>3, <2>4 DEF Paid
<1> QED BY <1>2, <1>3

-----------------------------------------------------------------------------
(* The abstract inbox.                                                      *)

\* Here an ending is for ever, so the refinement mapping is the history itself.
LEMMA EndedIsGone ==
  ASSUME TypeOK, Places
  PROVE  [m \in Message |-> IF InSystem(m) THEN "none" ELSE gone[m]] = gone
<1>1. \A m \in Message : InSystem(m) => gone[m] = "none"
  BY DEF Places, Settled, InSystem, Owed
<1> QED BY <1>1, Typed

LEMMA EndedIsGoneNext ==
  ASSUME TypeOK', Places'
  PROVE  [m \in Message |-> IF InSystem(m)' THEN "none" ELSE gone'[m]] = gone'
<1>1. gone' \in [Message -> Reason \cup {"none"}]  BY DEF TypeOK, QueueTypeOK
<1>2. \A m \in Message : InSystem(m)' => gone'[m] = "none"
  BY DEF Places, Settled, InSystem, Owed
<1> QED BY <1>1, <1>2

\* Messages whose import has been run to success.
Delivered == {m \in Message : imports[m] > 0}

LEMMA RunDelivers ==
  ASSUME TypeOK, Control, Unaccepted, Places, Next
  PROVE  \/ Delivered' = Delivered
         \/ \E m \in Owed : /\ Delivered' = Delivered \cup {m}
                            /\ Owed' = Owed /\ gone' = gone
<1>0. imports \in [Message -> Nat]  BY Typed
<1>1. CASE Run
  <2>1. /\ held \in Message /\ held' = held /\ UNCHANGED <<queue, tx, gone>>
        /\ imports' = imports \/ imports' = [imports EXCEPT ![held] = @ + 1]
    BY <1>1, RunNotes
  <2>2. held \in Owed  BY <1>1, <2>1, HeldOwed DEF Run, Control, Open
  <2>3. Owed' = Owed  BY <2>1 DEF Owed, Waiting, Contents, InTx
  <2>4. CASE imports' = imports  BY <2>4 DEF Delivered
  <2>5. CASE imports' = [imports EXCEPT ![held] = @ + 1]
    <3>1. imports'[held] = imports[held] + 1  BY <1>0, <2>1, <2>5
    <3>2. imports'[held] > 0
      <4>1. imports[held] \in Nat  BY <1>0, <2>1
      <4> QED BY <3>1, <4>1
    <3>3. \A m \in Message : m # held => imports'[m] = imports[m]  BY <1>0, <2>5
    <3>4. Delivered' = Delivered \cup {held}  BY <2>1, <3>2, <3>3 DEF Delivered
    <3> QED BY <2>1, <2>2, <2>3, <3>4
  <2> QED BY <2>1, <2>4, <2>5
<1>2. CASE ~Run  BY <1>2, HistoryUntouched DEF Delivered
<1> QED BY <1>1, <1>2

LEMMA ImplementsStep ==
  ASSUME TypeOK, Control, Unaccepted, OkIsARun, Places, TypeOK', Places', Next
  PROVE  [Delivery!Next]_(Delivery!vars)
<1> DEFINE ended == [m \in Message |-> IF InSystem(m) THEN "none" ELSE gone[m]]
<1>0. ended = gone /\ ended' = gone'  BY EndedIsGone, EndedIsGoneNext
<1>1. Owed = Waiting \cup InTx /\ Owed' = Waiting' \cup InTx'  BY DEF Owed
<1>2. Delivered = {m \in Message : imports[m] > 0}  BY DEF Delivered
<1>3. Delivered' = {m \in Message : imports'[m] > 0}  BY DEF Delivered
<1>4. Shape /\ gone \in [Message -> Reason \cup {"none"}]  BY StepShape, Typed
<1> HIDE DEF ended
<1>5. CASE \E m \in Owed : Delivered' = Delivered \cup {m} /\ Owed' = Owed /\ gone' = gone
  <2>1. PICK m \in Owed : Delivered' = Delivered \cup {m} /\ Owed' = Owed /\ gone' = gone
    BY <1>5
  <2>2. m \in Message
    <3>1. QueuesOK /\ InTx \subseteq Message  BY Typed DEF InTx
    <3>2. Waiting \subseteq Message  BY <3>1, ContentsTyped DEF Waiting
    <3> QED BY <3>1, <3>2 DEF Owed
  <2>3. Delivery!Deliver(m)
    BY <1>0, <1>1, <1>2, <1>3, <2>1 DEF Delivery!Deliver, ended
  <2> QED BY <2>2, <2>3 DEF Delivery!Next
<1>6. CASE Delivered' = Delivered
  <2>1. CASE Quiet
    BY <1>0, <1>1, <1>2, <1>3, <1>6, <2>1 DEF Quiet, Delivery!vars, ended
  <2>2. CASE \E m \in Message : Accepts(m)
    <3>1. PICK m \in Message : Accepts(m)  BY <2>2
    <3>2. m \notin Owed /\ gone[m] = "none"  BY <3>1 DEF Accepts, Unaccepted
    <3>3. Delivery!Accept(m)
      BY <1>0, <1>1, <1>2, <1>3, <1>6, <3>1, <3>2 DEF Accepts, Delivery!Accept, ended
    <3> QED BY <3>3 DEF Delivery!Next
  <2>3. CASE \E S \in SUBSET Owed : \E reason \in Reason : Settles(S, reason)
    <3>1. PICK S \in SUBSET Owed, reason \in Reason : Settles(S, reason)  BY <2>3
    <3>2. gone' = [m \in Message |-> IF m \in S THEN reason ELSE gone[m]]
      BY <3>1 DEF Settles
    <3>3. CASE S = {}
      <4>1. Owed' = Owed /\ gone' = gone  BY <1>4, <3>1, <3>2, <3>3 DEF Settles
      <4> QED BY <1>0, <1>1, <1>2, <1>3, <1>6, <4>1 DEF Delivery!vars, ended
    <3>4. CASE S # {}
      <4>1. reason = "ok" => S \subseteq Delivered
        <5>1. S \subseteq Message
          <6>1. QueuesOK /\ InTx \subseteq Message  BY Typed DEF InTx
          <6>2. Waiting \subseteq Message  BY <6>1, ContentsTyped DEF Waiting
          <6> QED BY <6>1, <6>2 DEF Owed
        <5>2. reason = "ok" => \A m \in S : "ok" \in endings[m]
          BY <3>1 DEF Settles, Justified
        <5> QED BY <5>1, <5>2 DEF OkIsARun, Delivered
      <4>2. Owed' = Owed \ S  BY <3>1 DEF Settles
      <4>3. Delivery!Settle(S)
        BY <1>0, <1>1, <1>2, <1>3, <1>6, <3>2, <3>4, <4>1, <4>2 DEF Delivery!Settle, ended
      <4> QED BY <1>1, <4>3 DEF Delivery!Next
    <3> QED BY <3>3, <3>4
  <2> QED BY <1>4, <2>1, <2>2, <2>3 DEF Shape
<1> QED BY <1>5, <1>6, RunDelivers

-----------------------------------------------------------------------------
(* The theorems.                                                            *)

LEMMA InitHolds == ASSUME Init PROVE IInv
<1>0. \A p \in QueueName : queue[p] = <<>>  BY DEF Init, QueueInit, MsmqInit
<1>1. QueuesOK  BY DEF Init, QueueInit, MsmqInit, QueuesOK
<1>2. Owed = {}
  <2>1. ToSet(<<>>) = {}  BY DEF ToSet
  <2>2. \A p \in QueueName : Contents(p) = {}  BY <1>0, <2>1 DEF Contents
  <2>3. Waiting = {}  BY <2>2 DEF Waiting
  <2>4. InTx = {}  BY DEF Init, QueueInit, MsmqInit, InTx
  <2> QED BY <2>3, <2>4 DEF Owed
<1>3. TypeOK
  <2>1. 0 \in 0..MaxFaults /\ 0 \in 0..MaxResubmits /\ 0 \in Nat
    BY MsmqQueueAssumption, ImportQueueAssumption
  <2>2. remote \in BOOLEAN /\ corrupt \subseteq Message
    BY MsmqQueueAssumption DEF Init, QueueInit, MsmqInit
  <2>3. ThreadOK
    BY Sites DEF Init, QueueInit, MsmqInit, ThreadOK, Priority, Outcome, Ending
  <2>4. SurroundingsOK  BY <2>1 DEF Init, QueueInit, SurroundingsOK
  <2>5. /\ gone \in [Message -> Reason \cup {"none"}]
        /\ endings \in [Message -> SUBSET Ending]
    BY DEF Init, QueueInit, MsmqInit
  <2>6. imports \in [Message -> Nat] /\ faults \in 0..MaxFaults
    BY <2>1 DEF Init, QueueInit, MsmqInit
  <2> QED BY <1>1, <2>2, <2>3, <2>4, <2>5, <2>6, Parts
<1>4. Control  BY DEF Init, QueueInit, MsmqInit, Control
<1>5. Unaccepted /\ OkIsARun /\ NoImportLost /\ PayloadKept
  BY <1>2 DEF Init, QueueInit, MsmqInit, Unaccepted, OkIsARun, NoImportLost, PayloadKept
<1>6. Places  BY InitPlaces DEF Init, QueueInit, Places
<1>7. RunsPaid
  <2>1. 0 <= 1 + 0 /\ 0 <= 0  OBVIOUS
  <2>2. faults = 0 /\ \A m \in Message : imports[m] = 0  BY DEF Init, QueueInit, MsmqInit
  <2> QED BY <2>1, <2>2 DEF RunsPaid
<1> QED BY <1>3, <1>4, <1>5, <1>6, <1>7 DEF IInv

LEMMA Stutters == ASSUME IInv, UNCHANGED vars PROVE IInv' /\ [Delivery!Next]_(Delivery!vars)
<1>0. UNCHANGED <<queue, tx, held, heldFrom, requeued, outcome, faults, gone, stage, payload,
                  lost, listed, resubmits, imports, endings, pc, scanAt, moreWork, escaping,
                  remote, corrupt>>
  BY DEF vars, queueVars, TransactionVars, submitVars, adminVars, historyVars, threadVars, siteVars
<1>1. Waiting' = Waiting /\ InTx' = InTx /\ Owed' = Owed /\ \A p : Contents(p)' = Contents(p)
  BY <1>0 DEF Owed, Waiting, InTx, Contents
<1>2. TypeOK'
  <2>1. MsmqTypeOK'  BY <1>0 DEF IInv, TypeOK, QueueTypeOK, MsmqTypeOK
  <2>2. QueueTypeOK'  BY <1>0, <2>1 DEF IInv, TypeOK, QueueTypeOK
  <2> QED BY <1>0, <2>2 DEF IInv, TypeOK
<1>3. Control' /\ OkIsARun' /\ PayloadKept'
  <2>0. UNCHANGED <<pc, tx, held, requeued, outcome, endings, corrupt>>  BY <1>0
  <2>1. Control'  BY <2>0 DEF IInv, Control, Justified
  <2>2. OkIsARun' /\ PayloadKept'  BY <1>0 DEF IInv, OkIsARun, PayloadKept
  <2> QED BY <2>1, <2>2
<1>4. Unaccepted' /\ NoImportLost'
  BY <1>0, <1>1 DEF IInv, Unaccepted, NoImportLost, InSystem
<1>5. Places'  BY <1>0, <1>1 DEF IInv, Places, Unique, Settled
<1>6. RunsPaid'  BY <1>0, <1>1 DEF IInv, RunsPaid, Leaving
<1>7. UNCHANGED Delivery!vars
  BY <1>0, <1>1 DEF Delivery!vars, InSystem
<1> QED BY <1>2, <1>3, <1>4, <1>5, <1>6, <1>7 DEF IInv

\* The inductive invariant: types, the state of the transaction at every
\* statement of ProcessNextImportMessage, and the place, payload and runs of
\* every import.
THEOREM Invariance == Spec => []IInv
<1>1. Init => IInv  BY InitHolds
<1>2. IInv /\ [Next]_vars => IInv'
  <2>1. ASSUME IInv, Next  PROVE IInv'
    <3>1. TypeOK' /\ Control' /\ Unaccepted' /\ Places'
      BY <2>1, TypeStep, ControlStep, UnacceptedStep, PlacesStep DEF IInv
    <3>2. Kept /\ Kept'  BY <2>1, KeptIsNoImportLost, KeptStep DEF IInv
    <3>3. NoImportLost'
      <4>1. gone' \in [Message -> Reason \cup {"none"}]  BY <3>1 DEF TypeOK, QueueTypeOK
      <4> QED BY <3>2, <4>1 DEF NoImportLost, Kept, InSystem, Owed, Justified
    <3>4. OkIsARun' /\ PayloadKept' /\ RunsPaid'
      BY <2>1, OkStep, PayloadStep, RunsStep DEF IInv
    <3> QED BY <3>1, <3>3, <3>4 DEF IInv
  <2> QED BY <2>1, Stutters
<1> QED BY <1>1, <1>2, PTL DEF Spec

\* Whatever the service, the submitters and the administration tool do, the
\* state stays typed.
THEOREM TypeCorrect == Spec => []TypeOK
BY Invariance, PTL DEF IInv

\* No accepted import is lost between the queues, the transactions, the catch
\* blocks, the administration tool and the crashes.
THEOREM NothingLost == Spec => []NoImportLost
BY Invariance, PTL DEF IInv

\* Every run of an import but one is paid for by a fault, however often it is
\* moved to the error queue and back.
THEOREM Repetitions == Spec => []ImportedOncePerFault
<1>1. IInv => ImportedOncePerFault  BY DEF IInv, RunsPaid, ImportedOncePerFault
<1> QED BY <1>1, Invariance, PTL

\* A sequence without a repetition has as many entries as elements.
LEMMA InjectiveCardinality ==
  ASSUME NEW S, NEW s \in Seq(S), IsInjective(s)
  PROVE  Cardinality(ToSet(s)) = Len(s)
<1>1. Len(s) \in Nat /\ DOMAIN s = 1..Len(s)  OBVIOUS
<1>2. s \in [1..Len(s) -> ToSet(s)] /\ \A x \in ToSet(s) : \E i \in 1..Len(s) : s[i] = x
  BY <1>1 DEF ToSet
<1>3. ExistsBijection(1..Len(s), ToSet(s))
  BY <1>2 DEF ExistsBijection, Bijection, Injection, Surjection
<1> QED BY <1>1, <1>3, FS_CountingElements

\* However an import is moved between the queues and by whom, there is one of it.
THEOREM OneCopy == Spec => []SingleCopy
<1>1. IInv => SingleCopy
  <2> SUFFICES ASSUME IInv  PROVE SingleCopy
    OBVIOUS
  <2>1. QueuesOK /\ Unique  BY Typed DEF IInv, Places
  <2>2. \A p \in QueueName : Cardinality(Contents(p)) = Len(queue[p])
    BY <2>1, InjectiveCardinality DEF QueuesOK, Unique, Contents
  <2> QED BY <2>1, <2>2 DEF Unique, SingleCopy
<1> QED BY <1>1, Invariance, PTL

\* What can still be received has its payload, unless handling it has already
\* come to an end or something else took the payload.
THEOREM PayloadWaits == Spec => []PayloadUntilHandled
<1>1. IInv => PayloadUntilHandled
  <2> SUFFICES ASSUME IInv, NEW m \in Message, InSystem(m), m \notin payload \cup lost
               PROVE  endings[m] # {}
    BY DEF PayloadUntilHandled
  <2>1. stage[m] = "accepted"  BY DEF IInv, Unaccepted, InSystem, Owed
  <2> QED BY <2>1 DEF IInv, PayloadKept
<1> QED BY <1>1, Invariance, PTL

\* Import queues, error queue, transactions and the administration tool are an
\* inbox: it accepts an import once, settles it once and says "ok" only of what
\* an import application has taken.
THEOREM Implements == Spec => DeliverySpec
<1>1. Init => Delivery!Init
  <2> SUFFICES ASSUME Init  PROVE Delivery!Init
    OBVIOUS
  <2>1. IInv  BY InitHolds
  <2>2. \A m \in Message : stage[m] = "new" /\ imports[m] = 0 /\ gone[m] = "none"
    BY DEF Init, QueueInit, MsmqInit
  <2>3. ~(0 > 0)  OBVIOUS
  <2>4. Owed = {}
    <3>1. \A m \in Message : m \notin Owed  BY <2>1, <2>2 DEF IInv, Unaccepted
    <3>2. QueuesOK /\ InTx \subseteq Message  BY <2>1, Typed DEF IInv, InTx
    <3>3. Waiting \subseteq Message  BY <3>2, ContentsTyped DEF Waiting
    <3> QED BY <3>1, <3>2, <3>3 DEF Owed
  <2> QED BY <2>2, <2>3, <2>4 DEF Delivery!Init, Owed
<1>2. IInv /\ IInv' /\ [Next]_vars => [Delivery!Next]_(Delivery!vars)
  <2>1. ASSUME IInv, IInv', Next  PROVE [Delivery!Next]_(Delivery!vars)
    BY <2>1, ImplementsStep DEF IInv
  <2> QED BY <2>1, Stutters
<1> QED BY <1>1, <1>2, Invariance, PTL DEF Spec, DeliverySpec, Delivery!Spec
=============================================================================
