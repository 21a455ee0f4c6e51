-------------------------- MODULE MsmqQueueProofs --------------------------
(***************************************************************************)
(* What the operations on the queues and on the dequeue transaction do to  *)
(* the set of messages a component still owes to somebody, whichever       *)
(* component performs them.                                                *)
(***************************************************************************)
EXTENDS MsmqQueue, SequenceTheorems, TLAPS

Owed == Waiting \cup InTx

QueuesOK == queue \in [QueueName -> Seq(Message)]

-----------------------------------------------------------------------------
(* Sequences.                                                               *)

LEMMA AppendElements ==
  ASSUME NEW S, NEW s \in Seq(S), NEW e \in S
  PROVE  /\ Append(s, e) \in Seq(S)
         /\ ToSet(Append(s, e)) = ToSet(s) \cup {e}
<1>1. Len(Append(s, e)) = Len(s) + 1  OBVIOUS
<1>2. \A i \in 1..Len(s) : Append(s, e)[i] = s[i]  OBVIOUS
<1>3. Append(s, e)[Len(s) + 1] = e  OBVIOUS
<1>4. Len(s) \in Nat  OBVIOUS
<1> QED BY <1>1, <1>2, <1>3, <1>4 DEF ToSet

LEMMA HeadTailElements ==
  ASSUME NEW S, NEW s \in Seq(S), s # <<>>
  PROVE  /\ Head(s) \in S
         /\ Tail(s) \in Seq(S)
         /\ ToSet(s) = ToSet(Tail(s)) \cup {Head(s)}
<1>1. Len(s) \in Nat /\ Len(s) >= 1  OBVIOUS
<1>2. Len(Tail(s)) = Len(s) - 1  OBVIOUS
<1>3. \A i \in 1..Len(Tail(s)) : Tail(s)[i] = s[i + 1]  OBVIOUS
<1>4. Head(s) = s[1]  OBVIOUS
<1>5. ToSet(s) \subseteq ToSet(Tail(s)) \cup {Head(s)}
  <2> SUFFICES ASSUME NEW i \in 1..Len(s)
               PROVE  s[i] \in ToSet(Tail(s)) \cup {Head(s)}
    BY DEF ToSet
  <2>1. CASE i = 1  BY <2>1, <1>4
  <2>2. CASE i # 1
    <3>0. i - 1 \in 1..Len(Tail(s)) /\ (i - 1) + 1 = i  BY <2>2, <1>1, <1>2
    <3>1. i - 1 \in 1..Len(Tail(s)) /\ Tail(s)[i - 1] = s[i]  BY <3>0, <1>3, Zenon
    <3>2. DOMAIN Tail(s) = 1..Len(Tail(s))  OBVIOUS
    <3> QED BY <3>1, <3>2 DEF ToSet
  <2> QED BY <2>1, <2>2
<1>6. ToSet(Tail(s)) \cup {Head(s)} \subseteq ToSet(s)
  BY <1>1, <1>2, <1>3, <1>4 DEF ToSet
<1> QED BY <1>5, <1>6

LEMMA TailDiffers ==
  ASSUME NEW S, NEW s \in Seq(S), s # <<>>
  PROVE  Tail(s) # s
<1>1. Len(s) \in Nat /\ Len(Tail(s)) = Len(s) - 1  OBVIOUS
<1>2. \A n \in Nat : n # n - 1  OBVIOUS
<1>3. Len(Tail(s)) # Len(s)  BY <1>1, <1>2
<1> QED BY <1>3, Zenon

LEMMA ElementsIn ==
  ASSUME NEW S, NEW s \in Seq(S), NEW t \in Seq(S),
         \A i \in 1..Len(s) : \E j \in 1..Len(t) : t[j] = s[i]
  PROVE  ToSet(s) \subseteq ToSet(t)
BY DEF ToSet

LEMMA PrependAt ==
  ASSUME NEW S, NEW s \in Seq(S), NEW e \in S
  PROVE  /\ <<e>> \o s \in Seq(S)
         /\ Len(<<e>> \o s) = Len(s) + 1
         /\ (<<e>> \o s)[1] = e
         /\ \A i \in 1..Len(s) : (<<e>> \o s)[i + 1] = s[i]
<1> DEFINE t == <<e>> \o s
<1>1. <<e>> \in Seq(S) /\ Len(<<e>>) = 1 /\ <<e>>[1] = e  OBVIOUS
<1>2. Len(s) \in Nat  OBVIOUS
<1>3. /\ t \in Seq(S)
      /\ Len(t) = Len(s) + 1
      /\ \A i \in 1..(Len(s) + 1) : t[i] = IF i <= 1 THEN <<e>>[i] ELSE s[i - 1]
  BY <1>1, <1>2, ConcatProperties
<1> HIDE DEF t
<1>4. t[1] = e  BY <1>1, <1>2, <1>3
<1>5. ASSUME NEW i \in 1..Len(s)  PROVE t[i + 1] = s[i]
  <2>1. i + 1 \in 1..(Len(s) + 1) /\ ~(i + 1 <= 1) /\ (i + 1) - 1 = i  BY <1>2
  <2> QED BY <2>1, <1>3
<1> QED BY <1>3, <1>4, <1>5 DEF t

LEMMA PrependElements ==
  ASSUME NEW S, NEW s \in Seq(S), NEW e \in S
  PROVE  /\ <<e>> \o s \in Seq(S)
         /\ ToSet(<<e>> \o s) = ToSet(s) \cup {e}
<1> DEFINE t == <<e>> \o s
<1>1. t \in Seq(S) /\ Len(t) = Len(s) + 1 /\ t[1] = e /\ Len(s) \in Nat
  BY PrependAt
<1>2. \A i \in 1..Len(s) : t[i + 1] = s[i] /\ i + 1 \in 1..Len(t)
  BY <1>1, PrependAt
<1> HIDE DEF t
<1>3. ToSet(t) \subseteq ToSet(s) \cup {e}
  <2> SUFFICES ASSUME NEW i \in 1..Len(t)
               PROVE  t[i] \in ToSet(s) \cup {e}
    BY DEF ToSet
  <2>1. CASE i = 1  BY <2>1, <1>1
  <2>2. CASE i # 1
    <3>1. i - 1 \in 1..Len(s) /\ (i - 1) + 1 = i  BY <2>2, <1>1
    <3>2. t[i] = s[i - 1]  BY <3>1, <1>2
    <3> QED BY <3>1, <3>2 DEF ToSet
  <2> QED BY <2>1, <2>2
<1>4. ToSet(s) \subseteq ToSet(t)  BY <1>1, <1>2, ElementsIn
<1>5. e \in ToSet(t)  BY <1>1 DEF ToSet
<1>6. ToSet(t) = ToSet(s) \cup {e}  BY <1>3, <1>4, <1>5
<1> QED BY <1>1, <1>6 DEF t

\* What removing position i does to the others.
LEMMA RemoveAtPositions ==
  ASSUME NEW S, NEW s \in Seq(S), NEW i \in 1..Len(s)
  PROVE  /\ RemoveAt(s, i) \in Seq(S)
         /\ Len(RemoveAt(s, i)) = Len(s) - 1
         /\ \A j \in 1..Len(RemoveAt(s, i)) :
              RemoveAt(s, i)[j] = s[IF j < i THEN j ELSE j + 1]
<1> DEFINE a == SubSeq(s, 1, i - 1)
           b == SubSeq(s, i + 1, Len(s))
           t == a \o b
<1>1. Len(s) \in Nat /\ i \in Nat /\ i >= 1 /\ i <= Len(s)  OBVIOUS
<1>2. a \in Seq(S) /\ Len(a) = i - 1 /\ \A j \in 1..(i - 1) : a[j] = s[j]
  BY <1>1
<1>3. b \in Seq(S) /\ Len(b) = Len(s) - i /\ \A j \in 1..(Len(s) - i) : b[j] = s[i + j]
  BY <1>1
<1> HIDE DEF a, b
<1>4. /\ t \in Seq(S)
      /\ Len(t) = Len(a) + Len(b)
      /\ \A j \in 1..(Len(a) + Len(b)) : t[j] = IF j <= Len(a) THEN a[j] ELSE b[j - Len(a)]
  BY <1>2, <1>3, ConcatProperties
<1> HIDE DEF t
<1>5. Len(t) = Len(s) - 1  BY <1>1, <1>2, <1>3, <1>4
<1>6. ASSUME NEW j \in 1..Len(t), j < i  PROVE t[j] = s[j]
  <2>1. j \in 1..(Len(a) + Len(b)) /\ j <= Len(a) /\ j \in 1..(i - 1)
    BY <1>1, <1>2, <1>3, <1>5, <1>6
  <2> QED BY <2>1, <1>2, <1>4
<1>7. ASSUME NEW j \in 1..Len(t), j >= i  PROVE t[j] = s[j + 1]
  <2> DEFINE k == j - Len(a)
  <2>1. j \in 1..(Len(a) + Len(b)) /\ ~(j <= Len(a)) /\ k \in 1..(Len(s) - i) /\ i + k = j + 1
    BY <1>1, <1>2, <1>3, <1>5, <1>7
  <2>2. t[j] = b[k]  BY <2>1, <1>4
  <2> HIDE DEF k
  <2>3. b[k] = s[i + k]  BY <2>1, <1>3
  <2> QED BY <2>1, <2>2, <2>3
<1>8. \A j \in 1..Len(t) : t[j] = s[IF j < i THEN j ELSE j + 1]
  <2> SUFFICES ASSUME NEW j \in 1..Len(t)  PROVE t[j] = s[IF j < i THEN j ELSE j + 1]
    OBVIOUS
  <2>1. j < i \/ j >= i  BY <1>1, <1>5
  <2> QED BY <2>1, <1>6, <1>7
<1>9. t = RemoveAt(s, i)  BY DEF RemoveAt, a, b, t
<1> QED BY <1>4, <1>5, <1>8, <1>9

\* Removing one element by its position keeps every other one.
LEMMA RemoveElements ==
  ASSUME NEW S, NEW s \in Seq(S), NEW i \in 1..Len(s)
  PROVE  /\ RemoveAt(s, i) \in Seq(S)
         /\ ToSet(s) \ {s[i]} \subseteq ToSet(RemoveAt(s, i))
         /\ ToSet(RemoveAt(s, i)) \subseteq ToSet(s)
<1> DEFINE t == RemoveAt(s, i)
           was(j) == IF j < i THEN j ELSE j + 1
           is(k) == IF k < i THEN k ELSE k - 1
<1>1. /\ t \in Seq(S) /\ Len(t) = Len(s) - 1
      /\ \A j \in 1..Len(t) : t[j] = s[was(j)]
  BY RemoveAtPositions
<1>2. Len(s) \in Nat /\ i \in Nat /\ i >= 1 /\ i <= Len(s)  OBVIOUS
<1> HIDE DEF t
<1>3. \A j \in 1..Len(t) : was(j) \in 1..Len(s)  BY <1>1, <1>2
<1>4. \A k \in 1..Len(s) : k # i => is(k) \in 1..Len(t) /\ was(is(k)) = k
  BY <1>1, <1>2
<1> HIDE DEF was, is
<1>5. ToSet(t) \subseteq ToSet(s)  BY <1>1, <1>3, ElementsIn
<1>6. ToSet(s) \ {s[i]} \subseteq ToSet(t)
  <2> SUFFICES ASSUME NEW k \in 1..Len(s), s[k] # s[i]
               PROVE  \E j \in 1..Len(t) : t[j] = s[k]
    BY DEF ToSet
  <2>1. is(k) \in 1..Len(t) /\ was(is(k)) = k  BY <1>4
  <2> QED BY <2>1, <1>1
<1> QED BY <1>1, <1>5, <1>6 DEF t

-----------------------------------------------------------------------------
(* Sequences without a repetition keep that.                                *)

LEMMA AppendInjectiveSeq ==
  ASSUME NEW S, NEW s \in Seq(S), NEW e \in S, IsInjective(s), e \notin ToSet(s)
  PROVE  IsInjective(Append(s, e))
<1>1. Len(Append(s, e)) = Len(s) + 1  OBVIOUS
<1>2. \A i \in 1..Len(s) : Append(s, e)[i] = s[i] /\ s[i] # e  BY DEF ToSet
<1>3. Append(s, e)[Len(s) + 1] = e  OBVIOUS
<1>4. Len(s) \in Nat  OBVIOUS
<1> QED BY <1>1, <1>2, <1>3, <1>4 DEF IsInjective

LEMMA TailInjectiveSeq ==
  ASSUME NEW S, NEW s \in Seq(S), s # <<>>, IsInjective(s)
  PROVE  IsInjective(Tail(s)) /\ Head(s) \notin ToSet(Tail(s))
<1>1. Len(s) \in Nat /\ Len(s) >= 1  OBVIOUS
<1>2. Len(Tail(s)) = Len(s) - 1  OBVIOUS
<1>3. \A i \in 1..Len(Tail(s)) : Tail(s)[i] = s[i + 1]  OBVIOUS
<1>4. Head(s) = s[1]  OBVIOUS
<1>5. \A i \in 1..Len(Tail(s)) : i + 1 \in 1..Len(s)  BY <1>1, <1>2
<1>6. IsInjective(Tail(s))  BY <1>1, <1>2, <1>3, <1>5 DEF IsInjective
<1>7. Head(s) \notin ToSet(Tail(s))
  BY <1>1, <1>2, <1>3, <1>4, <1>5 DEF IsInjective, ToSet
<1> QED BY <1>6, <1>7

LEMMA PrependInjectiveSeq ==
  ASSUME NEW S, NEW s \in Seq(S), NEW e \in S, IsInjective(s), e \notin ToSet(s)
  PROVE  IsInjective(<<e>> \o s)
<1> DEFINE t == <<e>> \o s
<1>1. t \in Seq(S) /\ Len(t) = Len(s) + 1 /\ t[1] = e /\ Len(s) \in Nat
  BY PrependAt
<1>2. \A i \in 1..Len(s) : t[i + 1] = s[i]  BY PrependAt
<1>3. \A i \in 1..Len(s) : s[i] # e  BY DEF ToSet
<1> HIDE DEF t
<1>4. \A i \in 2..Len(t) : i - 1 \in 1..Len(s) /\ t[i] = s[i - 1] /\ t[i] # e
  <2> SUFFICES ASSUME NEW i \in 2..Len(t)
               PROVE  i - 1 \in 1..Len(s) /\ t[i] = s[i - 1] /\ t[i] # e
    OBVIOUS
  <2>1. i - 1 \in 1..Len(s) /\ (i - 1) + 1 = i  BY <1>1
  <2> QED BY <2>1, <1>2, <1>3
<1>5. DOMAIN t = 1..Len(t) /\ DOMAIN s = 1..Len(s)  BY <1>1
<1>6. ASSUME NEW i \in 1..Len(t), NEW j \in 1..Len(t), t[i] = t[j]  PROVE i = j
  <2>1. CASE i = 1 \/ j = 1  BY <1>1, <1>4, <1>6, <2>1
  <2>2. CASE i # 1 /\ j # 1
    <3>1. i \in 2..Len(t) /\ j \in 2..Len(t)  BY <2>2, <1>1
    <3>2. i - 1 = j - 1  BY <3>1, <1>4, <1>5, <1>6 DEF IsInjective
    <3> QED BY <3>1, <3>2
  <2> QED BY <2>1, <2>2
<1>7. IsInjective(t)  BY <1>5, <1>6 DEF IsInjective
<1> QED BY <1>7 DEF t

LEMMA RemoveInjectiveSeq ==
  ASSUME NEW S, NEW s \in Seq(S), NEW i \in 1..Len(s), IsInjective(s)
  PROVE  IsInjective(RemoveAt(s, i)) /\ s[i] \notin ToSet(RemoveAt(s, i))
<1> DEFINE t == RemoveAt(s, i)
           was(j) == IF j < i THEN j ELSE j + 1
<1>1. /\ t \in Seq(S) /\ Len(t) = Len(s) - 1
      /\ \A j \in 1..Len(t) : t[j] = s[was(j)]
  BY RemoveAtPositions
<1>2. Len(s) \in Nat /\ i \in Nat  OBVIOUS
<1> HIDE DEF t
<1>3. /\ \A j \in 1..Len(t) : was(j) \in 1..Len(s) /\ was(j) # i
      /\ \A j, k \in 1..Len(t) : was(j) = was(k) => j = k
  BY <1>1, <1>2
<1> HIDE DEF was
<1>4. DOMAIN t = 1..Len(t) /\ DOMAIN s = 1..Len(s)  BY <1>1
<1>5. IsInjective(t)  BY <1>1, <1>3, <1>4 DEF IsInjective
<1>6. s[i] \notin ToSet(t)  BY <1>1, <1>3, <1>4 DEF IsInjective, ToSet
<1> QED BY <1>5, <1>6 DEF t

-----------------------------------------------------------------------------
(* The queues.                                                              *)

LEMMA QueueUpdated ==
  ASSUME QueuesOK, NEW p \in QueueName, NEW s \in Seq(Message),
         queue' = [queue EXCEPT ![p] = s]
  PROVE  /\ QueuesOK'
         /\ Contents(p)' = ToSet(s)
         /\ \A q \in QueueName \ {p} : Contents(q)' = Contents(q)
<1>1. queue'[p] = s  BY DEF QueuesOK
<1>2. \A q \in QueueName \ {p} : queue'[q] = queue[q]  BY DEF QueuesOK
<1>3. QueuesOK'  BY DEF QueuesOK
<1> QED BY <1>1, <1>2, <1>3 DEF Contents, ToSet

LEMMA QueueChanged ==
  ASSUME QueuesOK, NEW p \in QueueName, NEW s \in Seq(Message),
         queue' = [queue EXCEPT ![p] = s],
         NEW lose, NEW gain,
         ToSet(queue[p]) \ lose \subseteq ToSet(s),
         ToSet(s) \subseteq ToSet(queue[p]) \cup gain
  PROVE  /\ QueuesOK'
         /\ Waiting \ lose \subseteq Waiting'
         /\ Waiting' \subseteq Waiting \cup gain
         /\ ToSet(s) \subseteq Waiting'
<1>1. /\ QueuesOK'
      /\ Contents(p)' = ToSet(s)
      /\ \A q \in QueueName \ {p} : Contents(q)' = Contents(q)
  BY QueueUpdated
<1>2. Contents(p) = ToSet(queue[p])  BY DEF Contents, ToSet
<1>3. \A x : x \in Waiting <=> \E q \in QueueName : x \in Contents(q)  BY DEF Waiting
<1>4. \A x : x \in Waiting' <=> \E q \in QueueName : x \in Contents(q)'  BY DEF Waiting
<1>5. Waiting \ lose \subseteq Waiting'
  <2> SUFFICES ASSUME NEW x \in Waiting, x \notin lose  PROVE x \in Waiting'
    OBVIOUS
  <2>1. PICK q \in QueueName : x \in Contents(q)  BY <1>3
  <2>2. x \in Contents(q)'
    <3>1. CASE q = p  BY <3>1, <2>1, <1>1, <1>2
    <3>2. CASE q # p  BY <3>2, <2>1, <1>1
    <3> QED BY <3>1, <3>2
  <2> QED BY <2>2, <1>4
<1>6. Waiting' \subseteq Waiting \cup gain
  <2> SUFFICES ASSUME NEW x \in Waiting', x \notin gain  PROVE x \in Waiting
    OBVIOUS
  <2>1. PICK q \in QueueName : x \in Contents(q)'  BY <1>4
  <2>2. x \in Contents(q)
    <3>1. CASE q = p  BY <3>1, <2>1, <1>1, <1>2
    <3>2. CASE q # p  BY <3>2, <2>1, <1>1
    <3> QED BY <3>1, <3>2
  <2> QED BY <2>2, <1>3
<1>7. ToSet(s) \subseteq Waiting'  BY <1>1, <1>4
<1> QED BY <1>1, <1>5, <1>6, <1>7

LEMMA QueueUnchanged ==
  ASSUME QueuesOK, queue' = queue
  PROVE  QueuesOK' /\ Waiting' = Waiting
BY DEF QueuesOK, Waiting, Contents

-----------------------------------------------------------------------------
(* The operations.                                                          *)

Open == tx \in {"pending", "complete"}

LEMMA QueueAt ==
  ASSUME QueuesOK, NEW p \in QueueName
  PROVE  queue[p] \in Seq(Message) /\ ToSet(queue[p]) \subseteq Waiting
BY DEF QueuesOK, Waiting, Contents, ToSet

LEMMA ContentsTyped ==
  ASSUME QueuesOK, NEW p \in QueueName
  PROVE  Contents(p) \subseteq Message
<1>1. queue[p] \in Seq(Message)  BY DEF QueuesOK
<1>2. \A i \in DOMAIN queue[p] : queue[p][i] \in Message  BY <1>1
<1> QED BY <1>2 DEF Contents, ToSet

\* A receive moves the message from the queue into the transaction.
LEMMA ReceiveOwed ==
  ASSUME MsmqQueueAssumption, QueuesOK, NEW p \in QueueName, Receive(p),
         tx = "pending", held = NoMessage
  PROVE  QueuesOK' /\ held' \in Message /\ Owed' = Owed
<1>1. queue[p] \in Seq(Message) /\ queue[p] # <<>>  BY QueueAt DEF Receive
<1> DEFINE s == Tail(queue[p])
<1>2. /\ held' \in Message
      /\ s \in Seq(Message)
      /\ ToSet(queue[p]) = ToSet(s) \cup {held'}
  BY <1>1, HeadTailElements DEF Receive
<1>3. queue' = [queue EXCEPT ![p] = s]  BY DEF Receive
<1> HIDE DEF s
<1>4. QueuesOK' /\ Waiting \ {held'} \subseteq Waiting' /\ Waiting' \subseteq Waiting \cup {}
  BY <1>2, <1>3, QueueChanged, ZenonT(30)
<1>5. held' \in Waiting  BY <1>2, QueueAt
<1>6. InTx = {} /\ InTx' = {held'}
  BY <1>2 DEF InTx, Receive, MsmqQueueAssumption
<1> QED BY <1>2, <1>4, <1>5, <1>6 DEF Owed

\* An abort puts it back.
LEMMA PutBackOwed ==
  ASSUME QueuesOK, heldFrom \in QueueName, held \in Message \cup {NoMessage},
         Open, PutBack, InTx' = {}
  PROVE  QueuesOK' /\ Owed' = Owed
<1>1. CASE held = NoMessage
  BY <1>1, QueueUnchanged DEF PutBack, Owed, InTx
<1>2. CASE held # NoMessage
  <2>1. queue[heldFrom] \in Seq(Message) /\ held \in Message  BY <1>2, QueueAt
  <2> DEFINE s == <<held>> \o queue[heldFrom]
  <2>2. s \in Seq(Message) /\ ToSet(s) = ToSet(queue[heldFrom]) \cup {held}
    BY <2>1, PrependElements
  <2>3. queue' = [queue EXCEPT ![heldFrom] = s]  BY <1>2 DEF PutBack
  <2> HIDE DEF s
  <2>4. /\ QueuesOK'
        /\ Waiting \ {} \subseteq Waiting'
        /\ Waiting' \subseteq Waiting \cup {held}
        /\ ToSet(s) \subseteq Waiting'
    <3>1. ToSet(queue[heldFrom]) \ {} \subseteq ToSet(s)  BY <2>2
    <3>2. ToSet(s) \subseteq ToSet(queue[heldFrom]) \cup {held}  BY <2>2
    <3> QED BY <2>2, <2>3, <3>1, <3>2, QueueChanged, ZenonT(30)
  <2>5. InTx = {held}  BY <1>2 DEF InTx, Open
  <2> QED BY <2>2, <2>4, <2>5 DEF Owed
<1> QED BY <1>1, <1>2

\* A commit gives the message up, except when it is in the other queue now.
LEMMA MakeFinalOwed ==
  ASSUME MsmqQueueAssumption, QueuesOK, held \in Message, Open,
         NEW aside \in BOOLEAN, MakeFinal(aside), InTx' = {}
  PROVE  /\ QueuesOK'
         /\ held \in Owed
         /\ Owed \ {held} \subseteq Owed' /\ Owed' \subseteq Owed
         /\ aside => Owed' = Owed
<1>1. InTx = {held}  BY DEF InTx, Open, MsmqQueueAssumption
<1>2. CASE ~aside
  BY <1>1, <1>2, QueueUnchanged DEF MakeFinal, Owed
<1>3. CASE aside
  <2>1. Aside \in QueueName  BY MsmqQueueAssumption
  <2>2. queue[Aside] \in Seq(Message)  BY <2>1, QueueAt
  <2> DEFINE s == Append(queue[Aside], held)
  <2>3. s \in Seq(Message) /\ ToSet(s) = ToSet(queue[Aside]) \cup {held}
    BY <2>2, AppendElements
  <2>4. queue' = [queue EXCEPT ![Aside] = s]  BY <1>3 DEF MakeFinal
  <2> HIDE DEF s
  <2>5. /\ QueuesOK'
        /\ Waiting \ {} \subseteq Waiting'
        /\ Waiting' \subseteq Waiting \cup {held}
        /\ ToSet(s) \subseteq Waiting'
    <3>1. ToSet(queue[Aside]) \ {} \subseteq ToSet(s)  BY <2>3
    <3>2. ToSet(s) \subseteq ToSet(queue[Aside]) \cup {held}  BY <2>3
    <3> QED BY <2>1, <2>3, <2>4, <3>1, <3>2, QueueChanged, ZenonT(30)
  <2> QED BY <1>1, <2>3, <2>5 DEF Owed
<1> QED BY <1>2, <1>3

-----------------------------------------------------------------------------
(* No message is in two places.                                             *)

Unique ==
  /\ \A p \in QueueName : IsInjective(queue[p])
  /\ \A p, q \in QueueName : p # q => Contents(p) \cap Contents(q) = {}
  /\ InTx \cap Waiting = {}

\* A message that has an ending is nowhere.
Settled == \A m \in Message : gone[m] # "none" => m \notin Owed

\* What one step may do to the queues, the transaction and the endings.
Rests == queue' = queue /\ InTx' = InTx /\ gone' = gone

Takes(p) ==
  /\ queue[p] # <<>> /\ queue' = [queue EXCEPT ![p] = Tail(@)]
  /\ InTx = {} /\ InTx' = {Head(queue[p])} /\ gone' = gone

Returns(p, m) ==
  /\ queue' = [queue EXCEPT ![p] = <<m>> \o @]
  /\ InTx = {m} /\ InTx' = {} /\ gone' = gone

Arrives(p, m) ==
  /\ m \notin Waiting /\ gone[m] = "none"
  /\ queue' = [queue EXCEPT ![p] = Append(@, m)]
  /\ InTx' = InTx \ {m} /\ gone' = gone

LetsGo(m, reason) ==
  /\ queue' = queue
  /\ InTx = {m} /\ InTx' = {} /\ gone' = [gone EXCEPT ![m] = reason]

Removes(p, i, reason) ==
  /\ queue' = [queue EXCEPT ![p] = RemoveAt(@, i)]
  /\ InTx' = InTx /\ gone' = [gone EXCEPT ![queue[p][i]] = reason]

\* Every move but a receive; R: why a message is taken out of a queue.
Keeps(R) ==
  \/ Rests
  \/ \E p \in QueueName, m \in Message : Returns(p, m)
  \/ \E p \in QueueName, m \in Message : Arrives(p, m)
  \/ \E m \in Message : \E reason : LetsGo(m, reason)
  \/ \E p \in QueueName : \E i \in 1..Len(queue[p]) : \E reason \in R :
       Removes(p, i, reason)

Moves(R) == Keeps(R) \/ \E p \in QueueName : Takes(p)

LEMMA UniqueUpdated ==
  ASSUME QueuesOK, Unique, NEW p \in QueueName, NEW s \in Seq(Message),
         queue' = [queue EXCEPT ![p] = s], IsInjective(s), NEW gain,
         ToSet(s) \subseteq ToSet(queue[p]) \cup gain,
         \A q \in QueueName \ {p} : gain \cap Contents(q) = {}
  PROVE  /\ \A q \in QueueName : IsInjective(queue'[q])
         /\ \A q, r \in QueueName : q # r => Contents(q)' \cap Contents(r)' = {}
<1>1. /\ Contents(p)' = ToSet(s)
      /\ \A q \in QueueName \ {p} : Contents(q)' = Contents(q)
  BY QueueUpdated
<1>2. Contents(p) = ToSet(queue[p])  BY DEF Contents, ToSet
<1>3. \A q \in QueueName \ {p} : Contents(p)' \cap Contents(q)' = {}
  BY <1>1, <1>2 DEF Unique
<1>4. queue'[p] = s /\ \A q \in QueueName \ {p} : queue'[q] = queue[q]  BY DEF QueuesOK
<1> QED BY <1>1, <1>3, <1>4 DEF Unique

\* A queue that only loses messages.
LEMMA UniqueShrunk ==
  ASSUME QueuesOK, Unique, NEW p \in QueueName, NEW s \in Seq(Message),
         queue' = [queue EXCEPT ![p] = s], IsInjective(s), ToSet(s) \subseteq ToSet(queue[p])
  PROVE  /\ \A q \in QueueName : IsInjective(queue'[q])
         /\ \A q, r \in QueueName : q # r => Contents(q)' \cap Contents(r)' = {}
<1> DEFINE gain == {}
<1>1. ToSet(s) \subseteq ToSet(queue[p]) \cup gain  OBVIOUS
<1>2. \A q \in QueueName \ {p} : gain \cap Contents(q) = {}  OBVIOUS
<1> HIDE DEF gain
<1> QED BY <1>1, <1>2, UniqueUpdated, ZenonT(30)

LEMMA InQueue ==
  ASSUME NEW x
  PROVE  /\ x \in Waiting <=> \E q \in QueueName : x \in Contents(q)
         /\ x \in Waiting' <=> \E q \in QueueName : x \in Contents(q)'
BY DEF Waiting

LEMMA TakesUnique ==
  ASSUME QueuesOK, Unique, NEW p \in QueueName, Takes(p)
  PROVE  QueuesOK' /\ Unique' /\ Owed' = Owed
<1> DEFINE s == Tail(queue[p])
           h == Head(queue[p])
<1>1. queue[p] \in Seq(Message) /\ queue[p] # <<>>  BY QueueAt DEF Takes
<1>2. /\ h \in Message /\ s \in Seq(Message)
      /\ ToSet(queue[p]) = ToSet(s) \cup {h}
  BY <1>1, HeadTailElements
<1>3. IsInjective(s) /\ h \notin ToSet(s)  BY <1>1, TailInjectiveSeq DEF Unique
<1>4. queue' = [queue EXCEPT ![p] = s] /\ InTx = {} /\ InTx' = {h}  BY DEF Takes
<1> HIDE DEF s, h
<1>5. /\ QueuesOK'
      /\ Contents(p)' = ToSet(s)
      /\ \A q \in QueueName \ {p} : Contents(q)' = Contents(q)
  BY <1>2, <1>4, QueueUpdated
<1>6. Contents(p) = ToSet(queue[p])  BY DEF Contents, ToSet
<1>7. /\ \A q \in QueueName : IsInjective(queue'[q])
      /\ \A q, r \in QueueName : q # r => Contents(q)' \cap Contents(r)' = {}
  <2>1. ToSet(s) \subseteq ToSet(queue[p]) \cup {}  BY <1>2
  <2>2. \A q \in QueueName \ {p} : {} \cap Contents(q) = {}  OBVIOUS
  <2> QED BY <1>2, <1>3, <1>4, <2>1, <2>2, UniqueUpdated, ZenonT(30)
<1>8. h \notin Waiting'
  <2>1. \A q \in QueueName \ {p} : h \notin Contents(q)  BY <1>2, <1>6 DEF Unique
  <2> QED BY <1>3, <1>5, <2>1, InQueue
<1>9. Waiting = Waiting' \cup {h}
  <2>1. \A x : x \in Waiting <=> \E q \in QueueName : x \in Contents(q)  BY InQueue
  <2>2. \A x : x \in Waiting' <=> \E q \in QueueName : x \in Contents(q)'  BY InQueue
  <2> QED BY <1>2, <1>5, <1>6, <2>1, <2>2
<1>10. Unique'  BY <1>4, <1>7, <1>8 DEF Unique
<1>11. Owed' = Owed  BY <1>4, <1>9 DEF Owed
<1> QED BY <1>5, <1>10, <1>11

LEMMA ReturnsUnique ==
  ASSUME QueuesOK, Unique, NEW p \in QueueName, NEW m \in Message, Returns(p, m)
  PROVE  QueuesOK' /\ Unique' /\ Owed' = Owed
<1> DEFINE s == <<m>> \o queue[p]
<1>1. queue[p] \in Seq(Message)  BY QueueAt
<1>2. s \in Seq(Message) /\ ToSet(s) = ToSet(queue[p]) \cup {m}  BY <1>1, PrependElements
<1>3. queue' = [queue EXCEPT ![p] = s] /\ InTx = {m} /\ InTx' = {}  BY DEF Returns
<1>4. m \notin Waiting  BY <1>3 DEF Unique
<1>5. ToSet(queue[p]) = Contents(p) /\ m \notin ToSet(queue[p])
  BY <1>4, InQueue DEF Contents, ToSet
<1>6. IsInjective(s)  BY <1>1, <1>5, PrependInjectiveSeq DEF Unique
<1> HIDE DEF s
<1>7. /\ QueuesOK'
      /\ Waiting \ {} \subseteq Waiting'
      /\ Waiting' \subseteq Waiting \cup {m}
      /\ ToSet(s) \subseteq Waiting'
  <2>1. ToSet(queue[p]) \ {} \subseteq ToSet(s)  BY <1>2
  <2>2. ToSet(s) \subseteq ToSet(queue[p]) \cup {m}  BY <1>2
  <2> QED BY <1>2, <1>3, <2>1, <2>2, QueueChanged, ZenonT(30)
<1>8. /\ \A q \in QueueName : IsInjective(queue'[q])
      /\ \A q, r \in QueueName : q # r => Contents(q)' \cap Contents(r)' = {}
  <2>1. ToSet(s) \subseteq ToSet(queue[p]) \cup {m}  BY <1>2
  <2>2. \A q \in QueueName \ {p} : {m} \cap Contents(q) = {}  BY <1>4, InQueue
  <2> QED BY <1>2, <1>3, <1>6, <2>1, <2>2, UniqueUpdated, ZenonT(30)
<1>9. Unique'  BY <1>3, <1>8 DEF Unique
<1>10. Owed' = Owed  BY <1>2, <1>3, <1>7 DEF Owed
<1> QED BY <1>7, <1>9, <1>10

LEMMA ArrivesUnique ==
  ASSUME QueuesOK, Unique, NEW p \in QueueName, NEW m \in Message, Arrives(p, m)
  PROVE  QueuesOK' /\ Unique' /\ Owed' = Owed \cup {m}
<1> DEFINE s == Append(queue[p], m)
<1>1. queue[p] \in Seq(Message)  BY QueueAt
<1>2. s \in Seq(Message) /\ ToSet(s) = ToSet(queue[p]) \cup {m}  BY <1>1, AppendElements
<1>3. queue' = [queue EXCEPT ![p] = s] /\ InTx' = InTx \ {m} /\ m \notin Waiting
  BY DEF Arrives
<1>5. ToSet(queue[p]) = Contents(p) /\ m \notin ToSet(queue[p])
  BY <1>3, InQueue DEF Contents, ToSet
<1>6. IsInjective(s)  BY <1>1, <1>5, AppendInjectiveSeq DEF Unique
<1> HIDE DEF s
<1>7. /\ QueuesOK'
      /\ Waiting \ {} \subseteq Waiting'
      /\ Waiting' \subseteq Waiting \cup {m}
      /\ ToSet(s) \subseteq Waiting'
  <2>1. ToSet(queue[p]) \ {} \subseteq ToSet(s)  BY <1>2
  <2>2. ToSet(s) \subseteq ToSet(queue[p]) \cup {m}  BY <1>2
  <2> QED BY <1>2, <1>3, <2>1, <2>2, QueueChanged, ZenonT(30)
<1>8. /\ \A q \in QueueName : IsInjective(queue'[q])
      /\ \A q, r \in QueueName : q # r => Contents(q)' \cap Contents(r)' = {}
  <2>1. ToSet(s) \subseteq ToSet(queue[p]) \cup {m}  BY <1>2
  <2>2. \A q \in QueueName \ {p} : {m} \cap Contents(q) = {}  BY <1>3, InQueue
  <2> QED BY <1>2, <1>3, <1>6, <2>1, <2>2, UniqueUpdated, ZenonT(30)
<1>9. Unique'  BY <1>3, <1>7, <1>8 DEF Unique
<1>10. Owed' = Owed \cup {m}  BY <1>2, <1>3, <1>7 DEF Owed
<1> QED BY <1>7, <1>9, <1>10

LEMMA RemovesUnique ==
  ASSUME QueuesOK, Unique, NEW p \in QueueName, NEW i \in 1..Len(queue[p]), NEW reason,
         Removes(p, i, reason)
  PROVE  /\ QueuesOK' /\ Unique'
         /\ queue[p][i] \in Message /\ queue[p][i] \in Owed /\ Owed' = Owed \ {queue[p][i]}
<1> DEFINE s == RemoveAt(queue[p], i)
           m == queue[p][i]
<1>1. queue[p] \in Seq(Message)  BY QueueAt
<1>2. /\ s \in Seq(Message)
      /\ ToSet(queue[p]) \ {m} \subseteq ToSet(s)
      /\ ToSet(s) \subseteq ToSet(queue[p])
  BY <1>1, RemoveElements
<1>3. IsInjective(s) /\ m \notin ToSet(s)  BY <1>1, RemoveInjectiveSeq DEF Unique
<1>4. m \in Message /\ m \in ToSet(queue[p]) /\ m \in Waiting  BY <1>1, QueueAt DEF ToSet
<1>5. queue' = [queue EXCEPT ![p] = s] /\ InTx' = InTx  BY DEF Removes
<1> HIDE DEF s, m
<1>6. /\ QueuesOK'
      /\ Waiting \ {m} \subseteq Waiting'
      /\ Waiting' \subseteq Waiting \cup {}
  <2>1. ToSet(s) \subseteq ToSet(queue[p]) \cup {}  BY <1>2
  <2> QED BY <1>2, <1>5, <2>1, QueueChanged, ZenonT(30)
<1>7. /\ \A q \in QueueName : IsInjective(queue'[q])
      /\ \A q, r \in QueueName : q # r => Contents(q)' \cap Contents(r)' = {}
  <2>1. ToSet(s) \subseteq ToSet(queue[p]) \cup {}  BY <1>2
  <2>2. \A q \in QueueName \ {p} : {} \cap Contents(q) = {}  OBVIOUS
  <2> QED BY <1>2, <1>3, <1>5, <2>1, <2>2, UniqueUpdated, ZenonT(30)
<1>8. m \notin Waiting'
  <2>1. ToSet(queue[p]) = Contents(p)  BY DEF Contents, ToSet
  <2>2. \A q \in QueueName \ {p} : m \notin Contents(q)  BY <1>4, <2>1 DEF Unique
  <2>3. /\ Contents(p)' = ToSet(s)
        /\ \A q \in QueueName \ {p} : Contents(q)' = Contents(q)
    BY <1>2, <1>5, QueueUpdated
  <2> QED BY <1>3, <2>2, <2>3, InQueue
<1>9. m \notin InTx  BY <1>4 DEF Unique
<1>10. Unique'  BY <1>5, <1>6, <1>7 DEF Unique
<1>11. m \in Owed /\ Owed' = Owed \ {m}
  BY <1>4, <1>5, <1>6, <1>8, <1>9 DEF Owed
<1> QED BY <1>4, <1>6, <1>10, <1>11 DEF m

LEMMA LetsGoUnique ==
  ASSUME QueuesOK, Unique, NEW m \in Message, NEW reason, LetsGo(m, reason)
  PROVE  QueuesOK' /\ Unique' /\ m \in Owed /\ Owed' = Owed \ {m}
<1>1. QueuesOK' /\ Waiting' = Waiting /\ queue' = queue  BY QueueUnchanged DEF LetsGo
<1>2. \A p \in QueueName : Contents(p)' = Contents(p)  BY <1>1 DEF Contents
<1> QED BY <1>1, <1>2 DEF LetsGo, Unique, Owed

LEMMA RestsUnique ==
  ASSUME QueuesOK, Unique, Rests
  PROVE  QueuesOK' /\ Unique' /\ Owed' = Owed
<1>1. QueuesOK' /\ Waiting' = Waiting /\ queue' = queue  BY QueueUnchanged DEF Rests
<1>2. \A p \in QueueName : Contents(p)' = Contents(p)  BY <1>1 DEF Contents
<1> QED BY <1>1, <1>2 DEF Rests, Unique, Owed

\* No move makes a second copy, and an ending is for ever.
LEMMA MovesUnique ==
  ASSUME QueuesOK, NEW G, gone \in [Message -> G], Unique, Settled, NEW R, Moves(R)
  PROVE  QueuesOK' /\ Unique' /\ Settled'
<1>1. CASE Rests
  BY <1>1, RestsUnique DEF Settled, Rests
<1>2. CASE \E p \in QueueName : Takes(p)
  BY <1>2, TakesUnique DEF Settled, Takes
<1>3. CASE \E p \in QueueName, m \in Message : Returns(p, m)
  BY <1>3, ReturnsUnique DEF Settled, Returns
<1>4. CASE \E p \in QueueName, m \in Message : Arrives(p, m)
  BY <1>4, ArrivesUnique DEF Settled, Arrives
<1>5. CASE \E m \in Message : \E reason : LetsGo(m, reason)
  BY <1>5, LetsGoUnique DEF Settled, LetsGo
<1>6. CASE \E p \in QueueName : \E i \in 1..Len(queue[p]) : \E reason \in R : Removes(p, i, reason)
  <2>1. PICK p \in QueueName : \E i \in 1..Len(queue[p]) : \E reason \in R : Removes(p, i, reason)
    BY <1>6
  <2>2. PICK i \in 1..Len(queue[p]) : \E reason \in R : Removes(p, i, reason)  BY <2>1
  <2>3. PICK reason \in R : Removes(p, i, reason)  BY <2>2
  <2>4. /\ QueuesOK' /\ Unique'
        /\ queue[p][i] \in Message /\ queue[p][i] \in Owed /\ Owed' = Owed \ {queue[p][i]}
    BY <2>3, RemovesUnique
  <2>5. gone' = [gone EXCEPT ![queue[p][i]] = reason]  BY <2>3 DEF Removes
  <2>6. Settled'  BY <2>4, <2>5 DEF Settled
  <2> QED BY <2>4, <2>6
<1> QED BY <1>1, <1>2, <1>3, <1>4, <1>5, <1>6 DEF Moves, Keeps

LEMMA EndedForEver ==
  ASSUME QueuesOK, NEW G, gone \in [Message -> G], Unique, Settled, NEW R, Moves(R),
         NEW m \in Message, gone[m] # "none"
  PROVE  gone'[m] = gone[m]
<1>1. m \notin Owed  BY DEF Settled
<1>2. CASE gone' = gone  BY <1>2
<1>3. CASE \E x \in Message : \E reason : LetsGo(x, reason)
  BY <1>1, <1>3, LetsGoUnique DEF LetsGo
<1>4. CASE \E p \in QueueName : \E i \in 1..Len(queue[p]) : \E reason \in R :
             Removes(p, i, reason)
  <2>1. PICK p \in QueueName : \E i \in 1..Len(queue[p]) : \E reason \in R :
               Removes(p, i, reason)
    BY <1>4
  <2>2. PICK i \in 1..Len(queue[p]) : \E reason \in R : Removes(p, i, reason)  BY <2>1
  <2>3. PICK reason \in R : Removes(p, i, reason)  BY <2>2
  <2>4. queue[p][i] \in Owed  BY <2>3, RemovesUnique
  <2>5. gone' = [gone EXCEPT ![queue[p][i]] = reason] /\ queue[p][i] # m
    BY <1>1, <2>3, <2>4 DEF Removes
  <2> QED BY <2>5
<1> QED BY <1>2, <1>3, <1>4 DEF Moves, Keeps, Rests, Takes, Returns, Arrives

-----------------------------------------------------------------------------
(* The transaction's operations are such moves.                             *)

LEMMA ReceiveTakes ==
  ASSUME MsmqQueueAssumption, QueuesOK, NEW p \in QueueName, Receive(p),
         tx = "pending", held = NoMessage, gone' = gone
  PROVE  Takes(p)
<1>1. queue[p] \in Seq(Message) /\ queue[p] # <<>>  BY QueueAt DEF Receive
<1>2. held' \in Message  BY <1>1, HeadTailElements DEF Receive
<1> QED BY <1>1, <1>2 DEF Takes, Receive, InTx, MsmqQueueAssumption

LEMMA PutBackReturns ==
  ASSUME NEW R, heldFrom \in QueueName, held \in Message \cup {NoMessage},
         Open, PutBack, InTx' = {}
  PROVE  Keeps(R)
<1>1. CASE held = NoMessage  BY <1>1 DEF PutBack, InTx, Rests, Keeps
<1>2. CASE held # NoMessage  BY <1>2 DEF PutBack, InTx, Open, Returns, Keeps
<1> QED BY <1>1, <1>2

\* aside: what was sent on was sent in the transaction that ends.
LEMMA MakeFinalMoves ==
  ASSUME NEW R, MsmqQueueAssumption, Unique, Settled, held \in Message, Open,
         NEW aside \in BOOLEAN, aside <=> requeued, MakeFinal(aside), InTx' = {}
  PROVE  Keeps(R)
<1>1. InTx = {held} /\ held \notin Waiting /\ gone[held] = "none"
  BY DEF InTx, Open, MsmqQueueAssumption, Unique, Settled, Owed
<1>2. CASE aside
  <2>1. Arrives(Aside, held)  BY <1>1, <1>2 DEF Arrives, MakeFinal
  <2> QED BY <2>1, MsmqQueueAssumption DEF Keeps
<1>3. CASE ~aside
  <2>1. held # NoMessage  BY MsmqQueueAssumption
  <2>2. LetsGo(held, outcome)  BY <1>1, <1>3, <2>1 DEF LetsGo, MakeFinal
  <2> QED BY <2>2 DEF Keeps
<1> QED BY <1>2, <1>3

\* With empty queues every message is nowhere.
LEMMA InitPlaces == ASSUME MsmqInit PROVE Unique /\ Settled
<1>1. \A p \in QueueName : queue[p] = <<>>  BY DEF MsmqInit
<1>2. ToSet(<<>>) = {} /\ IsInjective(<<>>)  BY DEF ToSet, IsInjective
<1>3. \A p \in QueueName : Contents(p) = {} /\ IsInjective(queue[p])
  BY <1>1, <1>2 DEF Contents
<1>4. InTx = {}  BY DEF MsmqInit, InTx
<1> QED BY <1>3, <1>4 DEF Unique, Settled, MsmqInit
=============================================================================
