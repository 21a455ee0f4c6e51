----------------------- MODULE Tase2TransferSetProofs -----------------------
(***************************************************************************)
(* What Tase2TransferSet promises, for any number of clients, transfer     *)
(* sets and points, for every way to enable a set and every size of its    *)
(* event queue.  The first part is about the context of one set, the       *)
(* second about the server thread and the lock.                            *)
(***************************************************************************)
EXTENDS Tase2TransferSet, FiniteSetTheorems, TLAPS

\* A set stores changes of its points, either as bits or as events.
Stores(x) ==
  /\ x \in EnabledContext
  /\ Len(x.events) <= MaxEvents
  /\ x.due \subseteq Points(x.cfg.dataSet)
  /\ x.cfg.all => x.bits = {}
  /\ ~x.cfg.all => x.events = <<>>

\* The points that the next report of changes has.
Stored(x) == AtPlaces(x.cfg.dataSet, x.bits) \cup Contents(x.events)

Sends(x) ==
  \/ x.started
  \/ x.cfg.interval /\ x.cfg.periodic
  \/ x.cfg.integrity /\ x.cfg.rbe
  \/ Silent(x.cfg)

OwesOnly(x, points) == points \subseteq Stored(x) /\ (points # {} => Sends(x))

Good(x) == Stores(x) /\ (Aligned(x.cfg.dataSet) => OwesOnly(x, x.due \ x.lost))

-----------------------------------------------------------------------------
(* Data sets.                                                               *)

\* Without a refused entry in front of it an entry has the same place in the data set and
\* among the accepted entries.
LEMMA AlignedPlace ==
  ASSUME NEW ds \in Seq(Point \cup {Refused}), Aligned(ds), NEW k \in Accepted(ds)
  PROVE  Place(ds, k) = k
<1>1. Len(ds) \in Nat /\ k \in 1..Len(ds)  BY DEF Accepted
<1>2. {i \in 1..k : ds[i] # Refused} = 1..k  BY DEF Aligned
<1>3. Cardinality(1..k) = k  BY <1>1, FS_Interval
<1> QED  BY <1>2, <1>3 DEF Place

LEMMA AlignedDataSet ==
  ASSUME NEW ds \in Seq(Point \cup {Refused}), Aligned(ds), NEW bits, NEW p \in Points(ds)
  PROVE  /\ InPlace(ds) = Points(ds)
         /\ AtPlaces(ds, bits \cup Entry(ds, p)) = AtPlaces(ds, bits) \cup {p}
<1>1. \A k \in Accepted(ds) : Place(ds, k) = k  BY AlignedPlace
<1>2. InPlace(ds) = Points(ds)  BY <1>1 DEF InPlace, Points
<1>3. PICK k \in Accepted(ds) : ds[k] = p  BY DEF Points
<1>4. k \in Entry(ds, p)  BY <1>3 DEF Entry, Accepted
<1>5. p \in AtPlaces(ds, bits \cup Entry(ds, p))  BY <1>1, <1>3, <1>4 DEF AtPlaces
<1>6. AtPlaces(ds, bits \cup Entry(ds, p)) = AtPlaces(ds, bits) \cup {p}
  BY <1>1, <1>5 DEF AtPlaces, Entry
<1> QED  BY <1>2, <1>6

LEMMA EntryType ==
  ASSUME NEW ds \in Seq(Point \cup {Refused}), NEW p
  PROVE  Entry(ds, p) \in SUBSET Nat
<1>1. Len(ds) \in Nat  OBVIOUS
<1> QED  BY <1>1 DEF Entry

LEMMA DataSetType ==
  ASSUME NEW x \in EnabledContext
  PROVE  x.cfg \in Config /\ x.cfg.dataSet \in Seq(Point \cup {Refused})
<1>1. x.cfg \in Config  BY DEF EnabledContext
<1>2. x.cfg \in ConfigType  BY <1>1, TransferSetAssumption
<1> QED  BY <1>1, <1>2 DEF ConfigType

-----------------------------------------------------------------------------
(* Event queues.                                                            *)

LEMMA AppendIn ==
  ASSUME NEW T, NEW seq \in Seq(T), NEW e \in T
  PROVE  Append(seq, e) \in Seq(T)
OBVIOUS

LEMMA AppendContents ==
  ASSUME NEW seq \in Seq(Point), NEW p \in Point
  PROVE  /\ Append(seq, p) \in Seq(Point) /\ Len(Append(seq, p)) = Len(seq) + 1
         /\ Contents(Append(seq, p)) = Contents(seq) \cup {p}
<1> DEFINE t == Append(seq, p)
<1>1. t \in Seq(Point) /\ Len(t) = Len(seq) + 1 /\ t[Len(seq) + 1] = p
      /\ \A i \in 1..Len(seq) : t[i] = seq[i]
  OBVIOUS
<1>2. Len(seq) \in Nat  OBVIOUS
<1> HIDE DEF t
<1>3. 1..Len(t) = (1..Len(seq)) \cup {Len(seq) + 1}  BY <1>1, <1>2
<1>4. Contents(t) = Contents(seq) \cup {p}  BY <1>1, <1>2, <1>3 DEF Contents
<1> QED  BY <1>1, <1>4 DEF t

LEMMA TailContents ==
  ASSUME NEW seq \in Seq(Point), seq # <<>>
  PROVE  /\ Tail(seq) \in Seq(Point) /\ Len(Tail(seq)) = Len(seq) - 1 /\ Head(seq) \in Point
         /\ Contents(seq) = Contents(Tail(seq)) \cup {Head(seq)}
<1> DEFINE t == Tail(seq)
<1>1. Len(seq) \in Nat \ {0} /\ t \in Seq(Point) /\ Len(t) = Len(seq) - 1
      /\ Head(seq) = seq[1] /\ seq[1] \in Point
      /\ \A i \in 1..(Len(seq) - 1) : t[i] = seq[i + 1]
  OBVIOUS
<1> HIDE DEF t
<1>2. ASSUME NEW e \in Contents(seq) PROVE e \in Contents(t) \cup {Head(seq)}
  <2>1. PICK i \in 1..Len(seq) : e = seq[i]  BY DEF Contents
  <2>2. CASE i = 1  BY <1>1, <2>1, <2>2
  <2>3. CASE i # 1
    <3>1. i - 1 \in 1..Len(t) /\ t[i - 1] = seq[i]  BY <1>1, <2>3
    <3> QED  BY <2>1, <3>1 DEF Contents
  <2> QED  BY <2>2, <2>3
<1>3. ASSUME NEW e \in Contents(t) PROVE e \in Contents(seq)
  <2>1. PICK i \in 1..Len(t) : e = t[i]  BY DEF Contents
  <2>2. i + 1 \in 1..Len(seq) /\ e = seq[i + 1]  BY <1>1, <2>1
  <2> QED  BY <2>2 DEF Contents
<1>4. Head(seq) \in Contents(seq)  BY <1>1 DEF Contents
<1>5. Contents(seq) = Contents(t) \cup {Head(seq)}  BY <1>2, <1>3, <1>4
<1> QED  BY <1>1, <1>5 DEF t

-----------------------------------------------------------------------------
(* The context of one set.                                                  *)

LEMMA ReportFields ==
  ASSUME NEW x \in EnabledContext, NEW points
  PROVE  /\ Report(x, points) \in EnabledContext
         /\ Report(x, points).cfg = x.cfg /\ Report(x, points).bits = x.bits
         /\ Report(x, points).events = x.events /\ Report(x, points).started = x.started
         /\ Report(x, points).due = x.due \ points /\ Report(x, points).lost = x.lost \ points
<1> DEFINE out == IF x.cfg.critical THEN Append(x.outstanding, FALSE) ELSE x.outstanding
<1>1. out \in Seq(BOOLEAN)
  <2>1. x.outstanding \in Seq(BOOLEAN)  BY DEF EnabledContext
  <2>2. Append(x.outstanding, FALSE) \in Seq(BOOLEAN)  BY <2>1, AppendIn, Zenon
  <2> QED  BY <2>1, <2>2
<1>2. Report(x, points)
        = [x EXCEPT !.outstanding = out, !.due = x.due \ points, !.lost = x.lost \ points]
  <2>1. "due" \in DOMAIN x /\ "lost" \in DOMAIN x  BY DEF EnabledContext
  <2> QED  BY <2>1 DEF Report
<1> HIDE DEF out
<1>3. x.due \ points \in SUBSET Point /\ x.lost \ points \in SUBSET Point
  BY DEF EnabledContext
<1> QED  BY <1>1, <1>2, <1>3 DEF EnabledContext

\* A report pays what it reports, and nothing else changes.
LEMMA ReportGood ==
  ASSUME NEW x, Good(x), NEW points
  PROVE  Good(Report(x, points))
BY ReportFields DEF Good, Stores, OwesOnly, Stored, Sends

LEMMA SendDataSetGood ==
  ASSUME NEW x, Good(x)
  PROVE  /\ Good(SendDataSet(x)) /\ SendDataSet(x).cfg = x.cfg
         /\ Aligned(x.cfg.dataSet) => SendDataSet(x).due = {}
<1>1. x \in EnabledContext /\ x.due \subseteq Points(x.cfg.dataSet)  BY DEF Good, Stores
<1>2. ASSUME Aligned(x.cfg.dataSet) PROVE x.due \ InPlace(x.cfg.dataSet) = {}
  <2>1. ASSUME NEW p \in x.due PROVE p \in InPlace(x.cfg.dataSet)
    BY <1>1, <1>2, DataSetType, AlignedDataSet
  <2> QED  BY <2>1
<1> QED  BY <1>1, <1>2, ReportGood, ReportFields DEF SendDataSet

\* All that is stored is sent: nothing is owed any more.
LEMMA SendBothGood ==
  ASSUME NEW x, Good(x)
  PROVE  LET y == SendBoth(x) IN
         Good(y) /\ y.cfg = x.cfg /\ (Aligned(x.cfg.dataSet) => y.due \ y.lost = {})
<1>1. x \in EnabledContext  BY DEF Good, Stores
<1>2. CASE ~x.cfg.rbe
  <2>1. SendBoth(x) = SendDataSet(x)  BY <1>2 DEF SendBoth
  <2> QED  BY <2>1, SendDataSetGood
<1>3. CASE x.cfg.rbe /\ ~x.cfg.all
  <2> DEFINE sent == AtPlaces(x.cfg.dataSet, x.bits)
             y == Report(x, sent)
  <2>1. SendBoth(x) = y  BY <1>3 DEF SendBoth, SendChanged
  <2>2. Good(y) /\ y.cfg = x.cfg /\ y.due = x.due \ sent /\ y.lost = x.lost \ sent
    BY <1>1, ReportGood, ReportFields
  <2>3. Stored(x) = sent
    <3>1. x.events = <<>>  BY <1>3 DEF Good, Stores
    <3> QED  BY <3>1 DEF Stored, Contents
  <2>4. Aligned(x.cfg.dataSet) => y.due \ y.lost = {}  BY <2>2, <2>3 DEF Good, OwesOnly
  <2> QED  BY <2>1, <2>2, <2>4
<1>4. CASE x.cfg.rbe /\ x.cfg.all
  <2> DEFINE sent == Contents(x.events)
             z == Report(x, sent)
             y == [z EXCEPT !.events = <<>>]
  <2>1. SendBoth(x) = y  BY <1>4 DEF SendBoth, SendChanged
  <2>2. z \in EnabledContext /\ z.cfg = x.cfg /\ z.bits = x.bits
        /\ z.due = x.due \ sent /\ z.lost = x.lost \ sent
    BY <1>1, ReportFields
  <2>3. Aligned(x.cfg.dataSet) => x.due \ x.lost \subseteq sent
    BY <1>4 DEF Good, Stores, OwesOnly, Stored, AtPlaces
  <2> HIDE DEF z, sent
  <2>4. y \in EnabledContext /\ y.events = <<>> /\ y.cfg = x.cfg /\ y.bits = x.bits
        /\ y.due = x.due \ sent /\ y.lost = x.lost \ sent
    <3>1. <<>> \in Seq(Point)  OBVIOUS
    <3> QED  BY <2>2, <3>1 DEF EnabledContext
  <2>5. Aligned(x.cfg.dataSet) => y.due \ y.lost = {}  BY <2>3, <2>4
  <2> HIDE DEF y
  <2>6. Good(y)
    BY <1>4, <2>4, <2>5, TransferSetAssumption DEF Good, Stores, OwesOnly
  <2> QED  BY <2>1, <2>4, <2>5, <2>6
<1> QED  BY <1>2, <1>3, <1>4

\* The buffer time ends when nothing is owed.
LEMMA BufferOverGood ==
  ASSUME NEW x, Good(x)
  PROVE  Good(BufferOver(x))
<1> DEFINE y == SendBoth(x)
           z == [y EXCEPT !.started = FALSE, !.bits = {}]
<1>1. Good(y) /\ (Aligned(y.cfg.dataSet) => y.due \ y.lost = {})  BY SendBothGood
<1>2. BufferOver(x) = z  BY DEF BufferOver
<1> HIDE DEF y
<1>3. y \in EnabledContext  BY <1>1 DEF Good, Stores
<1>4. z \in EnabledContext /\ z.cfg = y.cfg /\ z.bits = {} /\ z.events = y.events
      /\ z.due = y.due /\ z.lost = y.lost
  BY <1>3 DEF EnabledContext
<1> HIDE DEF z
<1>5. Good(z)  BY <1>1, <1>4 DEF Good, Stores, OwesOnly
<1> QED  BY <1>2, <1>5

LEMMA ExpireGood ==
  ASSUME NEW x, Good(x), x.outstanding # <<>>
  PROVE  Good(Expire(x))
<1> DEFINE out == Tail(x.outstanding)
           count == IF Head(x.outstanding) \/ x.overdue = MaxReports THEN x.overdue
                                                                     ELSE x.overdue + 1
           y == [x EXCEPT !.outstanding = out, !.overdue = count]
<1>1. x \in EnabledContext  BY DEF Good, Stores
<1>2. Expire(x) = y  BY <1>1 DEF Expire, EnabledContext
<1>3. out \in Seq(BOOLEAN)  BY <1>1 DEF EnabledContext
<1>4. count \in 0..MaxReports
  <2>1. x.overdue \in 0..MaxReports /\ MaxReports \in Nat
    BY <1>1, TransferSetAssumption DEF EnabledContext
  <2>2. x.overdue # MaxReports => x.overdue + 1 \in 0..MaxReports  BY <2>1
  <2> QED  BY <2>1, <2>2, Zenon
<1> HIDE DEF out, count
<1>5. y \in EnabledContext /\ y.cfg = x.cfg /\ y.bits = x.bits /\ y.events = x.events
      /\ y.started = x.started /\ y.due = x.due /\ y.lost = x.lost
  BY <1>1, <1>3, <1>4 DEF EnabledContext
<1> HIDE DEF y
<1>6. Good(y)  BY <1>5 DEF Good, Stores, OwesOnly, Stored, Sends
<1> QED  BY <1>2, <1>6

LEMMA HandledGood ==
  ASSUME NEW x, Good(x), NEW expired \in BOOLEAN, NEW interval \in BOOLEAN,
         NEW integrity \in BOOLEAN, NEW over \in BOOLEAN, expired => x.outstanding # <<>>
  PROVE  Good(Handled(x, expired, interval, integrity, over))
<1> DEFINE x1 == IF expired THEN Expire(x) ELSE x
           x2 == IF interval THEN Interval(x1) ELSE x1
           x3 == IF integrity THEN SendDataSet(x2) ELSE x2
           x4 == IF over THEN BufferOver(x3) ELSE x3
<1>1. Good(x1)  BY ExpireGood
<1> HIDE DEF x1
<1>2. Good(x2)  BY <1>1, SendBothGood DEF Interval
<1> HIDE DEF x2
<1>3. Good(x3)  BY <1>2, SendDataSetGood
<1> HIDE DEF x3
<1>4. Good(x4)  BY <1>3, BufferOverGood
<1> QED  BY <1>4 DEF Handled, x1, x2, x3

\* A change is stored; a full queue records what it loses.
LEMMA StoreGood ==
  ASSUME NEW x, Stores(x), NEW p \in Point,
         p \in Points(x.cfg.dataSet), Sends(x),
         Aligned(x.cfg.dataSet) => x.due \ x.lost \subseteq Stored(x) \cup {p}
  PROVE  Good(Store(x, p))
<1>1. x \in EnabledContext /\ x.events \in Seq(Point) /\ x.bits \in SUBSET Nat
      /\ x.lost \in SUBSET Point
  BY DEF Stores, EnabledContext
<1>2. CASE ~x.cfg.all
  <2> DEFINE bits == x.bits \cup Entry(x.cfg.dataSet, p)
             y == [x EXCEPT !.bits = bits]
  <2>1. Store(x, p) = y  BY <1>1, <1>2 DEF Store, EnabledContext
  <2>2. bits \in SUBSET Nat  BY <1>1, DataSetType, EntryType
  <2>3. Aligned(x.cfg.dataSet)
          => AtPlaces(x.cfg.dataSet, bits) = AtPlaces(x.cfg.dataSet, x.bits) \cup {p}
    <3> DEFINE ds == x.cfg.dataSet
    <3>1. ds \in Seq(Point \cup {Refused}) /\ p \in Points(ds)  BY <1>1, DataSetType
    <3> HIDE DEF ds
    <3>2. Aligned(ds) => AtPlaces(ds, x.bits \cup Entry(ds, p)) = AtPlaces(ds, x.bits) \cup {p}
      BY <3>1, AlignedDataSet
    <3> QED  BY <3>2 DEF ds
  <2> HIDE DEF bits
  <2>4. y \in EnabledContext /\ y.bits = bits /\ y.events = x.events
        /\ y.cfg = x.cfg /\ y.started = x.started /\ y.due = x.due /\ y.lost = x.lost
    BY <1>1, <2>2 DEF EnabledContext
  <2> HIDE DEF y
  <2>5. Good(y)  BY <1>2, <2>3, <2>4 DEF Good, Stores, OwesOnly, Stored, Sends
  <2> QED  BY <2>1, <2>5
<1>3. CASE x.cfg.all /\ Len(x.events) < MaxEvents
  <2> DEFINE seq == Append(x.events, p)
             y == [x EXCEPT !.events = seq]
  <2>1. Store(x, p) = y  BY <1>1, <1>3 DEF Store, EnabledContext
  <2>2. /\ seq \in Seq(Point) /\ Contents(seq) = Contents(x.events) \cup {p}
        /\ Len(seq) <= MaxEvents
    BY <1>1, <1>3, AppendContents, TransferSetAssumption
  <2> HIDE DEF seq
  <2>3. y \in EnabledContext /\ y.bits = x.bits /\ y.events = seq
        /\ y.cfg = x.cfg /\ y.started = x.started /\ y.due = x.due /\ y.lost = x.lost
    BY <1>1, <2>2 DEF EnabledContext
  <2> HIDE DEF y
  <2>4. Good(y)  BY <1>3, <2>2, <2>3 DEF Good, Stores, OwesOnly, Stored, Sends
  <2> QED  BY <2>1, <2>4
<1>4. CASE x.cfg.all /\ ~(Len(x.events) < MaxEvents)
  <2> DEFINE rest == Tail(x.events)
             first == Head(x.events)
             seq == Append(rest, p)
             lost == x.lost \cup ({first} \ Contents(seq))
             y == [x EXCEPT !.events = seq, !.lost = lost]
  <2>1. Len(x.events) = MaxEvents /\ Len(x.events) # 0 /\ x.events # <<>>
    BY <1>1, <1>4, TransferSetAssumption DEF Stores
  <2>2. Store(x, p) = y  BY <1>1, <1>4 DEF Store, EnabledContext
  <2>3. rest \in Seq(Point) /\ Len(rest) = MaxEvents - 1 /\ first \in Point
        /\ Contents(x.events) = Contents(rest) \cup {first}
    BY <1>1, <2>1, TailContents
  <2> HIDE DEF rest, first
  <2>4. seq \in Seq(Point) /\ Contents(seq) = Contents(rest) \cup {p} /\ Len(seq) <= MaxEvents
    BY <2>3, AppendContents, TransferSetAssumption
  <2> HIDE DEF seq
  <2>5. lost \in SUBSET Point  BY <1>1, <2>3
  <2>6. Aligned(x.cfg.dataSet)
          => x.due \ lost \subseteq AtPlaces(x.cfg.dataSet, x.bits) \cup Contents(seq)
    BY <2>3, <2>4 DEF Stored
  <2> HIDE DEF lost
  <2>7. y \in EnabledContext /\ y.bits = x.bits /\ y.events = seq
        /\ y.cfg = x.cfg /\ y.started = x.started /\ y.due = x.due /\ y.lost = lost
    BY <1>1, <2>4, <2>5 DEF EnabledContext
  <2> HIDE DEF y
  <2>8. Good(y)  BY <1>4, <2>4, <2>6, <2>7 DEF Good, Stores, OwesOnly, Stored, Sends
  <2> QED  BY <2>2, <2>8
<1> QED  BY <1>2, <1>3, <1>4

\* A change is reported at once, or stored with something that will send it.
LEMMA CheckGood ==
  ASSUME NEW x, Good(x), NEW p \in Point, p \in Points(x.cfg.dataSet)
  PROVE  Good(Check(x, p))
<1> DEFINE y == [x EXCEPT !.due = x.due \cup {p}, !.lost = x.lost \ {p}]
           z == [y EXCEPT !.started = TRUE]
           w == Report(y, {p})
<1>1. x \in EnabledContext  BY DEF Good, Stores
<1>2. y = [x EXCEPT !.due = @ \cup {p}, !.lost = @ \ {p}]  BY <1>1 DEF EnabledContext
<1>3. y \in EnabledContext /\ y.cfg = x.cfg /\ y.bits = x.bits /\ y.events = x.events
      /\ y.started = x.started /\ y.due = x.due \cup {p} /\ y.lost = x.lost \ {p}
  BY <1>1 DEF EnabledContext
<1> HIDE DEF y
<1>4. /\ Stores(y)
      /\ Aligned(y.cfg.dataSet) => y.due \ y.lost \subseteq Stored(y) \cup {p}
  BY <1>3 DEF Good, Stores, OwesOnly, Stored, Sends
<1>5. CASE x.cfg.change /\ x.cfg.buffer
  <2>1. Check(x, p) = Store(z, p)  BY <1>2, <1>5 DEF Check
  <2>2. z \in EnabledContext /\ z.cfg = y.cfg /\ z.bits = y.bits /\ z.events = y.events
        /\ z.started = TRUE /\ z.due = y.due /\ z.lost = y.lost
    BY <1>3 DEF EnabledContext
  <2> HIDE DEF z
  <2>3. /\ Stores(z) /\ Sends(z)
        /\ Aligned(z.cfg.dataSet) => z.due \ z.lost \subseteq Stored(z) \cup {p}
    BY <1>4, <2>2 DEF Stores, Stored, Sends
  <2> QED  BY <1>3, <2>1, <2>2, <2>3, StoreGood
<1>6. CASE ~(x.cfg.change /\ x.cfg.buffer) /\ x.cfg.interval
  <2>1. Check(x, p) = Store(y, p)  BY <1>2, <1>6 DEF Check
  <2>2. Sends(y)  BY <1>3, <1>6 DEF Sends, Silent
  <2> QED  BY <1>3, <1>4, <2>1, <2>2, StoreGood
<1>7. CASE ~x.cfg.buffer /\ ~x.cfg.interval /\ x.cfg.change /\ x.cfg.rbe
  <2>1. Check(x, p) = w  BY <1>2, <1>7 DEF Check
  <2>2. w \in EnabledContext /\ w.cfg = y.cfg /\ w.bits = y.bits /\ w.events = y.events
        /\ w.started = y.started /\ w.due = y.due \ {p} /\ w.lost = y.lost \ {p}
    BY <1>3, ReportFields
  <2> HIDE DEF w
  <2>3. w.due \ w.lost \subseteq x.due \ x.lost  BY <1>3, <2>2
  <2>4. Good(w)  BY <1>3, <1>4, <2>2, <2>3 DEF Good, Stores, OwesOnly, Stored, Sends
  <2> QED  BY <2>1, <2>4
<1>8. CASE ~x.cfg.buffer /\ ~x.cfg.interval /\ x.cfg.change /\ ~x.cfg.rbe
  <2> DEFINE u == Report(y, InPlace(y.cfg.dataSet))
  <2>1. Check(x, p) = u  BY <1>2, <1>8 DEF Check, SendDataSet
  <2>2. u \in EnabledContext /\ u.cfg = y.cfg /\ u.bits = y.bits /\ u.events = y.events
        /\ u.started = y.started /\ u.due = y.due \ InPlace(y.cfg.dataSet)
    BY <1>3, ReportFields
  <2> HIDE DEF u
  <2>3. Stores(u)  BY <1>4, <2>2 DEF Stores
  <2>4. ASSUME Aligned(u.cfg.dataSet) PROVE u.due = {}
    <3>1. InPlace(y.cfg.dataSet) = Points(y.cfg.dataSet)
      BY <1>3, <2>2, <2>4, DataSetType, AlignedDataSet
    <3> QED  BY <1>4, <2>2, <3>1 DEF Stores
  <2>5. Good(u)  BY <2>3, <2>4 DEF Good, OwesOnly
  <2> QED  BY <2>1, <2>5
<1>9. CASE ~x.cfg.interval /\ ~x.cfg.change
  BY <1>9 DEF Check
<1> QED  BY <1>5, <1>6, <1>7, <1>8, <1>9

LEMMA NewContextGood ==
  ASSUME NEW cfg \in Config
  PROVE  Good(NewContext(cfg))
<1> DEFINE x == NewContext(cfg)
<1>1. <<>> \in Seq(Point) /\ <<>> \in Seq(BOOLEAN) /\ Len(<<>>) = 0  OBVIOUS
<1>2. x \in EnabledContext /\ x.events = <<>> /\ x.bits = {} /\ x.due = {}
  BY <1>1, TransferSetAssumption DEF NewContext, EnabledContext
<1> QED  BY <1>1, <1>2, TransferSetAssumption DEF Good, Stores, OwesOnly

-----------------------------------------------------------------------------
(* The server thread and the lock.                                          *)

GoodContext == {x \in EnabledContext : Good(x)}

ContextsGood == context \in [Set -> GoodContext \cup {NoContext}]

\* Between the two steps of an enable or a stop the status runs ahead or behind.
StatusAgrees ==
  /\ server.at = "enabling" =>
       server.set \in Live /\ \A s \in Set \ {server.set} : status[s] <=> s \in Live
  /\ server.at = "stopping" =>
       server.set \notin Live /\ \A s \in Set : status[s] <=> s \in Live

\* The types of all variables but context.
Shared ==
  /\ connected \subseteq Connection
  /\ active \subseteq Set
  /\ owner \in [Set -> Connection \cup {NoConnection}]
  /\ status \in [Set -> BOOLEAN]
  /\ server \in ServerState
  /\ checking \in {NotChecking} \cup [sets : SUBSET Set, point : Point]
  /\ answers \subseteq [by : Connection, set : Set]

Inv == Shared /\ ContextsGood /\ SetsReleased /\ StatusAgrees

LEMMA GoodIsEnabled ==
  /\ NoContext \notin EnabledContext
  /\ \A x : x \in GoodContext <=> Good(x)
<1>1. \A x \in EnabledContext : x.enabled = TRUE  BY DEF EnabledContext
<1>2. NoContext.enabled = FALSE  BY DEF NoContext
<1> QED  BY <1>1, <1>2 DEF GoodContext, Good, Stores

LEMMA LiveIsGood ==
  ASSUME ContextsGood
  PROVE  /\ Live \subseteq Set
         /\ \A s \in Set : s \in Live <=> Good(context[s])
         /\ \A s \in Set : s \notin Live <=> context[s] = NoContext
BY GoodIsEnabled DEF ContextsGood, Live, GoodContext

\* The part of TypeOK that is about contexts.
LEMMA GoodTypes ==
  ASSUME ContextsGood
  PROVE  /\ context \in [Set -> EnabledContext \cup {NoContext}]
         /\ \A s \in Live : Len(context[s].events) <= MaxEvents
<1>1. context \in [Set -> EnabledContext \cup {NoContext}]  BY DEF ContextsGood, GoodContext
<1> QED  BY <1>1, LiveIsGood DEF Good, Stores

\* A set gets a context or another one.
LEMMA OneContext ==
  ASSUME ContextsGood, NEW s \in Set, NEW x, Good(x), context' = [context EXCEPT ![s] = x]
  PROVE  ContextsGood' /\ Live' = Live \cup {s}
<1>1. x \in GoodContext  BY GoodIsEnabled
<1>2. ContextsGood'  BY <1>1 DEF ContextsGood
<1>3. \A t \in Set : context'[t] # NoContext <=> context[t] # NoContext \/ t = s
  BY <1>1, GoodIsEnabled DEF ContextsGood, GoodContext
<1> QED  BY <1>2, <1>3 DEF Live

\* Sets lose their contexts.
LEMMA DeactivateContexts ==
  ASSUME ContextsGood, NEW S, Deactivate(S)
  PROVE  ContextsGood' /\ Live' = Live \ S
<1>1. ContextsGood'  BY DEF ContextsGood, Deactivate
<1>2. \A t \in Set : context'[t] # NoContext <=> context[t] # NoContext /\ t \notin S
  BY DEF Deactivate
<1> QED  BY <1>1, <1>2 DEF Live

LEMMA CheckVariableContexts ==
  ASSUME TypeOK, ContextsGood, CheckVariable
  PROVE  ContextsGood' /\ Live' = Live
<1>1. checking.point \in Point  BY DEF TypeOK, CheckVariable, LockFree
<1>2. \A s \in Referring(checking.point) :
        s \in Live /\ Check(context[s], checking.point) \in GoodContext
  BY <1>1, LiveIsGood, GoodIsEnabled, CheckGood DEF Referring
<1>3. context' = [s \in Set |-> IF s \in checking.sets \cap Referring(checking.point)
                                THEN Check(context[s], checking.point) ELSE context[s]]
  BY DEF CheckVariable
<1>4. ContextsGood'  BY <1>2, <1>3 DEF ContextsGood
<1>5. \A t \in Set : context'[t] # NoContext <=> context[t] # NoContext
  BY <1>2, <1>3, GoodIsEnabled DEF Live, GoodContext
<1> QED  BY <1>4, <1>5 DEF Live

LEMMA EnableContexts ==
  ASSUME ContextsGood, NEW c \in Connection, NEW s \in Set, NEW cfg \in Config, Enable(c, s, cfg)
  PROVE  ContextsGood' /\ Live' = Live \cup {s}
<1> DEFINE x == NewContext(cfg)
<1>1. Good(x)  BY NewContextGood
<1>2. context' = [context EXCEPT ![s] = x]  BY DEF Enable
<1> HIDE DEF x
<1> QED  BY <1>1, <1>2, OneContext

LEMMA HandleContexts ==
  ASSUME ContextsGood, SetsReleased, NEW s \in Set, NEW expired \in BOOLEAN,
         NEW interval \in BOOLEAN, NEW integrity \in BOOLEAN, NEW over \in BOOLEAN,
         HandleTransferSet(s, expired, interval, integrity, over)
  PROVE  ContextsGood' /\ Live' = Live
<1> DEFINE x == Handled(context[s], expired, interval, integrity, over)
<1>1. s \in Live  BY DEF HandleTransferSet, SetsReleased
<1>2. Good(x)  BY <1>1, LiveIsGood, HandledGood DEF HandleTransferSet
<1>3. context' = [context EXCEPT ![s] = x]  BY DEF HandleTransferSet
<1> HIDE DEF x
<1> QED  BY <1>1, <1>2, <1>3, OneContext

\* What is outstanding is no part of what is owed.
LEMMA OutstandingGood ==
  ASSUME NEW x, Good(x), NEW out \in Seq(BOOLEAN), NEW count \in 0..MaxReports
  PROVE  Good([x EXCEPT !.outstanding = out]) /\ Good([x EXCEPT !.overdue = count])
<1>1. x \in EnabledContext  BY DEF Good, Stores
<1>2. ASSUME NEW y \in {[x EXCEPT !.outstanding = out], [x EXCEPT !.overdue = count]}
      PROVE  Good(y)
  <2>1. y \in EnabledContext /\ y.cfg = x.cfg /\ y.bits = x.bits /\ y.events = x.events
        /\ y.started = x.started /\ y.due = x.due /\ y.lost = x.lost
    BY <1>1, <1>2 DEF EnabledContext
  <2> QED  BY <2>1 DEF Good, Stores, OwesOnly, Stored, Sends
<1> QED  BY <1>2

LEMMA HandleAnswerContexts ==
  ASSUME TypeOK, ContextsGood, SetsReleased, NEW m \in answers, HandleAnswer(m)
  PROVE  ContextsGood' /\ Live' = Live
<1>1. CASE ~(m.set \in active /\ status[m.set])
  BY <1>1 DEF HandleAnswer, ContextsGood, Live
<1>2. CASE m.set \in active /\ status[m.set]
  <2>1. m.set \in Set  BY DEF TypeOK
  <2>2. m.set \in Live  BY <1>2, <2>1 DEF HandleAnswer, SetsReleased
  <2> DEFINE x == [context[m.set] EXCEPT !.outstanding = <<>>]
  <2>3. <<>> \in Seq(BOOLEAN) /\ 0 \in 0..MaxReports  BY TransferSetAssumption
  <2>4. Good(x)  BY <2>1, <2>2, <2>3, LiveIsGood, OutstandingGood
  <2>5. context' = [context EXCEPT ![m.set] = x]  BY <1>2 DEF HandleAnswer
  <2> HIDE DEF x
  <2> QED  BY <2>1, <2>2, <2>4, <2>5, OneContext
<1> QED  BY <1>1, <1>2

LEMMA AnswerReportContexts ==
  ASSUME ContextsGood, NEW s \in Set, AnswerReport(s)
  PROVE  ContextsGood' /\ Live' = Live
<1>1. s \in Live /\ Good(context[s])  BY LiveIsGood DEF AnswerReport
<1>2. context[s] \in EnabledContext  BY <1>1 DEF Good, Stores
<1>3. context[s].outstanding \in Seq(BOOLEAN) /\ context[s].overdue \in 0..MaxReports
      /\ MaxReports \in Nat
  BY <1>2, TransferSetAssumption DEF EnabledContext
<1>4. PICK x : Good(x) /\ context' = [context EXCEPT ![s] = x]
  <2>1. CASE context[s].overdue > 0
    <3> DEFINE x == [context[s] EXCEPT !.overdue = context[s].overdue - 1]
    <3>1. context[s].overdue - 1 \in 0..MaxReports  BY <1>3, <2>1
    <3>2. Good(x)  BY <1>1, <1>3, <3>1, OutstandingGood
    <3>3. "overdue" \in DOMAIN context[s]  BY <1>2 DEF EnabledContext
    <3>4. context' = [context EXCEPT ![s] = x]  BY <2>1, <3>3 DEF AnswerReport
    <3> QED  BY <3>2, <3>4
  <2>2. CASE ~(context[s].overdue > 0)
    <3>1. PICK i \in Unanswered(s) : context' = [context EXCEPT ![s].outstanding[i] = TRUE]
      BY <2>2 DEF AnswerReport
    <3> DEFINE out == [context[s].outstanding EXCEPT ![i] = TRUE]
               x == [context[s] EXCEPT !.outstanding = out]
    <3>2. i \in 1..Len(context[s].outstanding)  BY <3>1 DEF Unanswered
    <3>3. out \in Seq(BOOLEAN)  BY <1>3, <3>2
    <3>4. Good(x)  BY <1>1, <1>3, <3>3, OutstandingGood
    <3>5. "outstanding" \in DOMAIN context[s]  BY <1>2 DEF EnabledContext
    <3>6. context' = [context EXCEPT ![s] = x]  BY <3>1, <3>5
    <3> QED  BY <3>4, <3>6
  <2> QED  BY <2>1, <2>2
<1> QED  BY <1>1, <1>4, OneContext

-----------------------------------------------------------------------------
(* The invariant.                                                           *)

LEMMA InvTypeOK == Inv => TypeOK
BY GoodTypes DEF Inv, TypeOK, Shared

LEMMA InitInv == Init => Inv
<1> SUFFICES ASSUME Init PROVE Inv  OBVIOUS
<1>1. ContextsGood /\ Live = {}  BY DEF Init, ContextsGood, Live
<1>2. Shared  BY DEF Init, Shared, ServerState
<1>3. SetsReleased /\ StatusAgrees
  BY <1>1 DEF Init, SetsReleased, StatusAgrees, ServerFree, Idle
<1> QED  BY <1>1, <1>2, <1>3 DEF Inv

LEMMA ServerFields ==
  ASSUME server \in ServerState
  PROVE  /\ server.at \in {"idle", "crashed", "enabling", "stopping"}
         /\ server.at \in {"enabling", "stopping"} => server.set \in Set
         /\ ServerFree <=> server.at = "idle"
BY DEF ServerState, ServerFree, Idle

\* A step that leaves the sets alone, and whose contexts stay good.
LEMMA QuietStep ==
  ASSUME Inv, ContextsGood', Live' = Live, UNCHANGED <<active, owner, status>>, Shared',
         connected \subseteq connected',
         server' \in {server, [at |-> "crashed"]}
  PROVE  Inv'
<1>1. SetsReleased'  BY DEF Inv, SetsReleased, ServerFree, Idle
<1>2. StatusAgrees'  BY DEF Inv, StatusAgrees
<1> QED  BY <1>1, <1>2 DEF Inv

LEMMA EnableInv ==
  ASSUME Inv, NEW c \in Connection, NEW s \in Set, NEW cfg \in Config,
         Start(c, s, cfg) \/ EnableStatus(c, s, cfg)
  PROVE  Inv'
<1>1. Enable(c, s, cfg)  BY DEF Start, EnableStatus
<1>2. ContextsGood' /\ Live' = Live \cup {s}  BY <1>1, EnableContexts DEF Inv
<1>3. c \in connected /\ connected' = connected /\ active' = active \cup {s}
      /\ owner' = [owner EXCEPT ![s] = c] /\ server = Idle
      /\ checking' = checking /\ answers' = answers
  BY <1>1 DEF Enable, ServerFree
<1>4. /\ \A t \in active' : owner'[t] \in connected'
      /\ Live' \subseteq active'
  BY <1>2, <1>3 DEF Inv, Shared, SetsReleased
<1>5. \A t \in Set : status[t] <=> t \in Live  BY <1>3 DEF Inv, SetsReleased, ServerFree
<1>6. CASE Start(c, s, cfg)
  <2>1. server' = Idle /\ status' = [status EXCEPT ![s] = TRUE]  BY <1>3, <1>6 DEF Start
  <2>2. \A t \in Set : status'[t] <=> t \in Live'  BY <1>2, <1>5, <2>1 DEF Inv, Shared
  <2>3. Shared'  BY <1>3, <2>1 DEF Inv, Shared, ServerState
  <2> QED  BY <1>2, <1>4, <2>1, <2>2, <2>3 DEF Inv, SetsReleased, StatusAgrees, Idle
<1>7. CASE EnableStatus(c, s, cfg)
  <2>1. server' = [at |-> "enabling", set |-> s] /\ status' = status  BY <1>7 DEF EnableStatus
  <2>2. Shared'  BY <1>3, <2>1 DEF Inv, Shared, ServerState
  <2>3. SetsReleased'  BY <1>4, <2>1 DEF SetsReleased, ServerFree, Idle
  <2>4. StatusAgrees'  BY <1>2, <1>5, <2>1 DEF StatusAgrees
  <2> QED  BY <1>2, <2>2, <2>3, <2>4 DEF Inv
<1> QED  BY <1>6, <1>7

\* Sets S of clients are disabled, while the server thread has the request to itself.
LEMMA DeactivateInv ==
  ASSUME Inv, NEW S \in SUBSET Set, ServerFree, Deactivate(S), owner' = owner,
         checking' = checking, answers' \subseteq answers, connected' \subseteq connected,
         active' = active \ S, \A s \in active \ S : owner[s] \in connected', server' = server
  PROVE  Inv'
<1>1. ContextsGood' /\ Live' = Live \ S  BY DeactivateContexts DEF Inv
<1>2. status' = [s \in Set |-> status[s] /\ s \notin S]  BY DEF Deactivate
<1>3. Shared'
  <2>1. status' \in [Set -> BOOLEAN]  BY <1>2 DEF Inv, Shared
  <2> QED  BY <2>1 DEF Inv, Shared
<1>4. \A s \in Set : status'[s] <=> s \in Live'  BY <1>1, <1>2 DEF Inv, SetsReleased
<1>5. SetsReleased'  BY <1>1, <1>4 DEF Inv, SetsReleased
<1>6. StatusAgrees'  BY DEF ServerFree, Idle, StatusAgrees
<1> QED  BY <1>1, <1>3, <1>5, <1>6 DEF Inv

LEMMA StopInv ==
  ASSUME Inv, NEW c \in Connection, NEW s \in Set, Stop(c, s)
  PROVE  Inv'
<1>1. Deactivate({s})  BY DEF Stop
<1>2. ContextsGood' /\ Live' = Live \ {s}  BY <1>1, DeactivateContexts DEF Inv
<1>3. status' = [t \in Set |-> status[t] /\ t \notin {s}]  BY <1>1 DEF Deactivate
<1>4. server' = [at |-> "stopping", set |-> s] /\ server = Idle
      /\ UNCHANGED <<connected, active, owner, checking, answers>>
  BY DEF Stop, ServerFree
<1>5. Shared'
  <2>1. status' \in [Set -> BOOLEAN]  BY <1>3 DEF Inv, Shared
  <2> QED  BY <1>4, <2>1 DEF Inv, Shared, ServerState
<1>6. \A t \in Set : status'[t] <=> t \in Live'
  BY <1>2, <1>3, <1>4 DEF Inv, SetsReleased, ServerFree
<1>7. SetsReleased'  BY <1>2, <1>4, <1>6 DEF Inv, SetsReleased
<1>8. StatusAgrees'  BY <1>2, <1>4, <1>6 DEF StatusAgrees
<1> QED  BY <1>2, <1>5, <1>7, <1>8 DEF Inv

LEMMA NextInv == ASSUME Inv, [Next]_vars PROVE Inv'
<1>1. ASSUME NEW c \in Connection, Open(c) PROVE Inv'
  <2>1. ContextsGood' /\ Live' = Live  BY <1>1 DEF Open, Inv, ContextsGood, Live
  <2>2. Shared'  BY <1>1 DEF Open, Inv, Shared
  <2> QED  BY <1>1, <2>1, <2>2, QuietStep DEF Open
<1>2. ASSUME NEW c \in Connection, Closed(c) PROVE Inv'
  <2> DEFINE mine == {s \in active : owner[s] = c}
  <2>1. mine \in SUBSET Set  BY DEF Inv, Shared
  <2>2. Deactivate(mine) /\ active' = active \ mine  BY <1>2 DEF Closed
  <2>3. \A s \in active \ mine : owner[s] \in connected'
    BY <1>2 DEF Closed, Inv, SetsReleased
  <2>4. answers' \subseteq answers /\ connected' \subseteq connected /\ ServerFree
        /\ owner' = owner /\ checking' = checking /\ server' = server
    BY <1>2 DEF Closed
  <2> HIDE DEF mine
  <2> QED  BY <2>1, <2>2, <2>3, <2>4, DeactivateInv
<1>3. ASSUME NEW c \in Connection, GetNextDSTransferSet(c) PROVE Inv'
  <2>1. PICK s \in Set \ active : owner' = [owner EXCEPT ![s] = c] /\ active' = active \cup {s}
    BY <1>3 DEF GetNextDSTransferSet
  <2>2. ContextsGood' /\ Live' = Live
    BY <1>3 DEF GetNextDSTransferSet, Inv, ContextsGood, Live
  <2>3. Shared'  BY <1>3, <2>1 DEF GetNextDSTransferSet, Inv, Shared
  <2>4. SetsReleased'
    BY <1>3, <2>1, <2>2 DEF GetNextDSTransferSet, Inv, Shared, SetsReleased, ServerFree
  <2>5. StatusAgrees'
    BY <1>3, <2>2 DEF GetNextDSTransferSet, Inv, StatusAgrees
  <2> QED  BY <2>2, <2>3, <2>4, <2>5 DEF Inv
<1>4. ASSUME NEW c \in Connection, NEW s \in Set, NEW cfg \in Config,
             Start(c, s, cfg) \/ EnableStatus(c, s, cfg)
      PROVE  Inv'
  BY <1>4, EnableInv
<1>5. ASSUME NEW c \in Connection, NEW s \in Set, Disable(c, s) PROVE Inv'
  BY <1>5, DeactivateInv DEF Disable, Inv, SetsReleased
<1>6. ASSUME NEW c \in Connection, NEW s \in Set, Stop(c, s) PROVE Inv'
  BY <1>6, StopInv
<1>7. CASE SetStatus
  <2>1. ContextsGood' /\ Live' = Live  BY <1>7 DEF SetStatus, Inv, ContextsGood, Live
  <2>2. server' = Idle /\ status' = [status EXCEPT ![server.set] = TRUE]  BY <1>7 DEF SetStatus
  <2>3. \A s \in Set : status'[s] <=> s \in Live'
    BY <1>7, <2>1, <2>2 DEF SetStatus, Inv, Shared, StatusAgrees
  <2>4. Shared'  BY <1>7, <2>2 DEF SetStatus, Inv, Shared, ServerState
  <2>5. SetsReleased'  BY <1>7, <2>1, <2>3 DEF SetStatus, Inv, SetsReleased
  <2>6. StatusAgrees'  BY <2>2 DEF StatusAgrees, Idle
  <2> QED  BY <2>1, <2>4, <2>5, <2>6 DEF Inv
<1>8. CASE RemoveStopped
  <2>1. ContextsGood' /\ Live' = Live  BY <1>8 DEF RemoveStopped, Inv, ContextsGood, Live
  <2>2. server' = Idle /\ active' = active \ {server.set} /\ status' = status
    BY <1>8 DEF RemoveStopped
  <2>3. server.set \notin Live /\ \A s \in Set : status[s] <=> s \in Live
    BY <1>8 DEF RemoveStopped, Inv, StatusAgrees
  <2>4. Shared'  BY <1>8, <2>2 DEF RemoveStopped, Inv, Shared, ServerState
  <2>5. SetsReleased'  BY <1>8, <2>1, <2>2, <2>3 DEF RemoveStopped, Inv, SetsReleased
  <2>6. StatusAgrees'  BY <2>2 DEF StatusAgrees, Idle
  <2> QED  BY <2>1, <2>4, <2>5, <2>6 DEF Inv
<1>9. ASSUME NEW s \in Set, NEW expired \in BOOLEAN, NEW interval \in BOOLEAN,
             NEW integrity \in BOOLEAN, NEW over \in BOOLEAN,
             HandleTransferSet(s, expired, interval, integrity, over)
      PROVE  Inv'
  <2>1. ContextsGood' /\ Live' = Live  BY <1>9, HandleContexts DEF Inv
  <2>2. UNCHANGED <<connected, active, owner, status, server, checking, answers>>
    BY <1>9 DEF HandleTransferSet
  <2>3. Shared'  BY <2>2 DEF Inv, Shared
  <2> QED  BY <2>1, <2>2, <2>3, QuietStep
<1>10. ASSUME NEW m \in answers, HandleAnswer(m) PROVE Inv'
  <2>1. ContextsGood' /\ Live' = Live  BY <1>10, HandleAnswerContexts, InvTypeOK DEF Inv
  <2>2. Shared'  BY <1>10 DEF HandleAnswer, Inv, Shared
  <2> QED  BY <1>10, <2>1, <2>2, QuietStep DEF HandleAnswer
<1>11. ASSUME NEW s \in Set, AnswerReport(s) PROVE Inv'
  <2>1. ContextsGood' /\ Live' = Live  BY <1>11, AnswerReportContexts DEF Inv
  <2>2. owner[s] \in Connection
    BY <1>11 DEF AnswerReport, Inv, SetsReleased, Shared
  <2>3. Shared'  BY <1>11, <2>2 DEF AnswerReport, Inv, Shared
  <2> QED  BY <1>11, <2>1, <2>3, QuietStep DEF AnswerReport
<1>12. ASSUME NEW p \in Point, UpdateOnlineValue(p) PROVE Inv'
  <2>1. ContextsGood' /\ Live' = Live /\ Referring(p) \subseteq Set
    BY <1>12 DEF UpdateOnlineValue, Inv, ContextsGood, Live, Referring
  <2>2. Shared'  BY <1>12, <2>1 DEF UpdateOnlineValue, Inv, Shared
  <2> QED  BY <1>12, <2>1, <2>2, QuietStep DEF UpdateOnlineValue
<1>13. CASE CheckVariable
  <2>1. ContextsGood' /\ Live' = Live  BY <1>13, CheckVariableContexts, InvTypeOK DEF Inv
  <2>2. UNCHANGED <<connected, active, owner, status, server, answers>>
        /\ checking' = NotChecking
    BY <1>13 DEF CheckVariable
  <2>3. Shared'  BY <2>2 DEF Inv, Shared
  <2> QED  BY <2>1, <2>2, <2>3, QuietStep
<1>14. CASE UseFreedContext
  <2>1. ContextsGood' /\ Live' = Live  BY <1>14 DEF UseFreedContext, Inv, ContextsGood, Live
  <2>2. Shared'  BY <1>14 DEF UseFreedContext, Inv, Shared, ServerState
  <2> QED  BY <1>14, <2>1, <2>2, QuietStep DEF UseFreedContext
<1>15. CASE UNCHANGED vars
  BY <1>15 DEF vars, Inv, Shared, ContextsGood, SetsReleased, StatusAgrees, Live, ServerFree
<1> QED
  BY <1>1, <1>2, <1>3, <1>4, <1>5, <1>6, <1>7, <1>8, <1>9, <1>10, <1>11, <1>12, <1>13, <1>14, <1>15
  DEF Next

\* Every reachable state satisfies the invariant (ds_transfer_set.c).
THEOREM SpecInv == Spec => []Inv
<1> QED  BY InitInv, NextInv, PTL DEF Spec

\* The variables have their types; an event queue has at most maxDSTSEventQueueSize
\* events (storeDataPointEventForTransferSet).
THEOREM SpecTypeOK == Spec => []TypeOK
<1> QED  BY SpecInv, InvTypeOK, PTL

-----------------------------------------------------------------------------
(* The promises.                                                            *)

\* An enabled set is looked at by every tick, and no set belongs to a closed
\* connection (tase2_Server_deactivateTransferSets).
THEOREM SpecSetsReleased == Spec => []SetsReleased
<1>1. Inv => SetsReleased  BY DEF Inv
<1> QED  BY <1>1, SpecInv, PTL

\* A change that has not been reported is stored where the next report of changes finds it,
\* and something will send one, for data sets without a refused entry in front of an accepted
\* one and unless Interval is 0 (tase2_checkVariable, handleTransferSet).
THEOREM SpecChangeOwed == Spec => []ChangeOwed
<1>1. ASSUME Inv PROVE ChangeOwed
  <2> SUFFICES ASSUME NEW s \in Live, NEW p \in context[s].due \ context[s].lost,
                      Aligned(context[s].cfg.dataSet)
               PROVE  p \in Stored(context[s]) /\ Sends(context[s])
    BY DEF ChangeOwed, Stored, Sends
  <2>1. Good(context[s])  BY <1>1, LiveIsGood DEF Inv
  <2> QED  BY <2>1 DEF Good, OwesOnly, Stored
<1> QED  BY <1>1, SpecInv, PTL

\* An enabled set keeps its client (tase2_Server_handleDSTransferSetWrite,
\* tase2_Server_getNextDSTransferSet).
THEOREM SpecEnabledKeepsClient == Spec => EnabledKeepsClient
<1>1. ASSUME Inv, [Next]_vars, NEW s \in Set, status[s], status'[s]
      PROVE  owner'[s] = owner[s]
  <2>1. ASSUME NEW c \in Connection, NEW t \in Set, NEW cfg \in Config,
               Start(c, t, cfg) \/ EnableStatus(c, t, cfg)
        PROVE  owner'[s] = owner[s]
    <3>1. owner' = [owner EXCEPT ![t] = c] /\ t # s  BY <1>1, <2>1 DEF Start, EnableStatus, Enable
    <3> QED  BY <3>1 DEF Inv, Shared
  <2>2. ASSUME NEW c \in Connection, GetNextDSTransferSet(c)
        PROVE  owner'[s] = owner[s]
    <3>1. PICK t \in Set \ active : owner' = [owner EXCEPT ![t] = c]
      BY <2>2 DEF GetNextDSTransferSet
    <3>2. s \in active  BY <1>1, <2>2 DEF GetNextDSTransferSet, Inv, SetsReleased
    <3> QED  BY <1>1, <3>1, <3>2 DEF Inv, Shared
  <2>3. CASE owner' = owner
    BY <2>3
  <2> QED
    BY <1>1, <2>1, <2>2, <2>3
    DEF Next, Open, Closed, Disable, Stop, SetStatus, RemoveStopped, HandleTransferSet,
        HandleAnswer, AnswerReport, UpdateOnlineValue, CheckVariable, UseFreedContext, vars
<1>2. Inv /\ [Next]_vars =>
        [\A s \in Set : status[s] /\ status'[s] => owner'[s] = owner[s]]_vars
  BY <1>1
<1> QED  BY <1>2, SpecInv, PTL DEF Spec, EnabledKeepsClient

\* While the lock is held only a stop takes away the context of a set that is being
\* checked (activeTransferSetsLock).
THEOREM SpecContextKept == Spec => ContextKept
<1>1. ASSUME Inv, Inv', [Next]_vars, NEW s \in checking.sets, s \in Live, context'[s] = NoContext
      PROVE  server' = [at |-> "stopping", set |-> s]
  <2>1. s \notin Live'  BY <1>1 DEF Live
  <2>2. ~LockFree  BY <1>1 DEF LockFree, NotChecking
  <2>3. ASSUME NEW c \in Connection, Closed(c) \/ \E t \in Set : Disable(c, t) PROVE FALSE
    BY <2>2, <2>3 DEF Disable, Closed
  <2>4. ASSUME NEW c \in Connection, NEW t \in Set, Stop(c, t)
        PROVE  server' = [at |-> "stopping", set |-> s]
    <3>1. Deactivate({t})  BY <2>4 DEF Stop
    <3>2. Live' = Live \ {t}  BY <1>1, <3>1, DeactivateContexts DEF Inv
    <3>3. s = t  BY <1>1, <2>1, <3>2
    <3> QED  BY <2>4, <3>3 DEF Stop
  <2>5. ASSUME NEW c \in Connection, NEW t \in Set, NEW cfg \in Config,
               Start(c, t, cfg) \/ EnableStatus(c, t, cfg)
        PROVE  FALSE
    BY <2>2, <2>5 DEF Start, EnableStatus, Enable
  <2>6. ASSUME NEW t \in Set, NEW expired \in BOOLEAN, NEW interval \in BOOLEAN,
               NEW integrity \in BOOLEAN, NEW over \in BOOLEAN,
               HandleTransferSet(t, expired, interval, integrity, over)
        PROVE  FALSE
    BY <2>2, <2>6 DEF HandleTransferSet
  <2>7. ASSUME NEW m \in answers, HandleAnswer(m) PROVE FALSE
    BY <1>1, <2>1, <2>7, HandleAnswerContexts, InvTypeOK DEF Inv
  <2>8. ASSUME NEW t \in Set, AnswerReport(t) PROVE FALSE
    BY <1>1, <2>1, <2>8, AnswerReportContexts DEF Inv
  <2>9. CASE CheckVariable
    BY <1>1, <2>1, <2>9, CheckVariableContexts, InvTypeOK DEF Inv
  <2>10. context' # context  BY <1>1, <2>1 DEF Live
  <2>11. ASSUME NEW c \in Connection, Open(c) \/ GetNextDSTransferSet(c) PROVE FALSE
    BY <2>10, <2>11 DEF Open, GetNextDSTransferSet
  <2>12. ASSUME \/ SetStatus \/ RemoveStopped \/ UseFreedContext \/ UNCHANGED vars
                \/ \E p \in Point : UpdateOnlineValue(p)
         PROVE  FALSE
    BY <2>10, <2>12 DEF SetStatus, RemoveStopped, UseFreedContext, UpdateOnlineValue, vars
  <2> QED
    BY <1>1, <2>3, <2>4, <2>5, <2>6, <2>7, <2>8, <2>9, <2>11, <2>12 DEF Next
<1>2. Inv /\ Inv' /\ [Next]_vars =>
        [\A s \in checking.sets :
           s \in Live /\ context'[s] = NoContext => server' = [at |-> "stopping", set |-> s]]_vars
  BY <1>1
<1> QED  BY <1>2, SpecInv, PTL DEF Spec, ContextKept
=============================================================================
