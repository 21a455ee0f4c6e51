------------------------- MODULE MmsEndpointProofs -------------------------
(***************************************************************************)
(* What MmsEndpoint promises of every state, for any number of callers,    *)
(* any size of the table of outstanding calls and any faults.  The first   *)
(* part follows the connection: what is over is never mixed up with what   *)
(* is next.  The second part follows the calls.                            *)
(***************************************************************************)
EXTENDS MmsEndpoint, FiniteSetTheorems, TLAPS

Dialing == {"TCP_CONNECTING", "WAIT_FOR_COTP_CONNECT_RESP"}
Early == Dialing \cup {"WAIT_FOR_ACSE_RESP"}
Ended == {"IDLE", "ERROR"}

\* There is no connection, or the user is setting one up.
Down == ~open \/ user \in {"connect", "associate", "failed"}

Types ==
  /\ intState \in IntState /\ state \in State /\ buffer \in {0, 1}
  /\ handler \in {Free} \cup [by : Thread, at : Place, next : IntState, id : Nat]
  /\ open \in BOOLEAN /\ client \in BOOLEAN
  /\ user \in UserPlace
  /\ endpointState \in {"IDLE", "CONNECTING", "CONNECTED", "ERROR"}
  /\ faulted \subseteq Faults

Callers == caller \in [Caller -> [at : CallerPlace, id : Nat, done : BOOLEAN]]

\* A message has been received.
Message == {"data", "initiate", "selfClose", "parse", "answered", "concluded"}

\* Where a call of handleConnection is tells how it will end.
HandlerKnown ==
  handler # Free =>
    /\ handler.at \in {"idle", "remove", "closed", "destroy"} => handler.next \in Ended
    /\ handler.at \in {"rejected", "new", "response"} \cup Message =>
         handler.next = "WAIT_FOR_DATA_MSG"
    /\ handler.by = "user" => user = "closing"

\* While there is no connection the old one can only be cleaned up.
DownIsQuiet ==
  /\ user \in {"connect", "associate", "failed"} => open
  /\ Down => /\ Upcoming \in Ended
             /\ handler # Free => handler.at \in {"closed", "destroy", "tick"}

\* The client has a connection from the association to the closed handler.
ClientKnown ==
  client => /\ Upcoming \notin Early
            /\ ~HandlerAt("rejected") /\ ~HandlerAt("new")
            /\ Down => HandlerAt("closed")

LockedHasClient == ConnectionLocked => client

ConnectionInv ==
  Types /\ HandlerKnown /\ DownIsQuiet /\ ClientKnown /\ LockedHasClient /\ BufferOwned

LEMMA HandlerFields ==
  ASSUME Types, handler # Free
  PROVE  handler \in [by : Thread, at : Place, next : IntState, id : Nat]
BY DEF Types

LEMMA InitConnection == Init => ConnectionInv
<1> SUFFICES ASSUME Init PROVE ConnectionInv
  OBVIOUS
<1>1. /\ intState = "IDLE" /\ state = "IDLE" /\ buffer = 1 /\ handler = Free
      /\ endpointState = "IDLE" /\ open = FALSE /\ user = "idle" /\ client = FALSE /\ faulted = {}
  BY DEF Init, ConnectionInit
<1>2. ~ConnectionLocked
  <2>1. caller = [c \in Caller |-> Resting]
    BY DEF Init
  <2>2. \A c \in Caller : caller[c].at = "idle"
    BY <2>1 DEF Resting
  <2> QED  BY <2>2 DEF ConnectionLocked
<1>3. Types
  BY <1>1 DEF Types, IntState, State, UserPlace
<1>4. HandlerKnown /\ DownIsQuiet
  BY <1>1 DEF HandlerKnown, DownIsQuiet, Upcoming, Ended
<1>5. ClientKnown /\ LockedHasClient
  BY <1>1, <1>2 DEF ClientKnown, LockedHasClient
<1>6. BufferOwned
  BY <1>1 DEF BufferOwned, Upcoming, Parsing
<1> QED  BY <1>3, <1>4, <1>5, <1>6 DEF ConnectionInv

LEMMA GotoFields ==
  ASSUME Types, handler # Free, NEW place \in Place, Goto(place)
  PROVE  /\ handler' \in [by : Thread, at : Place, next : IntState, id : Nat] /\ handler' # Free
         /\ handler'.at = place /\ handler'.by = handler.by /\ handler'.next = handler.next
BY HandlerFields DEF Goto, Free, Thread

\* The user's and the callers' steps that leave handleConnection alone.
LEMMA LockedKept ==
  ASSUME UNCHANGED caller
  PROVE  ConnectionLocked' <=> ConnectionLocked
BY DEF ConnectionLocked

-----------------------------------------------------------------------------
(* The connection.                                                          *)

\* A call of handleConnection up to its first callback.
LEMMA HandleStep ==
  ASSUME NEW t \in Thread, Handle(t), intState \in IntState, state \in State
  PROVE  /\ handler = Free /\ intState' = intState /\ state' \in State
         /\ handler' \in [by : {t}, at : {"failed", "rejected", "new", "data", "idle", "tick"},
                          next : IntState, id : Nat]
         /\ buffer' = IF intState \in Dialing /\ handler'.next \notin Dialing
                      THEN buffer + 1 ELSE buffer
         /\ handler'.next \in Dialing => intState \in Dialing
         /\ handler'.next \in Early => intState \in Early
         /\ intState \in Ended => handler'.next = intState /\ handler'.at = "tick"
         /\ handler'.at \in {"rejected", "new"} => intState = "WAIT_FOR_ACSE_RESP"
         /\ handler'.at \in {"rejected", "new", "data"} => handler'.next = "WAIT_FOR_DATA_MSG"
         /\ handler'.at = "idle" => handler'.next \in Ended
         /\ handler' # Free
<1> DEFINE Made(place, next) ==
      handler = Free /\ handler' = [by |-> t, at |-> place, next |-> next, id |-> 0]
<1>1. CASE Waits(t)
  <2>1. Made("tick", intState) /\ UNCHANGED <<intState, state, buffer>>
    BY <1>1 DEF Waits, Begin
  <2> QED  BY <2>1 DEF Free, Dialing, Early, Ended
<1>2. CASE TcpConnected(t)
  <2>1. Made("tick", "WAIT_FOR_COTP_CONNECT_RESP") /\ UNCHANGED <<intState, state, buffer>>
        /\ intState = "TCP_CONNECTING"
    BY <1>2 DEF TcpConnected, Begin
  <2> QED  BY <2>1 DEF Free, Dialing, Early, Ended, IntState
<1>3. CASE CotpConnected(t)
  <2>1. Made("tick", "WAIT_FOR_ACSE_RESP") /\ UNCHANGED <<intState, state>>
        /\ buffer' = buffer + 1 /\ intState = "WAIT_FOR_COTP_CONNECT_RESP"
    BY <1>3 DEF CotpConnected, Begin, ReleaseTransmitBuffer
  <2> QED  BY <2>1 DEF Free, Dialing, Early, Ended, IntState
<1>4. CASE ConnectFails(t)
  <2>1. Made("failed", "CLOSE_ON_ERROR") /\ UNCHANGED <<intState, state>>
        /\ buffer' = buffer + 1 /\ intState \in Dialing
    BY <1>4 DEF ConnectFails, Begin, ReleaseTransmitBuffer, Dialing
  <2> QED  BY <2>1 DEF Free, Dialing, Early, Ended, IntState
<1>5. CASE Associated(t) \/ AssociateFails(t) \/ AssociationRejected(t)
  <2>1. (Made("new", "WAIT_FOR_DATA_MSG") /\ state' = "CONNECTED")
        \/ (Made("failed", "CLOSE_ON_ERROR") /\ state' = state)
        \/ (Made("rejected", "WAIT_FOR_DATA_MSG") /\ state' = state)
    BY <1>5 DEF Associated, AssociateFails, AssociationRejected, Begin
  <2>2. UNCHANGED <<intState, buffer>> /\ intState = "WAIT_FOR_ACSE_RESP"
    BY <1>5 DEF Associated, AssociateFails, AssociationRejected
  <2> QED  BY <2>1, <2>2 DEF Free, Dialing, Early, Ended, IntState, State
<1>6. CASE ReceiveData(t)
  <2>1. Made("data", "WAIT_FOR_DATA_MSG") /\ UNCHANGED <<intState, state, buffer>>
        /\ intState = "WAIT_FOR_DATA_MSG"
    BY <1>6 DEF ReceiveData, Begin
  <2> QED  BY <2>1 DEF Free, Dialing, Early, Ended, IntState
<1>7. CASE ReceiveFails(t)
  <2>1. Made("tick", "CLOSE_ON_ERROR") \/ Made("tick", "CLOSING_CONNECTION")
    BY <1>7 DEF ReceiveFails, Begin
  <2>2. UNCHANGED <<intState, state, buffer>> /\ intState = "WAIT_FOR_DATA_MSG"
    BY <1>7 DEF ReceiveFails
  <2> QED  BY <2>1, <2>2 DEF Free, Dialing, Early, Ended, IntState
<1>8. CASE Closing(t)
  <2>1. (Made("idle", "ERROR") /\ state' = "ERROR") \/ (Made("idle", "IDLE") /\ state' = "IDLE")
    BY <1>8 DEF Closing, Begin
  <2>2. UNCHANGED <<intState, buffer>> /\ intState \in {"CLOSE_ON_ERROR", "CLOSING_CONNECTION"}
    BY <1>8 DEF Closing
  <2> QED  BY <2>1, <2>2 DEF Free, Dialing, Early, Ended, IntState, State
<1> QED
  BY <1>1, <1>2, <1>3, <1>4, <1>5, <1>6, <1>7, <1>8 DEF Handle, HandleConnection

\* Who is called back keeps the lock he holds.
LEMMA CallBackLocks ==
  ASSUME Callers, NEW entries, CallBack(entries)
  PROVE  ConnectionLocked' <=> ConnectionLocked
<1>1. \A c \in Caller : caller'[c].at = caller[c].at
  BY DEF CallBack, Callers
<1> QED  BY <1>1 DEF ConnectionLocked

\* What no callback and no caller touches.
LEMMA ConnectionFrame ==
  ASSUME ConnectionInv, UNCHANGED <<intState, buffer, handler, open, user, client>>,
         state' \in State, endpointState' \in {"IDLE", "CONNECTING", "CONNECTED", "ERROR"},
         faulted' \subseteq Faults, ConnectionLocked' => client
  PROVE  ConnectionInv'
<1>1. /\ Upcoming' = Upcoming /\ Down' = Down /\ (Parsing' <=> Parsing)
      /\ \A p \in Place : HandlerAt(p)' = HandlerAt(p)
  BY DEF Upcoming, Down, HandlerAt, Parsing
<1>2. Types' /\ HandlerKnown'
  BY DEF ConnectionInv, Types, HandlerKnown
<1>3. DownIsQuiet'
  BY <1>1 DEF ConnectionInv, DownIsQuiet
<1>4. ClientKnown'
  BY <1>1 DEF ConnectionInv, ClientKnown, Place
<1>5. LockedHasClient'
  BY DEF LockedHasClient
<1>6. BufferOwned'
  BY <1>1 DEF ConnectionInv, BufferOwned
<1> QED  BY <1>2, <1>3, <1>4, <1>5, <1>6 DEF ConnectionInv

LEMMA HandleKeeps ==
  ASSUME ConnectionInv, NEW t \in Thread, Handle(t),
         UNCHANGED <<caller, endpointState, open, client, faulted>>,
         \/ t = "tick" /\ user' = user
         \/ t = "user" /\ user = "close" /\ user' = "closing"
  PROVE  ConnectionInv'
<1> USE DEF ConnectionInv
<1>1. ConnectionLocked' <=> ConnectionLocked
  BY LockedKept
<1>2. /\ intState \in IntState /\ state \in State /\ buffer \in {0, 1}
      /\ user \in UserPlace /\ user' \in UserPlace
  BY DEF Types, UserPlace
<1>3. /\ handler = Free /\ intState' = intState /\ state' \in State /\ handler' # Free
      /\ handler' \in [by : {t}, at : {"failed", "rejected", "new", "data", "idle", "tick"},
                       next : IntState, id : Nat]
  BY <1>2, HandleStep
<1>4. /\ buffer' = IF intState \in Dialing /\ handler'.next \notin Dialing
                   THEN buffer + 1 ELSE buffer
      /\ handler'.next \in Dialing => intState \in Dialing
      /\ handler'.next \in Early => intState \in Early
      /\ intState \in Ended => handler'.next = intState /\ handler'.at = "tick"
  BY <1>2, HandleStep
<1>5. /\ handler'.at \in {"rejected", "new"} => intState = "WAIT_FOR_ACSE_RESP"
      /\ handler'.at \in {"rejected", "new", "data"} => handler'.next = "WAIT_FOR_DATA_MSG"
      /\ handler'.at = "idle" => handler'.next \in Ended
  BY <1>2, HandleStep
<1>6. Upcoming = intState /\ Upcoming' = handler'.next /\ Down' = Down
  BY <1>3 DEF Upcoming, Down
<1>7. buffer' \in {0, 1} /\ BufferOwned'
  <2>1. ~Parsing /\ ~Parsing'
    BY <1>3 DEF Parsing
  <2> QED  BY <1>2, <1>4, <1>6, <2>1 DEF BufferOwned, Dialing, DownIsQuiet, Down, Ended
<1>8. Types'
  BY <1>2, <1>3, <1>7 DEF Types, Place
<1>9. HandlerKnown'
  BY <1>3, <1>5 DEF HandlerKnown, Message
<1>10. DownIsQuiet'
  BY <1>4, <1>6 DEF DownIsQuiet
<1>11. ClientKnown' /\ LockedHasClient'
  BY <1>1, <1>3, <1>4, <1>5, <1>6 DEF ClientKnown, LockedHasClient, HandlerAt, Early
<1> QED  BY <1>7, <1>8, <1>9, <1>10, <1>11

LEMMA UserConnection ==
  ASSUME ConnectionInv, UserNext
  PROVE  ConnectionInv'
<1> USE DEF ConnectionInv
<1>1. CASE Connect
  <2>1. ConnectionLocked' <=> ConnectionLocked
    BY <1>1, LockedKept DEF Connect, callVars
  <2>2. /\ user = "idle" /\ open = FALSE /\ open' = TRUE /\ user' = "connect" /\ Upcoming' = Upcoming
        /\ UNCHANGED <<intState, state, buffer, handler, endpointState, client, faulted>>
    BY <1>1 DEF Connect, connectionVars, Upcoming, Types
  <2>3. Types' /\ HandlerKnown'
    BY <2>2 DEF Types, HandlerKnown, UserPlace
  <2>4. DownIsQuiet'
    BY <2>2 DEF DownIsQuiet, Down
  <2>5. ClientKnown' /\ LockedHasClient'
    BY <2>1, <2>2 DEF ClientKnown, LockedHasClient, Down, HandlerAt
  <2>6. BufferOwned'
    BY <2>2 DEF BufferOwned, Parsing
  <2> QED  BY <2>3, <2>4, <2>5, <2>6
<1>2. CASE PrepareAssociate
  <2>1. ConnectionLocked' <=> ConnectionLocked
    BY <1>2, LockedKept DEF PrepareAssociate, callVars
  <2>2. /\ user = "connect" /\ user' = "associate" /\ buffer > 0 /\ buffer' = buffer - 1
        /\ endpointState' = "CONNECTING" /\ state' = "CONNECTING" /\ Upcoming' = Upcoming
        /\ UNCHANGED <<intState, handler, open, client, faulted>>
    BY <1>2 DEF PrepareAssociate, AllocateTransmitBuffer, Upcoming
  <2>3. Types' /\ HandlerKnown'
    BY <2>2 DEF Types, HandlerKnown, UserPlace, State
  <2>4. DownIsQuiet'
    BY <2>2 DEF DownIsQuiet, Down
  <2>5. ClientKnown' /\ LockedHasClient'
    BY <2>1, <2>2 DEF ClientKnown, LockedHasClient, Down, HandlerAt
  <2>6. BufferOwned'
    BY <2>2 DEF BufferOwned, Types, Parsing
  <2> QED  BY <2>3, <2>4, <2>5, <2>6
<1>3. CASE Associate
  <2>1. ConnectionLocked' <=> ConnectionLocked
    BY <1>3, LockedKept DEF Associate, callVars
  <2>2. /\ user = "associate" /\ handler = Free /\ handler' = Free
        /\ UNCHANGED <<endpointState, open, client>> /\ faulted' \subseteq Faults
        /\ \/ intState' = "TCP_CONNECTING" /\ user' = "idle" /\ UNCHANGED <<state, buffer>>
           \/ intState' = "ERROR" /\ user' = "failed" /\ state' = "ERROR" /\ buffer' = buffer + 1
    BY <1>3 DEF Associate, AssociateStarts, AssociateStartFails, NoteFault, ReleaseTransmitBuffer,
                Types
  <2>3. open /\ ~client /\ buffer = 0
    BY <2>2 DEF DownIsQuiet, ClientKnown, BufferOwned, HandlerAt, Down
  <2>4. Types' /\ HandlerKnown'
    BY <2>2, <2>3 DEF Types, HandlerKnown, UserPlace, State, IntState
  <2>5. DownIsQuiet'
    BY <2>2, <2>3 DEF DownIsQuiet, Down, Upcoming, Ended
  <2>6. ClientKnown' /\ LockedHasClient'
    BY <2>1, <2>2, <2>3 DEF ClientKnown, LockedHasClient
  <2>7. BufferOwned'
    BY <2>2, <2>3 DEF BufferOwned, Upcoming, Parsing
  <2> QED  BY <2>4, <2>5, <2>6, <2>7
<1>4. CASE ConnectFailed
  <2>1. ConnectionLocked' <=> ConnectionLocked
    BY <1>4, LockedKept DEF ConnectFailed, callVars
  <2>2. /\ user = "failed" /\ user' = "idle" /\ endpointState' = "ERROR" /\ Upcoming' = Upcoming
        /\ UNCHANGED <<intState, state, buffer, handler, open, client, faulted>>
    BY <1>4 DEF ConnectFailed, connectionVars, Upcoming
  <2>3. Types' /\ HandlerKnown'
    BY <2>2 DEF Types, HandlerKnown, UserPlace
  <2>4. DownIsQuiet'
    BY <2>2 DEF DownIsQuiet, Down
  <2>5. ClientKnown' /\ LockedHasClient'
    BY <2>1, <2>2 DEF ClientKnown, LockedHasClient, Down, HandlerAt
  <2>6. BufferOwned'
    BY <2>2 DEF BufferOwned, Parsing
  <2> QED  BY <2>3, <2>4, <2>5, <2>6
<1>5. CASE Disconnect
  <2>1. ConnectionLocked' <=> ConnectionLocked
    BY <1>5, LockedKept DEF Disconnect, callVars
  <2>2. /\ user = "idle" /\ user' = "close" /\ handler = Free /\ handler' = Free
        /\ intState \notin Ended /\ intState' = "CLOSING_CONNECTION"
        /\ buffer' = IF intState \in Dialing THEN buffer + 1 ELSE buffer
        /\ UNCHANGED <<state, endpointState, open, client, faulted>>
    BY <1>5 DEF Disconnect, Close, Closable, Ended, Dialing, ReleaseTransmitBuffer
  <2>3. open
    BY <2>2 DEF DownIsQuiet, Down, Upcoming
  <2>4. buffer' = 1
    BY <2>2 DEF BufferOwned, Upcoming, Dialing, Parsing
  <2>5. Types' /\ HandlerKnown'
    BY <2>2, <2>4 DEF Types, HandlerKnown, UserPlace, IntState
  <2>6. DownIsQuiet' /\ ~Down'
    BY <2>2, <2>3 DEF DownIsQuiet, Down
  <2>7. ClientKnown' /\ LockedHasClient'
    BY <2>1, <2>2, <2>6 DEF ClientKnown, LockedHasClient, HandlerAt, Upcoming, Early, Dialing
  <2>8. BufferOwned'
    BY <2>2, <2>4 DEF BufferOwned, Upcoming, Parsing
  <2> QED  BY <2>5, <2>6, <2>7, <2>8
<1>6. CASE CloseReturns
  <2>1. ConnectionLocked' <=> ConnectionLocked
    BY <1>6, LockedKept DEF CloseReturns, callVars
  <2>2. /\ user = "closed" /\ user' = "idle" /\ state' = "IDLE" /\ Upcoming' = Upcoming
        /\ UNCHANGED <<intState, buffer, handler, endpointState, open, client, faulted>>
    BY <1>6 DEF CloseReturns, Upcoming
  <2>3. Types' /\ HandlerKnown'
    BY <2>2 DEF Types, HandlerKnown, UserPlace, State
  <2>4. DownIsQuiet' /\ Down' = Down
    BY <2>2 DEF DownIsQuiet, Down
  <2>5. ClientKnown' /\ LockedHasClient'
    BY <2>1, <2>2, <2>4 DEF ClientKnown, LockedHasClient, HandlerAt
  <2>6. BufferOwned'
    BY <2>2 DEF BufferOwned, Parsing
  <2> QED  BY <2>3, <2>4, <2>5, <2>6
<1>7. CASE CloseHandles
  <2>1. Handle("user") /\ user = "close" /\ user' = "closing"
        /\ UNCHANGED <<caller, endpointState, open, client, faulted>>
    BY <1>7 DEF CloseHandles, callVars
  <2> QED  BY <2>1, HandleKeeps DEF Thread
<1> QED  BY <1>1, <1>2, <1>3, <1>4, <1>5, <1>6, <1>7 DEF UserNext

\* A callback that returns, or goes on to the next one.
LEMMA CallbackKeeps ==
  ASSUME ConnectionInv, handler # Free,
         handler' \in [by : Thread, at : Place, next : IntState, id : Nat], handler' # Free,
         handler'.by = handler.by, handler'.next = handler.next,
         intState' \in IntState, state' \in State, UNCHANGED user,
         \/ buffer' = buffer /\ (Parsing' <=> Parsing)
         \/ /\ handler.at \in {"response"} \cup Message
            /\ buffer' = IF Parsing' THEN 0 ELSE 1,
         endpointState' \in {"IDLE", "CONNECTING", "CONNECTED", "ERROR"}, faulted' \subseteq Faults,
         open' \in BOOLEAN, client' \in BOOLEAN, ConnectionLocked' => client'
  PROVE  /\ Types' /\ Upcoming' = Upcoming /\ BufferOwned' /\ LockedHasClient'
         /\ handler \in [by : Thread, at : Place, next : IntState, id : Nat]
<1> USE DEF ConnectionInv
<1>1. Upcoming' = Upcoming
  BY DEF Upcoming
<1>2. Types'
  BY DEF Types
<1>3. BufferOwned'
  <2>1. CASE buffer' = buffer /\ (Parsing' <=> Parsing)
    BY <1>1, <2>1 DEF BufferOwned
  <2>2. CASE /\ handler.at \in {"response"} \cup Message
             /\ buffer' = IF Parsing' THEN 0 ELSE 1
    <3>1. Upcoming = "WAIT_FOR_DATA_MSG" /\ ~Down
      BY <2>2 DEF HandlerKnown, Upcoming, DownIsQuiet, Message
    <3> QED  BY <1>1, <2>2, <3>1 DEF BufferOwned, Down
  <2> QED  BY <2>1, <2>2
<1>4. LockedHasClient'
  BY DEF LockedHasClient
<1> QED  BY <1>1, <1>2, <1>3, <1>4, HandlerFields

LEMMA CallbackConnection ==
  ASSUME ConnectionInv, Callers, Callback, requests \subseteq Nat
  PROVE  ConnectionInv'
<1> USE DEF ConnectionInv
<1> DEFINE Moved == /\ handler' \in [by : Thread, at : Place, next : IntState, id : Nat]
                    /\ handler' # Free /\ handler'.by = handler.by /\ handler'.next = handler.next
<1>0. /\ intState \in IntState /\ state \in State /\ buffer \in {0, 1} /\ user \in UserPlace
      /\ endpointState \in {"IDLE", "CONNECTING", "CONNECTED", "ERROR"} /\ faulted \subseteq Faults
      /\ open \in BOOLEAN /\ client \in BOOLEAN
  BY DEF Types
<1>1. CASE AssociationFailed \/ Closed1
  <2>1. /\ handler # Free /\ handler.at \in {"failed", "idle"}
        /\ (handler.at = "failed" /\ Goto("tick")) \/ (handler.at = "idle" /\ Goto("remove"))
        /\ endpointState' \in {"IDLE", "ERROR"}
        /\ UNCHANGED <<intState, state, buffer, open, user, client, faulted, caller>>
    BY <1>1 DEF AssociationFailed, Closed1, HandlerAt, callVars
  <2>2. Moved /\ (handler'.at = "tick" \/ (handler.at = "idle" /\ handler'.at = "remove"))
    BY <2>1, GotoFields DEF Place
  <2>3. ConnectionLocked' => client
    BY <2>1, LockedKept DEF LockedHasClient
  <2>4. Types' /\ Upcoming' = Upcoming /\ BufferOwned' /\ LockedHasClient'
    BY <1>0, <2>1, <2>2, <2>3, CallbackKeeps DEF Parsing
  <2>5. HandlerKnown'
    BY <2>1, <2>2 DEF HandlerKnown, Message
  <2>6. DownIsQuiet' /\ ~Down'
    BY <2>1, <2>2, <2>4 DEF DownIsQuiet, Down
  <2>7. ClientKnown'
    BY <2>1, <2>2, <2>4, <2>6 DEF ClientKnown, HandlerAt
  <2> QED  BY <2>4, <2>5, <2>6, <2>7
<1>2. CASE RejectedGoesOn
  <2>1. /\ handler # Free /\ handler.at = "rejected" /\ Goto("new") /\ faulted' \subseteq Faults
        /\ endpointState' = "ERROR" /\ state' = "CONNECTED"
        /\ UNCHANGED <<intState, buffer, open, user, client, caller>>
    BY <1>2, <1>0 DEF RejectedGoesOn, HandlerAt, NoteFault, callVars
  <2>2. Moved /\ handler'.at = "new"
    BY <2>1, GotoFields DEF Place
  <2>3. ConnectionLocked' => client
    BY <2>1, LockedKept DEF LockedHasClient
  <2>4. Types' /\ Upcoming' = Upcoming /\ BufferOwned' /\ LockedHasClient'
    BY <1>0, <2>1, <2>2, <2>3, CallbackKeeps DEF State, Parsing
  <2>5. HandlerKnown'
    BY <2>1, <2>2 DEF HandlerKnown, Message
  <2>6. DownIsQuiet' /\ ~Down'
    BY <2>1, <2>2, <2>4 DEF DownIsQuiet, Down
  <2>7. ClientKnown'
    BY <2>1, <2>2, <2>4, <2>6 DEF ClientKnown, HandlerAt
  <2> QED  BY <2>4, <2>5, <2>6, <2>7
<1>3. CASE NewConnection
  <2>1. /\ handler # Free /\ handler.at = "new" /\ faulted' \subseteq Faults /\ client' = TRUE
        /\ Goto("response")
        /\ UNCHANGED <<intState, state, buffer, endpointState, open, user, caller>>
    BY <1>3, <1>0 DEF NewConnection, HandlerAt
  <2>2. Moved /\ handler'.at = "response"
    BY <2>1, GotoFields DEF Place
  <2>3. Types' /\ Upcoming' = Upcoming /\ BufferOwned' /\ LockedHasClient'
    BY <1>0, <2>1, <2>2, CallbackKeeps DEF Parsing
  <2>4. HandlerKnown' /\ Upcoming = "WAIT_FOR_DATA_MSG"
    BY <2>1, <2>2 DEF HandlerKnown, Upcoming, Message
  <2>5. DownIsQuiet' /\ ~Down'
    BY <2>1, <2>2, <2>3 DEF DownIsQuiet, Down
  <2>6. ClientKnown'
    BY <2>1, <2>2, <2>3, <2>4, <2>5 DEF ClientKnown, HandlerAt, Early, Dialing
  <2> QED  BY <2>3, <2>4, <2>5, <2>6
<1>4. CASE EmptyPayload \/ TakeBuffer \/ InitiateResponse \/ LateInitiate \/ ConcludeResponse
             \/ ResponseDone \/ OtherData
  <2>1. /\ handler # Free /\ handler.at \in {"response"} \cup Message
        /\ \/ Parsing /\ handler' = [handler EXCEPT !.at = "tick"] /\ buffer' = buffer + 1
           \/ ~Parsing /\ handler' = [handler EXCEPT !.at = "tick"] /\ buffer' = buffer
           \/ /\ \/ ~Parsing /\ buffer > 0 /\ buffer' = buffer - 1
                 \/ Parsing /\ buffer' = buffer
              /\ \E place \in Message \ {"data"} : handler' = [handler EXCEPT !.at = place]
    BY <1>4 DEF EmptyPayload, TakeBuffer, AllocateTransmitBuffer, InitiateResponse, LateInitiate,
                ConcludeResponse, ResponseDone, OtherData, Handled, ReleaseTransmitBuffer, Goto,
                HandlerAt, Parsing, Message
  <2>2. /\ intState' \in {intState, "CLOSE_ON_ERROR"}
        /\ endpointState' \in {endpointState, "IDLE", "CONNECTED"} /\ faulted' \subseteq Faults
        /\ UNCHANGED <<state, open, user, client, caller>>
    BY <1>4, <1>0 DEF EmptyPayload, TakeBuffer, InitiateResponse, LateInitiate, ConcludeResponse,
                      ResponseDone, OtherData, NoteFault, callVars
  <2>3. Moved /\ handler'.at \in {"tick"} \cup (Message \ {"data"})
    BY <2>1, HandlerFields DEF Place, Free, Thread, Message
  <2>4. buffer' = IF Parsing' THEN 0 ELSE 1
    <3>1. buffer \in {0, 1} /\ (Parsing => buffer = 0)
      BY <1>0 DEF BufferOwned
    <3>2. Parsing' <=> handler'.at # "tick"
      BY <2>3 DEF Parsing, Message
    <3>3. CASE handler' = [handler EXCEPT !.at = "tick"]
      <4>1. handler'.at = "tick"
        BY <2>1, <3>3, HandlerFields
      <4>2. ~Parsing => buffer = 1
        BY <2>1 DEF BufferOwned, HandlerKnown, DownIsQuiet, Down, Upcoming, Message
      <4>3. ~\E place \in Message \ {"data"} : handler' = [handler EXCEPT !.at = place]
        BY <2>1, <4>1, HandlerFields DEF Message
      <4> QED  BY <2>1, <3>1, <3>2, <4>1, <4>2, <4>3
    <3>4. CASE \E place \in Message \ {"data"} : handler' = [handler EXCEPT !.at = place]
      <4>1. handler'.at # "tick"
        BY <2>1, <3>4, HandlerFields DEF Message
      <4> QED  BY <2>1, <3>1, <3>2, <4>1, HandlerFields
    <3> QED  BY <2>1, <3>3, <3>4
  <2>5. ConnectionLocked' => client
    BY <2>2, LockedKept DEF LockedHasClient
  <2>6. intState' \in IntState
        /\ endpointState' \in {"IDLE", "CONNECTING", "CONNECTED", "ERROR"}
    BY <1>0, <2>2 DEF IntState
  <2>7. Types' /\ Upcoming' = Upcoming /\ BufferOwned' /\ LockedHasClient'
    BY <1>0, <2>1, <2>2, <2>3, <2>4, <2>5, <2>6, CallbackKeeps
  <2>8. HandlerKnown'
    BY <2>1, <2>2, <2>3 DEF HandlerKnown, Message
  <2>9. DownIsQuiet' /\ ~Down'
    BY <2>1, <2>2, <2>3, <2>7 DEF DownIsQuiet, Down, Message
  <2>10. ClientKnown'
    BY <2>1, <2>2, <2>3, <2>7, <2>9 DEF ClientKnown, HandlerAt, Message
  <2> QED  BY <2>7, <2>8, <2>9, <2>10
<1>5. ASSUME NEW id \in requests, Response(id) PROVE ConnectionInv'
  <2>1. /\ handler # Free /\ handler.at = "parse" /\ handler' = [handler EXCEPT !.at = "answered", !.id = id]
        /\ CallBack(Outstanding(id))
        /\ UNCHANGED <<intState, state, buffer, endpointState, open, user, client, faulted>>
    BY <1>5 DEF Response, HandlerAt
  <2>2. Moved /\ handler'.at = "answered"
    BY <2>1, <1>5, HandlerFields DEF Place, Free, Thread
  <2>3. ConnectionLocked' => client
    BY <2>1, CallBackLocks DEF LockedHasClient
  <2>4. Types' /\ Upcoming' = Upcoming /\ BufferOwned' /\ LockedHasClient'
    BY <1>0, <2>1, <2>2, <2>3, CallbackKeeps DEF Parsing
  <2>5. HandlerKnown'
    BY <2>1, <2>2 DEF HandlerKnown, Message
  <2>6. DownIsQuiet' /\ ~Down'
    BY <2>1, <2>2, <2>4 DEF DownIsQuiet, Down
  <2>7. ClientKnown'
    BY <2>1, <2>2, <2>4, <2>6 DEF ClientKnown, HandlerAt
  <2> QED  BY <2>4, <2>5, <2>6, <2>7
<1>6. CASE Closed2
  <2>1. /\ handler # Free /\ handler.at = "remove" /\ Goto("closed") /\ open' = FALSE
        /\ UNCHANGED <<intState, state, buffer, endpointState, user, client, faulted, caller>>
    BY <1>6 DEF Closed2, HandlerAt, callVars
  <2>2. Moved /\ handler'.at = "closed"
    BY <2>1, GotoFields DEF Place
  <2>3. ConnectionLocked' => client
    BY <2>1, LockedKept DEF LockedHasClient
  <2>4. Types' /\ Upcoming' = Upcoming /\ BufferOwned' /\ LockedHasClient'
    BY <1>0, <2>1, <2>2, <2>3, CallbackKeeps DEF Parsing
  <2>5. HandlerKnown' /\ Upcoming \in Ended
    BY <2>1, <2>2 DEF HandlerKnown, Upcoming, Message
  <2>6. DownIsQuiet'
    BY <2>1, <2>2, <2>4, <2>5 DEF DownIsQuiet, Down
  <2>7. ClientKnown'
    BY <2>1, <2>2, <2>4 DEF ClientKnown, HandlerAt
  <2> QED  BY <2>4, <2>5, <2>6, <2>7
<1>7. CASE ClosedHandler
  <2>1. /\ handler # Free /\ handler.at = "closed" /\ Goto("destroy") /\ client' = FALSE
        /\ ~ConnectionLocked
        /\ UNCHANGED <<intState, state, buffer, endpointState, open, user, faulted, caller>>
    BY <1>7 DEF ClosedHandler, HandlerAt, callVars
  <2>2. Moved /\ handler'.at = "destroy"
    BY <2>1, GotoFields DEF Place
  <2>3. ~ConnectionLocked'
    BY <2>1, LockedKept
  <2>4. Types' /\ Upcoming' = Upcoming /\ BufferOwned' /\ LockedHasClient'
    BY <1>0, <2>1, <2>2, <2>3, CallbackKeeps DEF Parsing
  <2>5. HandlerKnown'
    BY <2>1, <2>2 DEF HandlerKnown, Message
  <2>6. DownIsQuiet'
    BY <2>1, <2>2, <2>4 DEF DownIsQuiet, Down
  <2>7. ClientKnown'
    BY <2>1 DEF ClientKnown
  <2> QED  BY <2>4, <2>5, <2>6, <2>7
<1>8. CASE Destroy
  <2>1. /\ handler # Free /\ handler.at = "destroy" /\ Goto("tick") /\ CallBack(calls)
        /\ UNCHANGED <<intState, state, buffer, endpointState, open, user, client, faulted>>
    BY <1>8 DEF Destroy, HandlerAt
  <2>2. Moved /\ handler'.at = "tick"
    BY <2>1, GotoFields DEF Place
  <2>3. ConnectionLocked' => client
    BY <2>1, CallBackLocks DEF LockedHasClient
  <2>4. Types' /\ Upcoming' = Upcoming /\ BufferOwned' /\ LockedHasClient'
    BY <1>0, <2>1, <2>2, <2>3, CallbackKeeps DEF Parsing
  <2>5. HandlerKnown'
    BY <2>1, <2>2 DEF HandlerKnown, Message
  <2>6. DownIsQuiet' /\ Down' = Down
    BY <2>1, <2>2, <2>4 DEF DownIsQuiet, Down
  <2>7. ClientKnown'
    BY <2>1, <2>2, <2>4, <2>6 DEF ClientKnown, HandlerAt
  <2> QED  BY <2>4, <2>5, <2>6, <2>7
<1>9. CASE NothingExpires \/ \E e \in calls : Expire(e)
  <2>1. /\ handler # Free /\ handler.at = "tick" /\ handler' = Free /\ intState' = handler.next
        /\ user' = IF handler.by = "user" THEN "closed" ELSE user
        /\ UNCHANGED <<state, buffer, endpointState, open, client, faulted>>
        /\ UNCHANGED caller \/ \E e \in calls : CallBack({e})
    BY <1>9 DEF NothingExpires, Expire, End, HandlerAt, callVars
  <2>2. ConnectionLocked' => client
    BY <2>1, LockedKept, CallBackLocks DEF LockedHasClient
  <2>3. handler.next \in IntState /\ Upcoming' = Upcoming
    BY <2>1, HandlerFields DEF Upcoming
  <2>4. user' \in UserPlace /\ (user' = user \/ (user = "closing" /\ user' = "closed"))
    BY <1>0, <2>1 DEF HandlerKnown, UserPlace
  <2>5. Down' = Down
    BY <2>1, <2>4 DEF Down
  <2>6. Types' /\ HandlerKnown' /\ LockedHasClient'
    BY <1>0, <2>1, <2>2, <2>3, <2>4 DEF Types, HandlerKnown, LockedHasClient
  <2>7. DownIsQuiet' /\ BufferOwned'
    BY <2>1, <2>3, <2>4, <2>5 DEF DownIsQuiet, BufferOwned, Parsing
  <2>8. ClientKnown'
    BY <2>1, <2>3, <2>5 DEF ClientKnown, HandlerAt
  <2> QED  BY <2>6, <2>7, <2>8
<1> QED  BY <1>1, <1>2, <1>3, <1>4, <1>5, <1>6, <1>7, <1>8, <1>9 DEF Callback

\* Of the connection a caller only asks for a close.
LEMMA RequestConnection ==
  ASSUME ConnectionInv, Callers,
         NEW c \in Caller, Request(c)
  PROVE  ConnectionInv'
<1> USE DEF ConnectionInv
<1>1. UNCHANGED <<state, buffer, handler, endpointState, open, user, client, faulted>>
  BY DEF Request, LockConnection, SendAsyncRequest, CheckState, Send, SendFails, Return, connectionVars
<1>2. \A d \in Caller : d # c => caller'[d] = caller[d]
  BY DEF Request, LockConnection, SendAsyncRequest, CheckState, Send, Return, Goes, Callers
<1>3. ConnectionLocked' => client
  <2>1. CASE LockConnection(c)
    BY <2>1 DEF LockConnection
  <2>2. CASE ConnectionLocked
    BY <2>2 DEF LockedHasClient
  <2>3. CASE SendAsyncRequest(c) \/ CheckState(c) \/ Send(c)
    <3>1. ConnectionLocked
      BY <2>3 DEF SendAsyncRequest, CheckState, Send, ConnectionLocked
    <3> QED  BY <3>1 DEF LockedHasClient
  <2>4. CASE Return(c) /\ ~ConnectionLocked
    <3>1. caller'[c].at = "idle"
      BY <2>4 DEF Return, Resting, Callers
    <3>2. ~ConnectionLocked'
      BY <1>2, <2>4, <3>1 DEF ConnectionLocked
    <3> QED  BY <3>2
  <2> QED  BY <2>1, <2>2, <2>3, <2>4 DEF Request
<1>4. CASE UNCHANGED intState
  BY <1>1, <1>3, <1>4, ConnectionFrame DEF Types
<1>5. CASE intState' = "CLOSE_ON_ERROR" /\ caller[c].at = "sending"
  <2>1. client
    BY <1>5 DEF LockedHasClient, ConnectionLocked
  <2>2. Down' = Down /\ (handler # Free => Upcoming' = Upcoming)
        /\ (handler = Free => ~Down /\ Upcoming' = "CLOSE_ON_ERROR")
    BY <1>1, <1>5, <2>1 DEF Down, Upcoming, ClientKnown, HandlerAt
  <2>3. Types' /\ HandlerKnown' /\ LockedHasClient'
    BY <1>1, <1>3, <1>5 DEF Types, HandlerKnown, LockedHasClient, IntState
  <2>4. DownIsQuiet'
    BY <1>1, <2>2 DEF DownIsQuiet
  <2>5. ClientKnown'
    BY <1>1, <2>1, <2>2 DEF ClientKnown, HandlerAt, Early, Dialing
  <2>6. BufferOwned'
    BY <1>1, <2>1, <2>2 DEF BufferOwned, ClientKnown, Early, Dialing, Down, Parsing
  <2> QED  BY <2>3, <2>4, <2>5, <2>6
<1>6. UNCHANGED intState \/ (intState' = "CLOSE_ON_ERROR" /\ caller[c].at = "sending")
  BY DEF Request, LockConnection, SendAsyncRequest, CheckState, Send, SendFails, Return, connectionVars
<1> QED  BY <1>4, <1>5, <1>6

-----------------------------------------------------------------------------
(* The calls.                                                               *)

Active(c) == caller[c].at \in {"added", "sending", "waiting"}

\* The table, and the requests under way, are of this connection.
TableKnown ==
  /\ calls \subseteq Entry /\ lastInvokeId \in Nat
  /\ IsFiniteSet(calls) /\ Cardinality(calls) <= MaxCalls
  /\ \A e \in calls : e.id \in 1..lastInvokeId
  /\ requests \subseteq 1..lastInvokeId
  /\ calls # {} => client \/ HandlerAt("destroy")

\* What a caller has got so far.
CallersKnown ==
  /\ Callers
  /\ \A c \in Caller : caller[c].at \in {"idle", "locked"} => caller[c].id = 0
  /\ \A c \in Caller : caller[c].at \in {"added", "sending"} => caller[c].id \in 1..lastInvokeId

\* Who waits for an answer that is being handled has been called back.
AnsweredKnown ==
  HandlerAt("answered") =>
    /\ handler.id \in 1..lastInvokeId
    /\ \A c \in Caller : Active(c) /\ caller[c].id = handler.id => caller[c].done

CallsInv == TableKnown /\ CallersKnown /\ AnsweredKnown /\ CalledBackOnce

LEMMA InitCalls == Init => CallsInv
<1> SUFFICES ASSUME Init PROVE CallsInv
  OBVIOUS
<1>1. handler = Free /\ calls = {} /\ lastInvokeId = 0 /\ requests = {}
      /\ caller = [c \in Caller |-> Resting]
  BY DEF Init, ConnectionInit, NewTable
<1>2. Callers /\ \A c \in Caller : caller[c].at = "idle" /\ caller[c].id = 0
  BY <1>1 DEF Callers, Resting, CallerPlace
<1>3. TableKnown
  BY <1>1, FS_EmptySet, MaxCallsAssumption DEF TableKnown
<1>4. CallersKnown
  BY <1>2 DEF CallersKnown
<1>5. AnsweredKnown /\ CalledBackOnce
  BY <1>1, <1>2 DEF AnsweredKnown, CalledBackOnce, HandlerAt
<1> QED  BY <1>3, <1>4, <1>5 DEF CallsInv

LEMMA CallsFrame ==
  ASSUME CallsInv, UNCHANGED callVars,
         HandlerAt("answered") \/ HandlerAt("answered")' => handler' = handler,
         client \/ HandlerAt("destroy") => client' \/ HandlerAt("destroy")'
  PROVE  CallsInv'
<1>1. UNCHANGED <<calls, lastInvokeId, caller, requests>>
  BY DEF callVars
<1>2. TableKnown' /\ CallersKnown'
  BY <1>1 DEF CallsInv, TableKnown, CallersKnown, Callers
<1>3. AnsweredKnown'
  BY <1>1 DEF CallsInv, AnsweredKnown, Active, HandlerAt
<1>4. CalledBackOnce'
  BY <1>1 DEF CallsInv, CalledBackOnce, HandlerAt
<1> QED  BY <1>2, <1>3, <1>4 DEF CallsInv

LEMMA HandleCalls ==
  ASSUME ConnectionInv, CallsInv, NEW t \in Thread, Handle(t), UNCHANGED callVars, UNCHANGED client
  PROVE  CallsInv'
<1>1. handler = Free /\ handler'.at # "answered"
  BY HandleStep DEF ConnectionInv, Types
<1> QED  BY <1>1, CallsFrame DEF HandlerAt

LEMMA UserCalls ==
  ASSUME ConnectionInv, CallsInv, UserNext
  PROVE  CallsInv'
<1>1. CASE CloseHandles
  BY <1>1, HandleCalls DEF CloseHandles, Thread
<1>2. CASE ~CloseHandles
  <2>1. UNCHANGED callVars /\ UNCHANGED <<handler, client>>
    BY <1>2 DEF UserNext, Connect, PrepareAssociate, Associate, AssociateStarts, AssociateStartFails,
                ConnectFailed, Disconnect, Close, CloseReturns, connectionVars
  <2> QED  BY <2>1, CallsFrame DEF HandlerAt
<1> QED  BY <1>1, <1>2

LEMMA CallBackFields ==
  ASSUME Callers, NEW entries, CallBack(entries)
  PROVE  /\ Callers'
         /\ \A c \in Caller : caller'[c].at = caller[c].at /\ caller'[c].id = caller[c].id
         /\ \A c \in Caller : caller'[c].done <=> (caller[c].done \/ \E e \in entries : e.by = c)
<1>1. ASSUME NEW c \in Caller
      PROVE  /\ caller'[c] \in [at : CallerPlace, id : Nat, done : BOOLEAN]
             /\ caller'[c].at = caller[c].at /\ caller'[c].id = caller[c].id
             /\ caller'[c].done <=> (caller[c].done \/ \E e \in entries : e.by = c)
  <2>0. caller[c] \in [at : CallerPlace, id : Nat, done : BOOLEAN]
    BY DEF Callers
  <2>1. CASE \E e \in entries : e.by = c
    <3>1. caller'[c] = [caller[c] EXCEPT !.done = TRUE]
      BY <2>1 DEF CallBack
    <3> QED  BY <2>0, <2>1, <3>1
  <2>2. CASE ~\E e \in entries : e.by = c
    <3>1. caller'[c] = caller[c]
      BY <2>2 DEF CallBack
    <3> QED  BY <2>0, <2>2, <3>1
  <2> QED  BY <2>1, <2>2
<1>2. Callers'
  BY <1>1 DEF Callers, CallBack
<1> QED  BY <1>1, <1>2

LEMMA SubTable ==
  ASSUME IsFiniteSet(calls), Cardinality(calls) <= MaxCalls, NEW T \in SUBSET calls
  PROVE  IsFiniteSet(T) /\ Cardinality(T) <= MaxCalls
BY FS_Subset, FS_CardinalityType, MaxCallsAssumption

LEMMA ResponseCalls ==
  ASSUME ConnectionInv, CallsInv, NEW id \in requests, Response(id)
  PROVE  CallsInv'
<1> USE DEF CallsInv
<1>1. /\ handler # Free /\ handler.at = "parse" /\ handler' = [handler EXCEPT !.at = "answered", !.id = id]
      /\ requests' = requests \ {id} /\ CallBack(Outstanding(id))
      /\ UNCHANGED <<calls, lastInvokeId, client>>
  BY DEF Response, HandlerAt
<1>2. id \in 1..lastInvokeId /\ ~HandlerAt("destroy") /\ ~HandlerAt("answered")
  BY <1>1 DEF TableKnown, HandlerAt
<1>3. handler' # Free /\ handler'.at = "answered" /\ handler'.id = id
  BY <1>1, HandlerFields DEF ConnectionInv, Free, Thread
<1>4. /\ Callers'
      /\ \A c \in Caller : caller'[c].at = caller[c].at /\ caller'[c].id = caller[c].id
      /\ \A c \in Caller : caller'[c].done <=> (caller[c].done \/ \E e \in Outstanding(id) : e.by = c)
  BY <1>1, CallBackFields DEF CallersKnown
<1>5. TableKnown'
  BY <1>1, <1>2 DEF TableKnown
<1>6. CallersKnown'
  BY <1>1, <1>4 DEF CallersKnown
<1>7. AnsweredKnown'
  <2>1. ASSUME NEW c \in Caller, Active(c)', caller'[c].id = id
        PROVE  caller'[c].done
    <3>1. CASE caller[c].done
      BY <1>4, <3>1
    <3>2. CASE ~caller[c].done
      <4>1. [id |-> id, by |-> c] \in Outstanding(id)
        BY <1>4, <2>1, <3>2 DEF CalledBackOnce, Active, Outstanding
      <4> QED  BY <1>4, <4>1
    <3> QED  BY <3>1, <3>2
  <2> QED  BY <1>1, <1>2, <1>3, <2>1 DEF AnsweredKnown
<1>8. CalledBackOnce'
  <2>1. ASSUME NEW e \in calls, e.id # id
        PROVE  caller'[e.by].id = e.id /\ ~caller'[e.by].done
    <3>1. e.by \in Caller /\ caller[e.by].id = e.id /\ ~caller[e.by].done
      BY <1>2, <2>1 DEF CalledBackOnce, TableKnown, Entry
    <3>2. \A f \in Outstanding(id) : f.by # e.by
      BY <1>2, <2>1, <3>1 DEF CalledBackOnce, Outstanding
    <3> QED  BY <1>4, <3>1, <3>2
  <2>2. ASSUME NEW c \in Caller, Active(c), ~caller'[c].done
        PROVE  [id |-> caller'[c].id, by |-> c] \in calls
    BY <1>4, <2>2 DEF CalledBackOnce, Active
  <2> QED  BY <1>1, <1>3, <1>4, <2>1, <2>2 DEF CalledBackOnce, HandlerAt, Active
<1> QED  BY <1>5, <1>6, <1>7, <1>8

LEMMA ResponseDoneCalls ==
  ASSUME ConnectionInv, CallsInv, ResponseDone
  PROVE  CallsInv'
<1> USE DEF CallsInv
<1>1. /\ handler # Free /\ handler.at = "answered" /\ Goto("tick") /\ RemoveCall(handler.id)
      /\ UNCHANGED <<lastInvokeId, caller, requests, client>>
  BY DEF ResponseDone, Handled, HandlerAt
<1>2. handler' # Free /\ handler'.at = "tick"
  BY <1>1, GotoFields DEF ConnectionInv, Place
<1>3. calls' = {e \in calls : e.id # handler.id} /\ calls' \subseteq calls
  BY <1>1 DEF RemoveCall, Outstanding
<1>4. TableKnown'
  <2>1. IsFiniteSet(calls') /\ Cardinality(calls') <= MaxCalls
    BY <1>3, SubTable DEF TableKnown
  <2> QED  BY <1>1, <1>3, <2>1 DEF TableKnown, HandlerAt
<1>5. CallersKnown'
  BY <1>1 DEF CallersKnown, Callers
<1>6. AnsweredKnown'
  BY <1>2 DEF AnsweredKnown, HandlerAt
<1>7. CalledBackOnce'
  BY <1>1, <1>2, <1>3 DEF CalledBackOnce, AnsweredKnown, HandlerAt, Active
<1> QED  BY <1>4, <1>5, <1>6, <1>7

\* The calls of a connection that is lost, and a call whose time is over.
LEMMA EndedCalls ==
  ASSUME ConnectionInv, CallsInv, ~HandlerAt("answered"), ~HandlerAt("answered")',
         NEW ended \in SUBSET calls, CallBack(ended), calls' = calls \ ended,
         UNCHANGED <<lastInvokeId, requests>>,
         calls' # {} => client' \/ HandlerAt("destroy")'
  PROVE  CallsInv'
<1> USE DEF CallsInv
<1>1. /\ Callers'
      /\ \A c \in Caller : caller'[c].at = caller[c].at /\ caller'[c].id = caller[c].id
      /\ \A c \in Caller : caller'[c].done <=> (caller[c].done \/ \E e \in ended : e.by = c)
  BY CallBackFields DEF CallersKnown
<1>2. TableKnown'
  <2>1. IsFiniteSet(calls') /\ Cardinality(calls') <= MaxCalls
    BY SubTable DEF TableKnown
  <2> QED  BY <2>1 DEF TableKnown
<1>3. CallersKnown'
  BY <1>1 DEF CallersKnown
<1>4. AnsweredKnown'
  BY DEF AnsweredKnown
<1>5. ASSUME NEW e \in calls, e \notin ended
      PROVE  caller'[e.by].id = e.id /\ ~caller'[e.by].done
  <2>1. e.by \in Caller /\ caller[e.by].id = e.id /\ ~caller[e.by].done
    BY <1>5 DEF CalledBackOnce, TableKnown, Entry
  <2>2. ASSUME NEW f \in ended, f.by = e.by
        PROVE  FALSE
    <3>1. f \in Entry /\ e \in Entry /\ f.id = e.id
      BY <2>1, <2>2 DEF CalledBackOnce, TableKnown
    <3> QED  BY <1>5, <2>2, <3>1 DEF Entry
  <2> QED  BY <1>1, <2>1, <2>2
<1>6. ASSUME NEW c \in Caller, Active(c), ~caller'[c].done
      PROVE  [id |-> caller'[c].id, by |-> c] \in calls'
  BY <1>1, <1>6 DEF CalledBackOnce, Active
<1>7. CalledBackOnce'
  BY <1>1, <1>5, <1>6 DEF CalledBackOnce, Active
<1> QED  BY <1>2, <1>3, <1>4, <1>7

LEMMA CallbackCalls ==
  ASSUME ConnectionInv, CallsInv, Callback
  PROVE  CallsInv'
<1> USE DEF CallsInv
<1>1. CASE AssociationFailed \/ Closed1 \/ Closed2 \/ ClosedHandler
  <2>1. /\ handler # Free /\ handler.at \in {"failed", "idle", "remove", "closed"}
        /\ UNCHANGED callVars
        /\ \/ Goto("tick") \/ Goto("remove") \/ Goto("closed")
           \/ Goto("destroy")
        /\ UNCHANGED client \/ Goto("destroy")
    BY <1>1 DEF AssociationFailed, Closed1, Closed2, ClosedHandler, HandlerAt
  <2>2. handler' # Free /\ handler'.at # "answered"
        /\ (Goto("destroy") => handler'.at = "destroy")
    BY <2>1, GotoFields DEF ConnectionInv, Place
  <2> QED  BY <2>1, <2>2, CallsFrame DEF HandlerAt
<1>2. CASE RejectedGoesOn \/ EmptyPayload \/ TakeBuffer
  <2>1. /\ handler # Free /\ handler.at \in {"rejected", "response", "data"}
        /\ UNCHANGED callVars /\ UNCHANGED client
        /\ Goto("tick") \/ Goto("new") \/ Goto("initiate") \/ Goto("parse")
    BY <1>2 DEF RejectedGoesOn, EmptyPayload, TakeBuffer, HandlerAt
  <2>2. handler' # Free /\ handler'.at # "answered"
    BY <2>1, GotoFields DEF ConnectionInv, Place
  <2> QED  BY <2>1, <2>2, CallsFrame DEF HandlerAt
<1>3. CASE InitiateResponse \/ LateInitiate \/ ConcludeResponse \/ OtherData
  <2>1. /\ handler # Free /\ handler.at \in {"initiate", "parse"}
        /\ UNCHANGED callVars /\ UNCHANGED client
        /\ Goto("tick") \/ Goto("selfClose") \/ Goto("concluded")
    BY <1>3 DEF InitiateResponse, LateInitiate, ConcludeResponse, OtherData, Handled, HandlerAt
  <2>2. handler' # Free /\ handler'.at # "answered"
    BY <2>1, GotoFields DEF ConnectionInv, Place
  <2> QED  BY <2>1, <2>2, CallsFrame DEF HandlerAt
<1>4. CASE NothingExpires
  <2>1. handler.at = "tick" /\ handler' = Free /\ UNCHANGED callVars /\ UNCHANGED client
    BY <1>4 DEF NothingExpires, End, HandlerAt
  <2> QED  BY <2>1, CallsFrame DEF HandlerAt
<1>5. ASSUME NEW e \in calls, Expire(e) PROVE CallsInv'
  <2>1. /\ handler.at = "tick" /\ handler' = Free /\ UNCHANGED <<lastInvokeId, requests, client>>
        /\ CallBack({e}) /\ calls' = calls \ {e}
    BY <1>5 DEF Expire, End, HandlerAt
  <2>2. calls' # {} => client'
    BY <1>5, <2>1 DEF TableKnown, HandlerAt
  <2>3. ~HandlerAt("answered") /\ ~HandlerAt("answered")'
    BY <2>1 DEF HandlerAt
  <2>4. {e} \in SUBSET calls
    BY <1>5
  <2> QED  BY <2>1, <2>2, <2>3, <2>4, EndedCalls
<1>6. CASE Destroy
  <2>1. /\ handler # Free /\ handler.at = "destroy" /\ Goto("tick") /\ CallBack(calls) /\ calls' = {}
        /\ UNCHANGED <<lastInvokeId, requests>>
    BY <1>6 DEF Destroy, HandlerAt
  <2>2. handler'.at = "tick"
    BY <2>1, GotoFields DEF ConnectionInv, Place
  <2>3. calls' = calls \ calls
    BY <2>1
  <2> QED  BY <2>1, <2>2, <2>3, EndedCalls DEF HandlerAt
<1>7. CASE NewConnection
  <2>1. /\ handler # Free /\ handler.at = "new"
        /\ Goto("response")
        /\ client' = TRUE /\ lastInvokeId' = 0 /\ requests' = {} /\ UNCHANGED <<calls, caller>>
        /\ ~ConnectionLocked
    BY <1>7 DEF NewConnection, HandlerAt
  <2>2. handler' # Free /\ handler'.at # "answered"
    BY <2>1, GotoFields DEF ConnectionInv, Place
  <2>3. calls = {}
    BY <2>1 DEF TableKnown, ConnectionInv, ClientKnown, HandlerAt
  <2>4. TableKnown'
    BY <2>1, <2>3 DEF TableKnown
  <2>5. CallersKnown'
    BY <2>1 DEF CallersKnown, Callers, ConnectionLocked
  <2>6. AnsweredKnown' /\ CalledBackOnce'
    BY <2>1, <2>2, <2>3 DEF AnsweredKnown, CalledBackOnce, HandlerAt
  <2> QED  BY <2>4, <2>5, <2>6
<1> QED
  BY <1>1, <1>2, <1>3, <1>4, <1>5, <1>6, <1>7, ResponseCalls, ResponseDoneCalls DEF Callback

\* A caller between the lock and the answer.
LEMMA CallerMoves ==
  ASSUME CallsInv, NEW c \in Caller, UNCHANGED <<calls, lastInvokeId, handler, client>>,
         requests' \subseteq 1..lastInvokeId, Callers',
         \A d \in Caller : d # c => caller'[d] = caller[d],
         caller'[c].id = caller[c].id, caller'[c].done <=> caller[c].done,
         \/ caller[c].at = "idle" /\ caller'[c].at = "locked"
         \/ caller[c].at = "added" /\ caller'[c].at \in {"sending", "waiting"}
         \/ caller[c].at = "sending" /\ caller'[c].at = "waiting"
  PROVE  CallsInv'
<1> USE DEF CallsInv
<1>1. TableKnown'
  BY DEF TableKnown, HandlerAt
<1>2. CallersKnown'
  BY DEF CallersKnown
<1>3. AnsweredKnown'
  BY DEF AnsweredKnown, Active, HandlerAt
<1>4. \A e \in calls : caller'[e.by].id = caller[e.by].id /\ (caller'[e.by].done <=> caller[e.by].done)
  BY DEF TableKnown, Entry
<1>5. CalledBackOnce'
  BY <1>4 DEF CalledBackOnce, HandlerAt
<1> QED  BY <1>1, <1>2, <1>3, <1>5

LEMMA SendAsyncCalls ==
  ASSUME ConnectionInv, CallsInv, NEW c \in Caller, SendAsyncRequest(c)
  PROVE  CallsInv'
<1> USE DEF CallsInv
<1>1. /\ caller[c].at = "locked" /\ lastInvokeId' = lastInvokeId + 1 /\ UNCHANGED <<handler, client, requests>>
      /\ \A d \in Caller : d # c => caller'[d] = caller[d]
  BY DEF SendAsyncRequest, CallersKnown, Callers, connectionVars
<1>2. caller[c].id = 0 /\ lastInvokeId \in Nat /\ client
  BY <1>1 DEF CallersKnown, TableKnown, ConnectionInv, LockedHasClient, ConnectionLocked
<1>3. \A e \in calls : e.by # c \/ (HandlerAt("answered") /\ handler.id = e.id)
  BY <1>1, <1>2 DEF CalledBackOnce, TableKnown
<1>4. AnsweredKnown' /\ CallersKnown'
      /\ (IF HasRoom THEN calls' = calls \cup {[id |-> lastInvokeId + 1, by |-> c]} ELSE calls' = calls)
      /\ (HasRoom => caller'[c].at = "added" /\ caller'[c].id = lastInvokeId + 1 /\ ~caller'[c].done)
      /\ (~HasRoom => caller'[c].at = "idle")
  <2>1. CASE HasRoom
    <3>1. caller' = [caller EXCEPT ![c] = [at |-> "added", id |-> lastInvokeId + 1, done |-> FALSE]]
          /\ AddCall(c)
      BY <2>1 DEF SendAsyncRequest
    <3>2. caller'[c] = [at |-> "added", id |-> lastInvokeId + 1, done |-> FALSE]
      BY <3>1 DEF CallersKnown, Callers
    <3>3. Callers'
      BY <3>1, <1>2 DEF CallersKnown, Callers, CallerPlace
    <3>4. CallersKnown'
      BY <1>1, <1>2, <3>2, <3>3 DEF CallersKnown
    <3>5. AnsweredKnown'
      BY <1>1, <1>2, <3>2 DEF AnsweredKnown, Active, HandlerAt
    <3> QED  BY <2>1, <3>1, <3>2, <3>4, <3>5 DEF AddCall
  <2>2. CASE ~HasRoom
    <3>1. caller' = [caller EXCEPT ![c] = Resting] /\ calls' = calls
      BY <2>2 DEF SendAsyncRequest
    <3>2. caller'[c] = Resting
      BY <3>1 DEF CallersKnown, Callers
    <3>3. Callers'
      BY <3>1 DEF CallersKnown, Callers, CallerPlace, Resting
    <3>4. CallersKnown'
      BY <1>1, <1>2, <3>2, <3>3 DEF CallersKnown, Resting
    <3>5. AnsweredKnown'
      BY <1>1, <1>2, <3>2 DEF AnsweredKnown, Active, HandlerAt, Resting
    <3> QED  BY <2>2, <3>1, <3>2, <3>4, <3>5 DEF Resting
  <2> QED  BY <2>1, <2>2
<1>5. TableKnown'
  <2>1. IsFiniteSet(calls') /\ Cardinality(calls') <= MaxCalls
    <3>1. IsFiniteSet(calls) /\ Cardinality(calls) <= MaxCalls /\ Cardinality(calls) \in Nat
      BY FS_CardinalityType DEF TableKnown
    <3>2. CASE HasRoom
      <4> DEFINE new == [id |-> lastInvokeId + 1, by |-> c]
      <4>1. /\ IsFiniteSet(calls \cup {new})
            /\ \/ Cardinality(calls \cup {new}) = Cardinality(calls)
               \/ Cardinality(calls \cup {new}) = Cardinality(calls) + 1
        BY <3>1, FS_AddElement
      <4>2. calls' = calls \cup {new} /\ Cardinality(calls) < MaxCalls
        BY <1>4, <3>2 DEF HasRoom
      <4> HIDE DEF new
      <4> QED  BY <3>1, <4>1, <4>2, MaxCallsAssumption
    <3>3. CASE ~HasRoom
      BY <1>4, <3>1, <3>3
    <3> QED  BY <3>2, <3>3
  <2>2. calls' \subseteq Entry /\ \A e \in calls' : e.id \in 1..lastInvokeId'
    <3>1. [id |-> lastInvokeId + 1, by |-> c] \in Entry
      BY <1>2 DEF Entry
    <3>2. \A e \in calls : e \in Entry /\ e.id \in 1..(lastInvokeId + 1)
      BY <1>2 DEF TableKnown
    <3>3. lastInvokeId + 1 \in 1..(lastInvokeId + 1)
      BY <1>2
    <3>4. calls' \subseteq calls \cup {[id |-> lastInvokeId + 1, by |-> c]}
      BY <1>4
    <3> QED  BY <1>1, <3>1, <3>2, <3>3, <3>4
  <2> QED  BY <1>1, <1>2, <2>1, <2>2 DEF TableKnown
<1>6. CalledBackOnce'
  <2>1. \A e \in calls : (HandlerAt("answered") /\ handler.id = e.id)
                          \/ (caller'[e.by].id = e.id /\ ~caller'[e.by].done)
    BY <1>1, <1>3 DEF CalledBackOnce, TableKnown, Entry
  <2>2. \A d \in Caller : Active(d)' /\ ~caller'[d].done => [id |-> caller'[d].id, by |-> d] \in calls'
    BY <1>1, <1>4 DEF CalledBackOnce, Active
  <2> QED  BY <1>1, <1>4, <2>1, <2>2 DEF CalledBackOnce, Active, HandlerAt
<1> QED  BY <1>4, <1>5, <1>6

LEMMA ReturnCalls ==
  ASSUME CallsInv, NEW c \in Caller, Return(c)
  PROVE  CallsInv'
<1> USE DEF CallsInv
<1>1. /\ caller[c].at = "waiting" /\ caller[c].done
      /\ UNCHANGED <<handler, client, requests, calls, lastInvokeId>>
      /\ caller'[c] = Resting
      /\ Callers' /\ \A d \in Caller : d # c => caller'[d] = caller[d]
  BY DEF Return, CallersKnown, Callers, connectionVars, Resting, CallerPlace
<1>2. TableKnown'
  BY <1>1 DEF TableKnown, HandlerAt
<1>3. CallersKnown' /\ AnsweredKnown'
  BY <1>1 DEF CallersKnown, AnsweredKnown, Active, HandlerAt, Resting
<1>4. CalledBackOnce'
  BY <1>1 DEF CalledBackOnce, HandlerAt, Resting, TableKnown, Entry
<1> QED  BY <1>2, <1>3, <1>4

LEMMA RequestCalls ==
  ASSUME ConnectionInv, CallsInv, NEW c \in Caller, Request(c)
  PROVE  CallsInv'
<1> DEFINE Going == LockConnection(c) \/ CheckState(c) \/ Send(c)
<1>1. CASE Going
  <2>1. /\ UNCHANGED <<calls, lastInvokeId, handler, client>>
        /\ \E place \in CallerPlace : Goes(c, place)
                                       /\ \/ caller[c].at = "idle" /\ place = "locked"
                                          \/ caller[c].at = "added" /\ place \in {"sending", "waiting"}
                                          \/ caller[c].at = "sending" /\ place = "waiting"
    BY <1>1 DEF LockConnection, CheckState, Send, SendFails, connectionVars, CallerPlace
  <2>2. PICK place \in CallerPlace :
          Goes(c, place) /\ \/ caller[c].at = "idle" /\ place = "locked"
                            \/ caller[c].at = "added" /\ place \in {"sending", "waiting"}
                            \/ caller[c].at = "sending" /\ place = "waiting"
    BY <2>1
  <2>3. caller[c] \in [at : CallerPlace, id : Nat, done : BOOLEAN] /\ c \in DOMAIN caller
    BY DEF CallsInv, CallersKnown, Callers
  <2>4. caller'[c] = [caller[c] EXCEPT !.at = place]
    BY <2>2, <2>3 DEF Goes
  <2>5. /\ caller'[c].id = caller[c].id /\ caller'[c].at = place
        /\ caller'[c] \in [at : CallerPlace, id : Nat, done : BOOLEAN]
    BY <2>3, <2>4
  <2>6. caller'[c].done <=> caller[c].done
    BY <2>3, <2>4
  <2>7. Callers' /\ \A d \in Caller : d # c => caller'[d] = caller[d]
    BY <2>2, <2>5 DEF Goes, CallsInv, CallersKnown, Callers
  <2>8. requests' \subseteq 1..lastInvokeId
    <3>1. \/ UNCHANGED requests
          \/ caller[c].at = "sending" /\ requests' = requests \cup {caller[c].id}
      BY <1>1 DEF LockConnection, CheckState, Send
    <3>2. /\ requests \subseteq 1..lastInvokeId
          /\ caller[c].at = "sending" => caller[c].id \in 1..lastInvokeId
      BY DEF CallsInv, TableKnown, CallersKnown
    <3> QED  BY <3>1, <3>2
  <2>9. \/ caller[c].at = "idle" /\ caller'[c].at = "locked"
        \/ caller[c].at = "added" /\ caller'[c].at \in {"sending", "waiting"}
        \/ caller[c].at = "sending" /\ caller'[c].at = "waiting"
    BY <2>2, <2>5
  <2>10. UNCHANGED <<calls, lastInvokeId, handler, client>>
    BY <2>1
  <2>11. caller'[c].id = caller[c].id
    BY <2>5
  <2> HIDE DEF Going
  <2> QED  BY <2>6, <2>7, <2>8, <2>9, <2>10, <2>11, CallerMoves
<1>2. CASE ~Going
  BY <1>2, SendAsyncCalls, ReturnCalls DEF Request
<1> QED  BY <1>1, <1>2

-----------------------------------------------------------------------------
Inv == ConnectionInv /\ CallsInv

LEMMA InvStep ==
  ASSUME Inv, [Next]_vars
  PROVE  Inv'
<1>0. ConnectionInv /\ CallsInv /\ Callers /\ requests \subseteq Nat
  BY DEF Inv, CallsInv, CallersKnown, TableKnown
<1>1. CASE UserNext
  BY <1>0, <1>1, UserConnection, UserCalls DEF Inv
<1>2. CASE Tick
  BY <1>0, <1>2, HandleKeeps, HandleCalls DEF Inv, Tick, Thread, callVars
<1>3. CASE Callback
  BY <1>0, <1>3, CallbackConnection, CallbackCalls DEF Inv
<1>4. ASSUME NEW c \in Caller, Request(c) PROVE Inv'
  BY <1>0, <1>4, RequestConnection, RequestCalls DEF Inv
<1>5. CASE UNCHANGED vars
  <2>1. /\ UNCHANGED <<intState, state, buffer, handler, open, user, client, endpointState, faulted>>
        /\ UNCHANGED callVars
    BY <1>5 DEF vars, connectionVars
  <2>2. ConnectionLocked' => client
    BY <1>0, <2>1, LockedKept DEF callVars, ConnectionInv, LockedHasClient
  <2>3. ConnectionInv'
    BY <1>0, <2>1, <2>2, ConnectionFrame DEF ConnectionInv, Types
  <2>4. CallsInv'
    BY <1>0, <2>1, CallsFrame DEF HandlerAt
  <2> QED  BY <2>3, <2>4 DEF Inv
<1> QED  BY <1>1, <1>2, <1>3, <1>4, <1>5 DEF Next

\* The invariant holds in every state: the two halves need each other, the calls end
\* with the connection and the connection is kept while a caller holds its lock.
THEOREM SpecInv == Spec => []Inv
<1>1. Init => Inv
  BY InitConnection, InitCalls DEF Inv
<1>2. Inv /\ [Next]_vars => Inv'
  BY InvStep
<1> QED  BY <1>1, <1>2, PTL DEF Spec

\* The variables keep their types and the table of outstanding calls its size.
THEOREM SpecTypeOK == Spec => []TypeOK
<1>1. Inv => TypeOK
  BY DEF Inv, ConnectionInv, CallsInv, Types, TableKnown, CallersKnown, Callers, TypeOK,
         ConnectionTypeOK, CallsTypeOK
<1> QED  BY <1>1, SpecInv, PTL

\* The transmit buffer is taken exactly while an initiate request waits in it or a
\* received message is handled; the two never meet.
THEOREM SpecBufferOwned == Spec => []BufferOwned
<1>1. Inv => BufferOwned
  BY DEF Inv, ConnectionInv
<1> QED  BY <1>1, SpecInv, PTL

\* Nobody uses a connection that is destroyed: callbacks find it, and while a caller
\* holds the lock the client has a connection that is at most about to be taken away.
THEOREM SpecConnectionAlive == Spec => []ConnectionAlive
<1>1. Inv => ConnectionAlive
  BY DEF Inv, ConnectionInv, DownIsQuiet, ClientKnown, LockedHasClient, Down, ConnectionAlive, Types
<1> QED  BY <1>1, SpecInv, PTL

\* Every request is called back exactly once, for any number of callers and any table.
THEOREM SpecCalledBackOnce == Spec => []CalledBackOnce
<1>1. Inv => CalledBackOnce
  BY DEF Inv, CallsInv
<1> QED  BY <1>1, SpecInv, PTL
=============================================================================
