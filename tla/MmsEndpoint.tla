---------------------------- MODULE MmsEndpoint ----------------------------
(***************************************************************************)
(* An active MMS endpoint (mms_endpoint.c) with its ISO connection and one *)
(* client: the tick thread, a user who connects and disconnects, and       *)
(* callers, threads that send a request and wait for the answer            *)
(* (mms_client.c, e.g. MmsClient_readVariable).                            *)
(*                                                                         *)
(* The peer answers requests in any order, late or never, and may accept,  *)
(* refuse or drop a connection at any time; time passes as it likes.       *)
(* Faults names what a peer or a network may do in addition.               *)
(***************************************************************************)
EXTENDS IsoClientConnection, MmsOutstandingCalls

CONSTANTS
  Faults,       \* faults that may happen, see NoteFault
  MaxRequests   \* bound on the requests sent over one connection

ASSUME FaultsAssumption ==
  /\ Faults \subseteq {"startup", "reject", "initiate", "late", "conclude"}
  /\ MaxRequests \in Nat

VARIABLES
  endpointState,  \* state of the endpoint
  open,           \* openConnections is not empty
  user,           \* where the user is in connect or disconnect
  client,         \* the MmsClient has a connection
  caller,         \* where a caller is in its request
  requests,       \* invoke IDs the peer has received and not answered
  faulted         \* history: faults that have happened

connectionVars == <<intState, state, buffer, handler>>
callVars == <<calls, lastInvokeId, caller, requests>>
vars == <<connectionVars, callVars, endpointState, open, user, client, faulted>>

Resting == [at |-> "idle", id |-> 0, done |-> FALSE]

Init ==
  /\ ConnectionInit
  /\ NewTable
  /\ endpointState = "IDLE"
  /\ open = FALSE
  /\ user = "idle"
  /\ client = FALSE
  /\ caller = [c \in Caller |-> Resting]
  /\ requests = {}
  /\ faulted = {}

\* "startup": a TCP connect that fails at once.  "reject": an association the
\* presentation layer or ACSE refuses, or that is accepted without an initiate
\* response.  "initiate": an unreadable initiate response.  "late": an initiate
\* response when the association is there.  "conclude": a conclude response, for
\* which nobody has asked.
NoteFault(fault) == fault \in Faults /\ faulted' = faulted \cup {fault}

\* A call of handleConnection begins.
Handle(t) == HandleConnection(t) /\ (handler'.at = "rejected" => "reject" \in Faults)

-----------------------------------------------------------------------------
(* The user.                                                                *)

(***************************************************************************)
(* MmsEndpoint_connect: while a connection is open the call does nothing,  *)
(* which is a stuttering step.                                             *)
(***************************************************************************)
Connect ==
  /\ user = "idle" /\ ~open
  /\ open' = TRUE
  /\ user' = "connect"
  /\ UNCHANGED <<connectionVars, callVars, endpointState, client, faulted>>

\* The initiate request goes to the transmit buffer; setEndpointState and, in
\* associateAsync, setState.
PrepareAssociate ==
  /\ user = "connect"
  /\ AllocateTransmitBuffer
  /\ endpointState' = "CONNECTING"
  /\ state' = "CONNECTING"
  /\ user' = "associate"
  /\ UNCHANGED <<intState, handler, callVars, open, client, faulted>>

Associate ==
  /\ user = "associate"
  /\ \/ /\ AssociateStarts
        /\ user' = "idle"
        /\ UNCHANGED faulted
     \/ /\ NoteFault("startup")
        /\ AssociateStartFails
        /\ user' = "failed"
  /\ UNCHANGED <<callVars, endpointState, open, client>>

ConnectFailed ==
  /\ user = "failed"
  /\ endpointState' = "ERROR"
  /\ user' = "idle"
  /\ UNCHANGED <<connectionVars, callVars, open, client, faulted>>

(***************************************************************************)
(* MmsEndpoint_disconnect with MMS_ENDPOINT_DISCONNECT_CLOSE.              *)
(***************************************************************************)
Disconnect ==
  /\ user = "idle"
  /\ Close
  /\ user' = "close"
  /\ UNCHANGED <<callVars, endpointState, open, client, faulted>>

CloseHandles ==
  /\ user = "close"
  /\ Handle("user")
  /\ user' = "closing"
  /\ UNCHANGED <<callVars, endpointState, open, client, faulted>>

CloseReturns ==
  /\ user = "closed"
  /\ state' = "IDLE"
  /\ user' = "idle"
  /\ UNCHANGED <<intState, buffer, handler, callVars, endpointState, open, client, faulted>>

-----------------------------------------------------------------------------
(* The callbacks of the ISO connection (mmsIsoClientCallback), by the       *)
(* thread that runs handleConnection.                                       *)

Tick ==
  /\ Handle("tick")
  /\ UNCHANGED <<callVars, endpointState, open, user, client, faulted>>

\* connectionLock is held by a caller from MmsClient_lockConnection to unlockConnection.
ConnectionLocked == \E c \in Caller : caller[c].at \in {"locked", "added", "sending"}

AssociationFailed ==
  /\ HandlerAt("failed")
  /\ endpointState' = "ERROR"
  /\ Goto("tick")
  /\ UNCHANGED <<intState, state, buffer, callVars, open, user, client, faulted>>

RejectedGoesOn ==
  /\ HandlerAt("rejected")
  /\ NoteFault("reject")
  /\ endpointState' = "ERROR"
  /\ state' = "CONNECTED"
  /\ Goto("new")
  /\ UNCHANGED <<intState, buffer, callVars, open, user, client>>

\* The connection handler gives the client its connection, over which nothing has
\* been sent yet.
NewConnection ==
  /\ HandlerAt("new")
  /\ ~ConnectionLocked
  /\ client' = TRUE
  /\ lastInvokeId' = 0 /\ requests' = {}
  /\ Goto("response")
  /\ UNCHANGED <<intState, state, buffer, calls, caller, endpointState, open, user, faulted>>

\* A message of no bytes, with the association or later.
EmptyPayload ==
  /\ \/ HandlerAt("response") /\ NoteFault("reject")
     \/ HandlerAt("data") /\ UNCHANGED faulted
  /\ Goto("tick")
  /\ UNCHANGED <<intState, state, buffer, callVars, endpointState, open, user, client>>

\* The transmit buffer is taken for a reply before the message is looked at.
TakeBuffer ==
  /\ AllocateTransmitBuffer
  /\ \/ HandlerAt("response") /\ Goto("initiate")
     \/ HandlerAt("data") /\ Goto("parse")
  /\ UNCHANGED <<intState, state, callVars, endpointState, open, user, client, faulted>>

\* The message has been handled, the buffer is given back.
Handled == ReleaseTransmitBuffer /\ Goto("tick")

(***************************************************************************)
(* The initiate response.  When it cannot be read the code closes the      *)
(* connection, which waits for the tickMutex this thread holds: there is   *)
(* no action at "selfClose".                                               *)
(***************************************************************************)
InitiateResponse ==
  /\ HandlerAt("initiate")
  /\ \/ endpointState' = "CONNECTED" /\ Handled /\ UNCHANGED faulted
     \/ NoteFault("initiate") /\ Goto("selfClose") /\ UNCHANGED <<endpointState, buffer>>
  /\ UNCHANGED <<intState, state, callVars, open, user, client>>

\* An initiate response as data: the endpoint takes itself for disconnected.
LateInitiate ==
  /\ HandlerAt("parse")
  /\ NoteFault("late")
  /\ endpointState' = "IDLE"
  /\ Handled
  /\ UNCHANGED <<intState, state, callVars, open, user, client>>

(***************************************************************************)
(* A conclude response.  IsoClientConnection_release waits for the         *)
(* transmit buffer, which this thread has taken: there is no action at     *)
(* "concluded".                                                            *)
(***************************************************************************)
ConcludeResponse ==
  /\ HandlerAt("parse") \/ HandlerAt("initiate")
  /\ NoteFault("conclude")
  /\ Goto("concluded")
  /\ UNCHANGED <<intState, state, buffer, callVars, endpointState, open, user, client>>

\* Wake up the callers of these entries.
CallBack(entries) ==
  caller' = [c \in Caller |-> IF \E e \in entries : e.by = c
                              THEN [caller[c] EXCEPT !.done = TRUE] ELSE caller[c]]

\* A response or a service error: handleAsyncResponse for an outstanding call,
\* nothing for a call that has timed out.
Response(id) ==
  /\ HandlerAt("parse")
  /\ id \in requests
  /\ requests' = requests \ {id}
  /\ CallBack(Outstanding(id))
  /\ handler' = [handler EXCEPT !.at = "answered", !.id = id]
  /\ UNCHANGED <<intState, state, buffer, calls, lastInvokeId, endpointState, open, user, client, faulted>>

ResponseDone ==
  /\ HandlerAt("answered")
  /\ RemoveCall(handler.id)
  /\ Handled
  /\ UNCHANGED <<intState, state, lastInvokeId, caller, requests, endpointState, open, user, client,
                 faulted>>

\* Anything else: a report, or a request, whose reply may fail to be sent.
OtherData ==
  /\ \/ HandlerAt("parse") /\ UNCHANGED faulted
     \/ HandlerAt("initiate") /\ NoteFault("reject")
  /\ Handled
  /\ intState' \in {intState, "CLOSE_ON_ERROR"}
  /\ UNCHANGED <<state, callVars, endpointState, open, user, client>>

Closed1 ==
  /\ HandlerAt("idle")
  /\ endpointState' = "IDLE"
  /\ Goto("remove")
  /\ UNCHANGED <<intState, state, buffer, callVars, open, user, client, faulted>>

\* Mistake: the closed connection stays in openConnections.
Closed2Keeping ==
  /\ HandlerAt("remove")
  /\ Goto("closed")
  /\ UNCHANGED <<intState, state, buffer, callVars, endpointState, open, user, client, faulted>>

Closed2 ==
  /\ HandlerAt("remove")
  /\ open' = FALSE
  /\ Goto("closed")
  /\ UNCHANGED <<intState, state, buffer, callVars, endpointState, user, client, faulted>>

\* Mistake: the client's connection is cleared without connectionLock.
ClosedUnlocked ==
  /\ HandlerAt("closed")
  /\ client' = FALSE
  /\ Goto("destroy")
  /\ UNCHANGED <<intState, state, buffer, callVars, endpointState, open, user, faulted>>

\* The connection handler takes the client's connection away.
ClosedHandler ==
  /\ HandlerAt("closed")
  /\ ~ConnectionLocked
  /\ client' = FALSE
  /\ Goto("destroy")
  /\ UNCHANGED <<intState, state, buffer, callVars, endpointState, open, user, faulted>>

\* Mistake: the calls of a closed connection are dropped.
DestroyDropping ==
  /\ HandlerAt("destroy")
  /\ calls' = {}
  /\ Goto("tick")
  /\ UNCHANGED <<intState, state, buffer, lastInvokeId, caller, requests, endpointState, open, user,
                 client, faulted>>

\* MmsEndpointConnection_destroy: terminateAllOutstandingCalls, then the memory is freed.
Destroy ==
  /\ HandlerAt("destroy")
  /\ CallBack(calls)
  /\ calls' = {}
  /\ Goto("tick")
  /\ UNCHANGED <<intState, state, buffer, lastInvokeId, requests, endpointState, open, user,
                 client, faulted>>

\* Mistake: the entry of a call that has timed out stays in use.
ExpireKeeping(e) ==
  /\ End
  /\ open
  /\ CallBack({e})
  /\ user' = IF handler.by = "user" THEN "closed" ELSE user
  /\ UNCHANGED <<calls, lastInvokeId, requests, endpointState, open, client, faulted>>

(***************************************************************************)
(* handleAppTick of an open connection ends at most one call whose time is *)
(* over; then the call of handleConnection ends.                           *)
(***************************************************************************)
Expire(e) ==
  /\ End
  /\ open
  /\ CallBack({e})
  /\ calls' = calls \ {e}
  /\ user' = IF handler.by = "user" THEN "closed" ELSE user
  /\ UNCHANGED <<lastInvokeId, requests, endpointState, open, client, faulted>>

NothingExpires ==
  /\ End
  /\ user' = IF handler.by = "user" THEN "closed" ELSE user
  /\ UNCHANGED <<callVars, endpointState, open, client, faulted>>

Callback ==
  \/ AssociationFailed \/ RejectedGoesOn \/ NewConnection
  \/ EmptyPayload \/ TakeBuffer
  \/ InitiateResponse \/ LateInitiate \/ ConcludeResponse
  \/ \E id \in requests : Response(id)
  \/ ResponseDone \/ OtherData
  \/ Closed1 \/ Closed2 \/ ClosedHandler \/ Destroy
  \/ \E e \in calls : Expire(e)
  \/ NothingExpires

-----------------------------------------------------------------------------
(* The callers.                                                             *)

Goes(c, place) == caller' = [caller EXCEPT ![c].at = place]

\* MmsClient_lockConnection; without a connection the request fails at once.
LockConnection(c) ==
  /\ caller[c].at = "idle"
  /\ lastInvokeId < MaxRequests
  /\ ~ConnectionLocked
  /\ client
  /\ Goes(c, "locked")
  /\ UNCHANGED <<connectionVars, calls, lastInvokeId, requests, endpointState, open, user, client,
                 faulted>>

\* MmsEndpointConnection_sendAsyncRequest; MMS_ERROR_OUTSTANDING_CALL_LIMIT when the table is full.
SendAsyncRequest(c) ==
  /\ caller[c].at = "locked"
  /\ lastInvokeId' = lastInvokeId + 1
  /\ IF HasRoom
     THEN /\ AddCall(c)
          /\ caller' = [caller EXCEPT ![c] = [at |-> "added", id |-> lastInvokeId + 1, done |-> FALSE]]
     ELSE /\ caller' = [caller EXCEPT ![c] = Resting]
          /\ UNCHANGED calls
  /\ UNCHANGED <<connectionVars, requests, endpointState, open, user, client, faulted>>

\* IsoClientConnection_sendMessage drops the message when not connected.
CheckState(c) ==
  /\ caller[c].at = "added"
  /\ Goes(c, IF state = "CONNECTED" THEN "sending" ELSE "waiting")
  /\ UNCHANGED <<connectionVars, calls, lastInvokeId, requests, endpointState, open, user, client,
                 faulted>>

Send(c) ==
  /\ caller[c].at = "sending"
  /\ Goes(c, "waiting")
  /\ \/ /\ requests' = requests \cup {caller[c].id}
        /\ UNCHANGED connectionVars
     \/ SendFails /\ UNCHANGED requests
  /\ UNCHANGED <<calls, lastInvokeId, endpointState, open, user, client, faulted>>

\* The callback has posted the semaphore the caller waits on.
Return(c) ==
  /\ caller[c].at = "waiting" /\ caller[c].done
  /\ caller' = [caller EXCEPT ![c] = Resting]
  /\ UNCHANGED <<connectionVars, calls, lastInvokeId, requests, endpointState, open, user, client,
                 faulted>>

Request(c) == LockConnection(c) \/ SendAsyncRequest(c) \/ CheckState(c) \/ Send(c) \/ Return(c)

-----------------------------------------------------------------------------
UserNext ==
  \/ Connect \/ PrepareAssociate \/ Associate \/ ConnectFailed
  \/ Disconnect \/ CloseHandles \/ CloseReturns

Next == UserNext \/ Tick \/ Callback \/ \E c \in Caller : Request(c)

Spec == Init /\ [][Next]_vars

(***************************************************************************)
(* The threads run and get every lock they wait for; the application calls *)
(* connect again whenever it is not connected; a peer that is asked again  *)
(* and again accepts at last; a call that is not answered runs out of      *)
(* time, and the tick thread ends one of these calls now and then.         *)
(***************************************************************************)
InUser == PrepareAssociate \/ Associate \/ ConnectFailed \/ CloseHandles \/ CloseReturns
InRequest(c) == SendAsyncRequest(c) \/ CheckState(c) \/ Send(c) \/ Return(c)
Accepted(A) == A /\ UNCHANGED <<callVars, endpointState, open, user, client, faulted>>

Fairness ==
  /\ WF_vars(Tick) /\ WF_vars(Callback) /\ SF_vars(InUser)
  /\ SF_vars(\E e \in calls : Expire(e))
  /\ \A c \in Caller : WF_vars(InRequest(c))
  /\ WF_vars(Connect)
  /\ SF_vars(Accepted(TcpConnected("tick")))
  /\ SF_vars(Accepted(CotpConnected("tick")))
  /\ SF_vars(Accepted(Associated("tick")))
  /\ SF_vars(InitiateResponse /\ endpointState' = "CONNECTED")

FairSpec == Spec /\ Fairness

-----------------------------------------------------------------------------
(* What the endpoint promises.                                              *)

UserPlace == {"idle", "connect", "associate", "failed", "close", "closing", "closed"}
CallerPlace == {"idle", "locked", "added", "sending", "waiting"}

TypeOK ==
  /\ ConnectionTypeOK
  /\ CallsTypeOK /\ Cardinality(calls) <= MaxCalls
  /\ endpointState \in {"IDLE", "CONNECTING", "CONNECTED", "ERROR"}
  /\ open \in BOOLEAN /\ client \in BOOLEAN
  /\ user \in UserPlace
  /\ caller \in [Caller -> [at : CallerPlace, id : Nat, done : BOOLEAN]]
  /\ requests \subseteq Nat
  /\ faulted \subseteq Faults

\* The state the connection is in, or in after the running call of handleConnection.
Upcoming == IF handler = Free THEN intState ELSE handler.next

\* A received message is being looked at.
Parsing ==
  handler # Free /\ handler.at \in {"initiate", "selfClose", "parse", "answered", "concluded"}

(***************************************************************************)
(* The transmit buffer is taken for exactly the time its initiate request  *)
(* waits to be sent, and the time a received message is handled: each of   *)
(* the ways a connect or a callback can end gives it back, and none gives  *)
(* it back twice.  Otherwise the next connect blocks for ever, or two      *)
(* threads write into it (transmitBufferMutex).  Only the two places where *)
(* the thread waits for itself keep it.                                    *)
(***************************************************************************)
BufferOwned ==
  buffer = IF \/ user = "associate"
              \/ Upcoming \in {"TCP_CONNECTING", "WAIT_FOR_COTP_CONNECT_RESP"}
              \/ Parsing
           THEN 0 ELSE 1

(***************************************************************************)
(* Nobody uses a connection that is destroyed.  A callback of the ISO      *)
(* connection finds the connection of the endpoint: data has an addressee, *)
(* and a close is reported once.  And no thread sends over a connection    *)
(* that is destroyed or has lost its client: the connection handler waits  *)
(* for the connectionLock (mmsIsoClientCallback,                           *)
(* MmsClient_setEndpointConnection, MmsEndpointConnection_destroy).        *)
(***************************************************************************)
ConnectionAlive ==
  /\ handler # Free /\ handler.at \in {"new", "response", "initiate", "data", "parse", "answered",
                                      "idle", "remove"}
       => open
  /\ ConnectionLocked => client /\ (open \/ HandlerAt("closed"))

(***************************************************************************)
(* Every request is called back exactly once.  An outstanding call belongs *)
(* to a caller who has not been called back yet, except while its answer   *)
(* is being handled: no callback comes twice, by an answer, a timeout and  *)
(* the loss of the connection, and none comes to a caller who has returned *)
(* (the callback would write to its stack).  And a caller who waits        *)
(* without having been called back has an outstanding call.                *)
(***************************************************************************)
CalledBackOnce ==
  /\ \A e \in calls :
       \/ HandlerAt("answered") /\ handler.id = e.id
       \/ caller[e.by].id = e.id /\ ~caller[e.by].done
  /\ \A c \in Caller :
       caller[c].at \in {"added", "sending", "waiting"} /\ ~caller[c].done
         => [id |-> caller[c].id, by |-> c] \in calls

(***************************************************************************)
(* Every request returns to its caller, answered or not (the semaphore in  *)
(* MmsClient_readVariable has no timeout of its own), unless an unreadable *)
(* initiate response or a conclude response has blocked the thread that    *)
(* runs handleConnection.                                                  *)
(***************************************************************************)
CallsReturn ==
  \A c \in Caller :
    caller[c].at # "idle"
      ~> (caller[c].at = "idle" \/ "initiate" \in faulted \/ "conclude" \in faulted)

(***************************************************************************)
(* "In active mode connect has to be called again manually whenever a      *)
(* connection was disconnected" (mms_endpoint.h): when it is, the endpoint *)
(* is connected again and again.                                           *)
(***************************************************************************)
Reconnects == []<>(endpointState = "CONNECTED")

(***************************************************************************)
(* The same for a peer and a network that cause none of the faults.        *)
(***************************************************************************)
ReconnectsUnlessFaulted == <>(faulted # {}) \/ Reconnects
=============================================================================
