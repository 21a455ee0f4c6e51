------------------------ MODULE IsoClientConnection ------------------------
(***************************************************************************)
(* The connection of an active MMS endpoint to its TCP server              *)
(* (iso_client_connection.c): TCP connect, COTP connect, ACSE association, *)
(* data, close.                                                            *)
(*                                                                         *)
(* IsoClientConnection_handleConnection advances it, called in a loop by   *)
(* the tick thread, and once by a user who closes.  A call runs under      *)
(* tickMutex: it reads intState, calls back the endpoint (at handler.at)   *)
(* and at its end stores the next state.  What the socket yields, and      *)
(* whether a timeout has passed, is a choice.                              *)
(*                                                                         *)
(* The actions constrain the variables of this module only; MmsEndpoint    *)
(* puts them together with what the callbacks do.                          *)
(***************************************************************************)
EXTENDS Naturals

VARIABLES
  intState,  \* state of the state machine
  state,     \* state that a sender of messages looks at
  buffer,    \* transmitBufferMutex: 1 when the buffer for outgoing PDUs is free
  handler    \* the running call of handleConnection, Free: tickMutex is free

IntState == {"IDLE", "TCP_CONNECTING", "WAIT_FOR_COTP_CONNECT_RESP", "WAIT_FOR_ACSE_RESP",
             "WAIT_FOR_DATA_MSG", "CLOSING_CONNECTION", "CLOSE_ON_ERROR", "ERROR"}
State == {"IDLE", "CONNECTING", "CONNECTED", "ERROR"}
Thread == {"tick", "user"}

(***************************************************************************)
(* Where a call of handleConnection is: the callbacks ASSOCIATION_FAILED   *)
(* ("failed", and "rejected" when the code runs on into "new"),            *)
(* ASSOCIATION_SUCCESS ("new", "response", "initiate"), DATA ("data",      *)
(* "parse", "answered"), CLOSED ("idle" to "destroy"), and TICK ("tick"),  *)
(* always the last.  At "selfClose" and "concluded" the thread waits for   *)
(* what it holds itself.                                                   *)
(***************************************************************************)
Place == {"failed", "rejected", "new", "response", "initiate", "selfClose",
          "data", "parse", "answered", "concluded",
          "idle", "remove", "closed", "destroy", "tick"}

Free == [by |-> "none"]
HandlerAt(place) == handler # Free /\ handler.at = place

ConnectionInit ==
  /\ intState = "IDLE"
  /\ state = "IDLE"
  /\ buffer = 1
  /\ handler = Free

AllocateTransmitBuffer == buffer > 0 /\ buffer' = buffer - 1
ReleaseTransmitBuffer == buffer' = buffer + 1

(***************************************************************************)
(* handleConnection up to its first callback.                              *)
(***************************************************************************)
Begin(t, place, next) ==
  /\ handler = Free
  /\ handler' = [by |-> t, at |-> place, next |-> next, id |-> 0]

\* Nothing to do, nothing there yet, or only a part of a message.
Waits(t) ==
  /\ intState \notin {"CLOSE_ON_ERROR", "CLOSING_CONNECTION"}
  /\ Begin(t, "tick", intState)
  /\ UNCHANGED <<intState, state, buffer>>

TcpConnected(t) ==
  /\ intState = "TCP_CONNECTING"
  /\ Begin(t, "tick", "WAIT_FOR_COTP_CONNECT_RESP")
  /\ UNCHANGED <<intState, state, buffer>>

\* sendAcseInitiateRequest sends the initiate request that is in the buffer.
CotpConnected(t) ==
  /\ intState = "WAIT_FOR_COTP_CONNECT_RESP"
  /\ Begin(t, "tick", "WAIT_FOR_ACSE_RESP")
  /\ ReleaseTransmitBuffer
  /\ UNCHANGED <<intState, state>>

\* No TCP connection, a timeout, an unexpected message, an error of the socket.
ConnectFails(t) ==
  /\ intState \in {"TCP_CONNECTING", "WAIT_FOR_COTP_CONNECT_RESP"}
  /\ Begin(t, "failed", "CLOSE_ON_ERROR")
  /\ ReleaseTransmitBuffer
  /\ UNCHANGED <<intState, state>>

AssociateFails(t) ==
  /\ intState = "WAIT_FOR_ACSE_RESP"
  /\ Begin(t, "failed", "CLOSE_ON_ERROR")
  /\ UNCHANGED <<intState, state, buffer>>

Associated(t) ==
  /\ intState = "WAIT_FOR_ACSE_RESP"
  /\ Begin(t, "new", "WAIT_FOR_DATA_MSG")
  /\ state' = "CONNECTED"
  /\ UNCHANGED <<intState, buffer>>

(***************************************************************************)
(* The presentation layer or ACSE refuses the association: the code        *)
(* reports it and wants to close, then runs on as if it had succeeded.     *)
(***************************************************************************)
AssociationRejected(t) ==
  /\ intState = "WAIT_FOR_ACSE_RESP"
  /\ Begin(t, "rejected", "WAIT_FOR_DATA_MSG")
  /\ UNCHANGED <<intState, state, buffer>>

ReceiveData(t) ==
  /\ intState = "WAIT_FOR_DATA_MSG"
  /\ Begin(t, "data", "WAIT_FOR_DATA_MSG")
  /\ UNCHANGED <<intState, state, buffer>>

\* The peer disconnects or breaks the protocol, or the socket fails.
ReceiveFails(t) ==
  /\ intState = "WAIT_FOR_DATA_MSG"
  /\ \E next \in {"CLOSE_ON_ERROR", "CLOSING_CONNECTION"} : Begin(t, "tick", next)
  /\ UNCHANGED <<intState, state, buffer>>

Closing(t) ==
  /\ \/ /\ intState = "CLOSE_ON_ERROR"
        /\ state' = "ERROR"
        /\ Begin(t, "idle", "ERROR")
     \/ /\ intState = "CLOSING_CONNECTION"
        /\ state' = "IDLE"
        /\ Begin(t, "idle", "IDLE")
  /\ UNCHANGED <<intState, buffer>>

HandleConnection(t) ==
  \/ Waits(t)
  \/ TcpConnected(t) \/ CotpConnected(t) \/ ConnectFails(t)
  \/ Associated(t) \/ AssociateFails(t) \/ AssociationRejected(t)
  \/ ReceiveData(t) \/ ReceiveFails(t)
  \/ Closing(t)

\* The call goes on to its next callback.
Goto(place) == handler' = [handler EXCEPT !.at = place]

\* The end of the call.
End ==
  /\ HandlerAt("tick")
  /\ intState' = handler.next
  /\ handler' = Free
  /\ UNCHANGED <<state, buffer>>

(***************************************************************************)
(* IsoClientConnection_associateAsync, after setState(CONNECTING): the     *)
(* TCP connect is started, or fails at once (no address for the host, no   *)
(* route to it), then there is no callback.                                *)
(***************************************************************************)
AssociateStarts ==
  /\ handler = Free
  /\ intState' = "TCP_CONNECTING"
  /\ UNCHANGED <<state, buffer, handler>>

AssociateStartFails ==
  /\ handler = Free
  /\ intState' = "ERROR"
  /\ state' = "ERROR"
  /\ ReleaseTransmitBuffer
  /\ UNCHANGED handler

(***************************************************************************)
(* IsoClientConnection_close up to its call of handleConnection.           *)
(***************************************************************************)
Closable == intState \notin {"IDLE", "ERROR", "CLOSE_ON_ERROR"}

\* Mistake: the transmit buffer is released in every state.
CloseReleasing ==
  /\ handler = Free
  /\ Closable
  /\ ReleaseTransmitBuffer
  /\ intState' = "CLOSING_CONNECTION"
  /\ UNCHANGED <<state, handler>>

Close ==
  /\ handler = Free
  /\ Closable
  /\ IF intState \in {"TCP_CONNECTING", "WAIT_FOR_COTP_CONNECT_RESP"}
     THEN ReleaseTransmitBuffer
     ELSE UNCHANGED buffer
  /\ intState' = "CLOSING_CONNECTION"
  /\ UNCHANGED <<state, handler>>

(***************************************************************************)
(* A message cannot be sent (IsoClientConnection_sendMessage): any thread  *)
(* asks for a close, without tickMutex.                                    *)
(***************************************************************************)
SendFails ==
  /\ intState' = "CLOSE_ON_ERROR"
  /\ UNCHANGED <<state, buffer, handler>>

ConnectionTypeOK ==
  /\ intState \in IntState
  /\ state \in State
  /\ buffer \in Nat
  /\ handler \in {Free} \cup [by : Thread, at : Place, next : IntState, id : Nat]
=============================================================================
