------------------------ MODULE MmsOutstandingCalls ------------------------
(***************************************************************************)
(* The requests a connection has sent and that nobody has answered yet     *)
(* (outstandingCalls of mms_endpoint.c).  Each access is one critical      *)
(* section under outstandingCallsLock.  An entry holds the invoke ID and   *)
(* the callback, here the caller whose thread the callback wakes up.       *)
(***************************************************************************)
EXTENDS Naturals, FiniteSets

CONSTANTS
  Caller,    \* threads that send requests and wait for the answer
  MaxCalls   \* OUTSTANDING_CALLS, the size of the table

ASSUME MaxCallsAssumption == MaxCalls \in Nat

VARIABLES
  calls,         \* the used entries of the table
  lastInvokeId   \* lastRequestInvokeId

Entry == [id : Nat, by : Caller]

NewTable == calls = {} /\ lastInvokeId = 0

\* Mistake: one entry more than the table has.
HasRoomForOneMore == Cardinality(calls) <= MaxCalls

HasRoom == Cardinality(calls) < MaxCalls

\* getNextInvokeId and addToOutstandingCalls, for a table with room.
AddCall(c) == calls' = calls \cup {[id |-> lastInvokeId + 1, by |-> c]}

\* checkForOutstandingCall: the entries with this invoke ID.
Outstanding(id) == {e \in calls : e.id = id}

RemoveCall(id) == calls' = calls \ Outstanding(id)

CallsTypeOK == calls \subseteq Entry /\ lastInvokeId \in Nat
=============================================================================
