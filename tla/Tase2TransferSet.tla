-------------------------- MODULE Tase2TransferSet --------------------------
(***************************************************************************)
(* Data set transfer sets of the TASE.2 server of libtase2                 *)
(* (ds_transfer_set.c): a client reserves a transfer set, enables it, and  *)
(* gets reports of the data points that change until it disables the set   *)
(* or its connection closes.                                               *)
(*                                                                         *)
(* One thread serves all clients and ticks; each data point has a thread   *)
(* of the application that changes it.  activeTransferSetsLock is free or  *)
(* held by one of the latter (checking); what the server thread does under *)
(* the lock is one step.  Values are left out: a report with a point has   *)
(* its value.  Time passes as it likes.                                    *)
(***************************************************************************)
EXTENDS Naturals, Sequences, FiniteSets

CONSTANTS
  Connection, NoConnection,  \* connections of clients; the NULL pointer
  MaxSet,        \* the transfer sets of a domain are 1..MaxSet, in this order
  Point,         \* data points
  Refused,       \* an entry of a data set that no report can have
  Config,        \* the ways a client may enable a transfer set
  MaxEvents,     \* maxDSTSEventQueueSize
  MaxReports,    \* bound on outstanding critical reports
  MaxAnswers     \* bound on the answers in flight

Set == 1..MaxSet

(***************************************************************************)
(* The conditions (interval, integrity and object change), whether the     *)
(* interval and the buffer time are positive, the flags, and the data set. *)
(* An entry of a data set is refused when it is no data point or a control *)
(* point.  The special objects (Transfer_Set_Name...) are left out: they   *)
(* have the same place in the data set and among the accepted entries.     *)
(***************************************************************************)
ConfigType ==
  [interval : BOOLEAN, periodic : BOOLEAN, integrity : BOOLEAN, change : BOOLEAN,
   buffer : BOOLEAN, rbe : BOOLEAN, all : BOOLEAN, critical : BOOLEAN,
   dataSet : Seq(Point \cup {Refused})]

ASSUME TransferSetAssumption ==
  /\ NoConnection \notin Connection
  /\ MaxSet \in Nat /\ MaxEvents \in Nat \ {0} /\ MaxReports \in Nat /\ MaxAnswers \in Nat
  /\ Refused \notin Point
  /\ Config \subseteq ConfigType
  /\ \A cfg \in Config : \A i, k \in 1..Len(cfg.dataSet) :
       cfg.dataSet[i] = cfg.dataSet[k] => i = k \/ cfg.dataSet[i] = Refused

VARIABLES
  connected,  \* open connections
  active,     \* activeTransferSets
  owner,      \* connectionObject of a transfer set
  status,     \* its attribute Status
  context,    \* its activeContextInfo, with which its points refer to it
  server,     \* what the server thread is doing
  checking,   \* the point whose change is being checked, under the lock
  answers     \* answers to critical reports that are on their way

vars == <<connected, active, owner, status, context, server, checking, answers>>

NoContext == [enabled |-> FALSE]
Idle == [at |-> "idle"]
NotChecking == [sets |-> {}]
Live == {s \in Set : context[s] # NoContext}

Init ==
  /\ connected = {}
  /\ active = {}
  /\ owner = [s \in Set |-> NoConnection]
  /\ status = [s \in Set |-> FALSE]
  /\ context = [s \in Set |-> NoContext]
  /\ server = Idle
  /\ checking = NotChecking
  /\ answers = {}

LockFree == checking = NotChecking
ServerFree == server = Idle
Running == server.at # "crashed"

-----------------------------------------------------------------------------
(* Reports, as functions of the context of a transfer set.  due is history: *)
(* the points whose last change has not been reported yet; lost: those of   *)
(* them whose events a full queue has dropped.  outstanding has an entry    *)
(* for each critical report: whether the client has answered it; overdue    *)
(* counts those that have timed out before.                                 *)

Contents(seq) == {seq[i] : i \in 1..Len(seq)}

\* The accepted entries of a data set, ts->dataPoints, and where entry k is among them.
Accepted(ds) == {k \in 1..Len(ds) : ds[k] # Refused}
Place(ds, k) == Cardinality({i \in 1..k : ds[i] # Refused})

Points(ds) == {ds[k] : k \in Accepted(ds)}

\* The points of the accepted entries at some places.
AtPlaces(ds, places) == {ds[k] : k \in {i \in Accepted(ds) : Place(ds, i) \in places}}

\* The points that a list of all accepted entries has where the data set has them.
InPlace(ds) == {ds[k] : k \in {i \in Accepted(ds) : Place(ds, i) = i}}

NewContext(cfg) ==
  [enabled |-> TRUE, cfg |-> cfg, bits |-> {}, events |-> <<>>, started |-> FALSE,
   outstanding |-> <<>>, overdue |-> 0, due |-> {}, lost |-> {}]

Report(x, points) ==
  [x EXCEPT !.outstanding = IF x.cfg.critical THEN Append(@, FALSE) ELSE @,
            !.due = @ \ points,
            !.lost = @ \ points]

(***************************************************************************)
(* sendDSTransferSetAsDataSet: the accepted entries under the name of the  *)
(* data set, so that the client finds a point by its place.                *)
(***************************************************************************)
SendDataSet(x) == Report(x, InPlace(x.cfg.dataSet))

\* Mistake: the events are cleared before they are sent.
SendCleared(x) ==
  IF x.cfg.all THEN Report([x EXCEPT !.events = <<>>], {})
               ELSE Report(x, AtPlaces(x.cfg.dataSet, x.bits))

\* sendDSTransferSetChangedDataPoints: a bit is that of a place among the accepted entries.
SendChanged(x) ==
  IF x.cfg.all THEN [Report(x, Contents(x.events)) EXCEPT !.events = <<>>]
               ELSE Report(x, AtPlaces(x.cfg.dataSet, x.bits))

SendBoth(x) == IF x.cfg.rbe THEN SendChanged(x) ELSE SendDataSet(x)

Entry(ds, p) == {k \in 1..Len(ds) : ds[k] = p}

\* Mistake: a full queue grows.
StoreUnbounded(x, p) ==
  IF x.cfg.all THEN [x EXCEPT !.events = Append(@, p)]
               ELSE [x EXCEPT !.bits = @ \cup Entry(x.cfg.dataSet, p)]

(***************************************************************************)
(* storeDataPointEventForTransferSet; a bit is that of an entry of the     *)
(* data set (dataSetIdx); a full queue drops its oldest event.             *)
(***************************************************************************)
Store(x, p) ==
  IF ~x.cfg.all THEN [x EXCEPT !.bits = @ \cup Entry(x.cfg.dataSet, p)]
  ELSE IF Len(x.events) < MaxEvents THEN [x EXCEPT !.events = Append(@, p)]
  ELSE [x EXCEPT !.events = Append(Tail(@), p),
                 !.lost = @ \cup ({Head(x.events)} \ Contents(Append(Tail(x.events), p)))]

\* Mistake: a change does not start the buffer time.
CheckNotStarting(x, p) ==
  LET y == [x EXCEPT !.due = @ \cup {p}, !.lost = @ \ {p}] IN
  IF (x.cfg.change /\ x.cfg.buffer) \/ x.cfg.interval THEN Store(y, p)
  ELSE IF x.cfg.change THEN (IF x.cfg.rbe THEN Report(y, {p}) ELSE SendDataSet(y))
  ELSE x

\* tase2_checkVariable, for one of the transfer sets of the point.
Check(x, p) ==
  LET y == [x EXCEPT !.due = @ \cup {p}, !.lost = @ \ {p}] IN
  IF x.cfg.change /\ x.cfg.buffer THEN Store([y EXCEPT !.started = TRUE], p)
  ELSE IF x.cfg.interval THEN Store(y, p)
  ELSE IF x.cfg.change THEN (IF x.cfg.rbe THEN Report(y, {p}) ELSE SendDataSet(y))
  ELSE x

\* The oldest critical report is not confirmed in time.
Expire(x) ==
  [x EXCEPT !.outstanding = Tail(@),
            !.overdue = IF Head(x.outstanding) \/ @ = MaxReports THEN @ ELSE @ + 1]

Interval(x) == SendBoth(x)

BufferOver(x) == [SendBoth(x) EXCEPT !.started = FALSE, !.bits = {}]

\* What is due of a transfer set in a tick, in the order of handleTransferSet.
Handled(x, expired, interval, integrity, over) ==
  LET x1 == IF expired THEN Expire(x) ELSE x
      x2 == IF interval THEN Interval(x1) ELSE x1
      x3 == IF integrity THEN SendDataSet(x2) ELSE x2
  IN  IF over THEN BufferOver(x3) ELSE x3

-----------------------------------------------------------------------------
(* The server thread.                                                       *)

Open(c) ==
  /\ ServerFree
  /\ c \notin connected
  /\ connected' = connected \cup {c}
  /\ UNCHANGED <<active, owner, status, context, server, checking, answers>>

\* tase2_Server_getNextDSTransferSet: the first one that is not active.
GetNextDSTransferSet(c) ==
  /\ ServerFree /\ LockFree
  /\ c \in connected
  /\ \E s \in Set \ active :
       /\ \A t \in Set : t < s => t \in active
       /\ owner' = [owner EXCEPT ![s] = c]
       /\ active' = active \cup {s}
  /\ UNCHANGED <<connected, status, context, server, checking, answers>>

\* Mistake: a transfer set is enabled twice.
EnableAgain(c, s, cfg) ==
  /\ ServerFree /\ LockFree
  /\ c \in connected
  /\ context' = [context EXCEPT ![s] = NewContext(cfg)]
  /\ owner' = [owner EXCEPT ![s] = c]
  /\ active' = active \cup {s}
  /\ UNCHANGED <<connected, checking, answers>>

(***************************************************************************)
(* enableDSTransferSet, of any set the client can write, reserved or not;  *)
(* one that fails (no such data set, no access) changes nothing.           *)
(***************************************************************************)
Enable(c, s, cfg) ==
  /\ ServerFree /\ LockFree
  /\ c \in connected
  /\ ~status[s]
  /\ context' = [context EXCEPT ![s] = NewContext(cfg)]
  /\ owner' = [owner EXCEPT ![s] = c]
  /\ active' = active \cup {s}
  /\ UNCHANGED <<connected, checking, answers>>

\* Writing the whole structure.
Start(c, s, cfg) ==
  /\ Enable(c, s, cfg)
  /\ status' = [status EXCEPT ![s] = TRUE]
  /\ UNCHANGED server

\* Writing the component Status: it is set when the lock has been released.
EnableStatus(c, s, cfg) ==
  /\ Enable(c, s, cfg)
  /\ server' = [at |-> "enabling", set |-> s]
  /\ UNCHANGED status

SetStatus ==
  /\ server.at = "enabling"
  /\ status' = [status EXCEPT ![server.set] = TRUE]
  /\ server' = Idle
  /\ UNCHANGED <<connected, active, owner, context, checking, answers>>

\* tase2_Server_deactivateDSTransferSet, for the transfer sets S.
Deactivate(S) ==
  /\ status' = [s \in Set |-> status[s] /\ s \notin S]
  /\ context' = [s \in Set |-> IF s \in S THEN NoContext ELSE context[s]]

\* Mistake: the transfer set is disabled without the lock.
DisableUnlocked(c, s) ==
  /\ ServerFree
  /\ c \in connected
  /\ status[s]
  /\ Deactivate({s})
  /\ active' = active \ {s}
  /\ UNCHANGED <<connected, owner, server, checking, answers>>

\* Writing FALSE to Status.
Disable(c, s) ==
  /\ ServerFree /\ LockFree
  /\ c \in connected
  /\ status[s]
  /\ Deactivate({s})
  /\ active' = active \ {s}
  /\ UNCHANGED <<connected, owner, server, checking, answers>>

(***************************************************************************)
(* Writing the whole structure with Status FALSE: only the removal from    *)
(* activeTransferSets is under the lock.                                   *)
(***************************************************************************)
Stop(c, s) ==
  /\ ServerFree
  /\ c \in connected
  /\ status[s]
  /\ Deactivate({s})
  /\ server' = [at |-> "stopping", set |-> s]
  /\ UNCHANGED <<connected, active, owner, checking, answers>>

RemoveStopped ==
  /\ server.at = "stopping" /\ LockFree
  /\ active' = active \ {server.set}
  /\ server' = Idle
  /\ UNCHANGED <<connected, owner, status, context, checking, answers>>

\* Mistake: a set that is only reserved is not released.
ClosedKeepsReserved(c) ==
  LET mine == {s \in active : owner[s] = c /\ status[s]} IN
  /\ ServerFree /\ LockFree
  /\ c \in connected
  /\ connected' = connected \ {c}
  /\ answers' = {m \in answers : m.by # c}
  /\ Deactivate(mine)
  /\ active' = active \ mine
  /\ UNCHANGED <<owner, server, checking>>

\* The connection closes: tase2_Server_deactivateTransferSets.
Closed(c) ==
  LET mine == {s \in active : owner[s] = c} IN
  /\ ServerFree /\ LockFree
  /\ c \in connected
  /\ connected' = connected \ {c}
  /\ answers' = {m \in answers : m.by # c}
  /\ Deactivate(mine)
  /\ active' = active \ mine
  /\ UNCHANGED <<owner, server, checking>>

(***************************************************************************)
(* A tick handles the active transfer sets one after the other; at least   *)
(* one thing is due of this one.                                           *)
(***************************************************************************)
HandleTransferSet(s, expired, interval, integrity, over) ==
  LET x == context[s] IN
  /\ ServerFree /\ LockFree
  /\ s \in active /\ status[s]
  /\ expired \/ interval \/ integrity \/ over
  /\ expired => x.outstanding # <<>>
  /\ interval => x.cfg.interval /\ x.cfg.periodic
  /\ integrity => x.cfg.integrity /\ x.cfg.rbe
  /\ over => x.cfg.change /\ x.started
  /\ context' = [context EXCEPT ![s] = Handled(x, expired, interval, integrity, over)]
  /\ Len(context'[s].outstanding) <= MaxReports
  /\ UNCHANGED <<connected, active, owner, status, server, checking, answers>>

\* Transfer_Report_ACK, or Transfer_Report_NACK, which goes to the application, too:
\* mmsInformationReportHandler.
HandleAnswer(m) ==
  /\ ServerFree
  /\ m \in answers
  /\ answers' = answers \ {m}
  /\ context' = IF m.set \in active /\ status[m.set]
                THEN [context EXCEPT ![m.set].outstanding = <<>>]
                ELSE context
  /\ UNCHANGED <<connected, active, owner, status, server, checking>>

-----------------------------------------------------------------------------
(* The clients answer critical reports in the order they get them, some of  *)
(* them late.                                                               *)

Unanswered(s) == {i \in 1..Len(context[s].outstanding) : ~context[s].outstanding[i]}

AnswerReport(s) ==
  /\ Running
  /\ s \in Live
  /\ Cardinality(answers) < MaxAnswers
  /\ answers' = answers \cup {[by |-> owner[s], set |-> s]}
  /\ IF context[s].overdue > 0
     THEN context' = [context EXCEPT ![s].overdue = @ - 1]
     ELSE \E i \in Unanswered(s) :
            /\ \A j \in Unanswered(s) : i <= j
            /\ context' = [context EXCEPT ![s].outstanding[i] = TRUE]
  /\ UNCHANGED <<connected, active, owner, status, server, checking>>

-----------------------------------------------------------------------------
(* The application.                                                         *)

\* The transfer sets that a point refers to (activeTransferSets of the point).
Referring(p) == {s \in Live : p \in Points(context[s].cfg.dataSet)}

(***************************************************************************)
(* Tase2_Server_updateOnlineValue of a point that has changed: when a      *)
(* transfer set refers to it, take the lock and go through the sets.       *)
(***************************************************************************)
UpdateOnlineValue(p) ==
  /\ Running /\ LockFree
  /\ Referring(p) # {}
  /\ \A s \in Referring(p) : Len(context[s].outstanding) < MaxReports
  /\ checking' = [sets |-> Referring(p), point |-> p]
  /\ UNCHANGED <<connected, active, owner, status, context, server, answers>>

(***************************************************************************)
(* The sets are checked.  A set stopped meanwhile is not found any more,   *)
(* or its context is used after it has been freed, which ends the program. *)
(***************************************************************************)
CheckVariable ==
  /\ Running /\ ~LockFree
  /\ checking' = NotChecking
  /\ context' = [s \in Set |-> IF s \in checking.sets \cap Referring(checking.point)
                               THEN Check(context[s], checking.point) ELSE context[s]]
  /\ UNCHANGED <<connected, active, owner, status, server, answers>>

UseFreedContext ==
  /\ Running /\ ~LockFree
  /\ ~(checking.sets \subseteq Live)
  /\ server' = [at |-> "crashed"]
  /\ UNCHANGED <<connected, active, owner, status, context, checking, answers>>

-----------------------------------------------------------------------------
Next ==
  \/ \E c \in Connection :
       \/ Open(c) \/ Closed(c) \/ GetNextDSTransferSet(c)
       \/ \E s \in Set :
            \/ \E cfg \in Config : Start(c, s, cfg) \/ EnableStatus(c, s, cfg)
            \/ Disable(c, s) \/ Stop(c, s)
  \/ SetStatus \/ RemoveStopped
  \/ \E s \in Set, expired, interval, integrity, over \in BOOLEAN :
       HandleTransferSet(s, expired, interval, integrity, over)
  \/ \E m \in answers : HandleAnswer(m)
  \/ \E s \in Set : AnswerReport(s)
  \/ \E p \in Point : UpdateOnlineValue(p)
  \/ CheckVariable \/ UseFreedContext

Spec == Init /\ [][Next]_vars

(***************************************************************************)
(* The threads run and get the lock at last.  The server thread ticks for  *)
(* ever: the interval of a set passes again and again if it has one, or    *)
(* its buffer time ends, or else its integrity period; a critical report   *)
(* that is not answered runs out of time.                                  *)
(***************************************************************************)
TimePasses(s) ==
  LET cfg == context[s].cfg
      interval == cfg.interval /\ cfg.periodic
      over == ~interval /\ cfg.change /\ cfg.buffer
  IN  \E expired \in BOOLEAN :
        HandleTransferSet(s, expired, interval, ~interval /\ ~over, over)

Fairness ==
  /\ WF_vars(SetStatus) /\ SF_vars(RemoveStopped) /\ WF_vars(CheckVariable)
  /\ \A s \in Set : SF_vars(s \in Live /\ TimePasses(s))

FairSpec == Spec /\ Fairness

-----------------------------------------------------------------------------
(* What transfer sets promise.                                              *)

EnabledContext ==
  [enabled : {TRUE}, cfg : Config, bits : SUBSET Nat, events : Seq(Point), started : BOOLEAN,
   outstanding : Seq(BOOLEAN), overdue : 0..MaxReports, due : SUBSET Point, lost : SUBSET Point]

ServerState ==
  {Idle, [at |-> "crashed"]} \cup [at : {"enabling", "stopping"}, set : Set]

TypeOK ==
  /\ connected \subseteq Connection
  /\ active \subseteq Set
  /\ owner \in [Set -> Connection \cup {NoConnection}]
  /\ status \in [Set -> BOOLEAN]
  /\ context \in [Set -> EnabledContext \cup {NoContext}]
  /\ \A s \in Live : Len(context[s].events) <= MaxEvents
  /\ server \in ServerState
  /\ checking \in {NotChecking} \cup [sets : SUBSET Set, point : Point]
  /\ answers \subseteq [by : Connection, set : Set]

(***************************************************************************)
(* Status, context and activeTransferSets agree whenever the server thread *)
(* takes the next request: an enabled set is looked at by every tick and   *)
(* found when its connection closes.  No set belongs to a closed           *)
(* connection, whose memory is freed (tase2_Server_deactivateTransferSets).*)
(***************************************************************************)
SetsReleased ==
  /\ \A s \in active : owner[s] \in connected
  /\ Live \subseteq active
  /\ ServerFree => \A s \in Set : status[s] <=> s \in Live

\* No accepted entry of the data set is behind a refused one.
Aligned(ds) == \A k \in Accepted(ds) : \A i \in 1..k : ds[i] # Refused

\* The interval condition is set but Interval is 0, and nothing else ever sends.
Silent(cfg) ==
  /\ cfg.interval /\ ~cfg.periodic
  /\ ~(cfg.change /\ cfg.buffer) /\ ~(cfg.integrity /\ cfg.rbe)

(***************************************************************************)
(* A change that has not been reported by an enabled set with the interval *)
(* or the object change condition is stored where the next report of       *)
(* changes finds it, and something will send a report: a running buffer    *)
(* time, an interval, or the integrity period.  Excepted are a change that *)
(* a full event queue has dropped, an interval condition with Interval 0,  *)
(* and data sets with a refused entry before an accepted one               *)
(* (tase2_checkVariable, handleTransferSet).                               *)
(***************************************************************************)
ChangeOwed ==
  \A s \in Live :
    LET x == context[s] IN
    Aligned(x.cfg.dataSet) =>
      \A p \in x.due \ x.lost :
        /\ p \in AtPlaces(x.cfg.dataSet, x.bits) \cup Contents(x.events)
        /\ \/ x.started
           \/ x.cfg.interval /\ x.cfg.periodic
           \/ x.cfg.integrity /\ x.cfg.rbe
           \/ Silent(x.cfg)

(***************************************************************************)
(* An enabled set keeps its client until it is disabled: no other one      *)
(* enables it or is given it by Next_DSTransfer_Set                        *)
(* (tase2_Server_handleDSTransferSetWrite).                                *)
(***************************************************************************)
EnabledKeepsClient ==
  [][\A s \in Set : status[s] /\ status'[s] => owner'[s] = owner[s]]_vars

(***************************************************************************)
(* While the application goes through the transfer sets of a point, none   *)
(* of them loses its context, except one that a client stops by writing    *)
(* the whole structure (activeTransferSetsLock).                           *)
(***************************************************************************)
ContextKept ==
  [][\A s \in checking.sets :
       s \in Live /\ context'[s] = NoContext => server' = [at |-> "stopping", set |-> s]]_vars

(***************************************************************************)
(* Every change is reported at last, unless the set is disabled or a full  *)
(* event queue has dropped it (Tase2_Server_updateOnlineValue).  Excepted  *)
(* are sets with an interval condition but Interval 0, and sets with a     *)
(* refused entry before an accepted one.                                   *)
(***************************************************************************)
ChangeReported ==
  \A s \in Set : \A p \in Point :
    (/\ s \in Live
     /\ Aligned(context[s].cfg.dataSet) /\ ~Silent(context[s].cfg)
     /\ p \in context[s].due)
      ~> (s \notin Live \/ p \notin context[s].due \/ p \in context[s].lost \/ ~Running)

(***************************************************************************)
(* "called when a transfer set report (marked as critical) is not          *)
(* confirmed by the client or confirmed negative" (tase2_server.h): an     *)
(* answer settles only reports that the client has answered.               *)
(***************************************************************************)
AckConfirmsItsReport ==
  [][\A m \in answers :
       HandleAnswer(m) /\ m.set \in active /\ status[m.set]
         => Unanswered(m.set) = {}]_vars
=============================================================================
