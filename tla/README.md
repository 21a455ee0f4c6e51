# Data exchange in energy-servicehost: a verification project

The service host runs Windows services that exchange messages between a Powel
installation and the outside world. Its core is the DataExchangeManager: exports
are put into transactional queues by programs of the installation and sent out by
modules; imports are received by modules, put into queues, and handed to import
applications. The queues (MSMQ), a store for the payloads (the claim check), a log
in the database and the remote systems all fail separately, and the code promises
that nothing is lost and nothing waits for ever behind a message that fails.

One of its services talks ICCP (TASE.2) to control centres: its modules use the C
library libtase2, which is part of the repository, with the MMS stack libmms below it.
Several threads meet there: a thread per endpoint that receives and ticks, threads of
the application that send requests or change values, and a peer that may answer late,
wrongly, or not at all.

The modules here say what is promised and check it.

Paths below are relative to `src/src/DataExchangeManager` unless they start with `src/`
or `L/`, which stands for `src/src/Dependencies/libtase2-2.3.0/`.

## 1. Inventory

| Component | Where | State | Operations | What makes it correct |
|---|---|---|---|---|
| Queues | `DataExchangeAPI/Msmq` | per module `HIGH`, `NORMAL`, `LOW`; import queues; import error queue | enqueue, dequeue by priority, peek, remove by id, read all | a message is in one place; a transaction is all or nothing |
| Transactions | `MsmqDataExchangeTransaction`, `MsdtcDataExchangeTransaction` | pending, voted, committed, aborted | Begin, Commit, Rollback, Dispose | Commit of the one is final at once, of the other only a vote |
| Claim-check store | `DataExchangeAPI/ClaimCheck` | payload per ticket | checkIn, checkOut, clear | a message in a queue has its payload |
| Message log | `DataExchangeAPI/MessageLog` | `MESSAGE_HEADER.STATUS` | conditional and unconditional updates | what the log says happened |
| DataExchangeAPI | `DataExchangeAPI/DataExchangeAPI.cs` | none of its own | Enqueue, Dequeue, Peek, Remove for exports, imports and errors | checks before the queue is touched |
| Push exporters | `DataExchangeManagerService/Exporters/MessageExporter.cs`, `DataExchangeCommon/MessageExporter.cs` | one open transaction, one message | `ExportMessage` | nothing lost, failing messages block nobody, no exception gets out |
| Module threads | `Modules/Common/Abstract/TaskBasedModule.cs`, `ThreadBasedModule.cs` | thread, stop request | loop, sleep, stop, abort | the thread lives until it is asked to stop |
| Import application manager | `ImportApplicationManagerService`, `ImportApplicationManagerLogic` | one open transaction, one message | `RunIteration`, `ProcessNextImportMessage`, `HandleMessageWithExceptionHandling` | as for the exporters; what fails goes to the error queue |
| Administration | `Administration/ImportModule/ErroneousImportsRepository.cs` | the list on the screen | `GetAll`, `Delete`, `SaveAndImport` | every entry of the error queue can be reached; no second copy |
| Submitters | `WsLogicBase` (two copies), `ExpressExportConnector`, `ExpressImportConnector` | a transaction of their own | `SubmitImport`, `Main` | what was acknowledged is in a queue |
| StandardMsmq | `Modules/StandardMsmq` | queue of the other installation | an exporter and an import module | bridge without loss |
| StandardWS | `Modules/StandardWS/StandardWsLogic.cs` | none; several callers | `GetExport`, `SendExportAck`, `SetMessageStatus`, `SubmitImport` | an export is offered until it is acknowledged |
| Azure, EcpAmqp, ICCP, NpAuction, Compello, MADES, MassTransit | their services and modules | connection, locks, timers | receive, acknowledge, reconnect | acknowledge after, not before |
| Runners | `ImportApplicationManagerLogic/Runners`, `IO` | a process, a bus endpoint | `Run`, `Send` | one ending per import |
| Service lifecycle | `src/src/ServiceHost/ServiceHost.cs`, `src/src/Powel/Icc/Process`, `DataExchangeCommon/Abstract/DataExchangeManagerServiceBase.cs` | stop flags, running flags, threads | OnStart, Stop, RunIteration, StopModules, TerminateRunningModules | a stop is never lost, all threads end |
| TASE.2 control points | `L/src/tase2_server/tase2_server.c`, `tase2_blt.c`, `tase2_model.c` | time of the selection, tag and its owner | read `_SBO` and `_TAG`, write a point or its `_TAG`, local tags | a command is executed only on a valid select; one selects at a time; tags bind |
| TASE.2 transfer sets | `L/src/tase2_server/ds_transfer_set.c` | list of active sets, the client of a set, stored changes, outstanding critical reports | reserve, enable, disable, tick, update of a value, acknowledgement, close | every change is reported; nothing outlives its connection |
| MMS endpoint, active | `L/dependencies/libmms/src/mms/iso_mms/endpoint/mms_endpoint.c` | state, open connection, outstanding calls | connect, disconnect, tick, callbacks of the ISO connection | connect can be repeated; every request is called back once |
| ISO connection | `L/dependencies/libmms/src/mms/iso_client/iso_client_connection.c` | state machine from TCP to data, transmit buffer | handleConnection, associateAsync, sendMessage, close | the buffer is given back; the state machine survives all orders |
| MMS client | `L/dependencies/libmms/src/mms/iso_mms/client` | its connection and a lock | requests that wait for their answer | nobody sends over a freed connection; every request returns |
| TASE.2 client, endpoint, the rest of the server; MMS server, file services, ACSE, COTP | `L` | names, data sets, open files, peers | | not modelled, apart from what the parts above call |
| Configuration system, `Powel` data access, C++ libraries | `src/src/ConfigurationSystem`, `src/src/Powel`, `src/src/cpp` | tables | reads and writes | not the subject of these models |

How they interact: producers enqueue exports in a transaction and write the log; an
exporter's thread receives in a transaction, calls the module's `SendExportMessage`,
writes the log, commits and deletes the payload. On the import side modules enqueue;
the manager's thread receives, runs an import application, deletes the payload and
commits; failing imports are sent to the error queue in the same transaction; the
administration tool takes them out again. All of them share the queues, the store
and the database and nothing else, so that every statement that touches one of them
is a point where another program, a crash or an abort can come in between.

In libtase2 a passive endpoint (a server) has one thread, which accepts, receives,
executes the requests it has put into a queue, and ticks the transfer sets; requests of
different clients are never handled at the same time. An active endpoint has one thread
that calls `IsoClientConnection_handleConnection` in a loop, under `tickMutex`; threads of
the application connect, disconnect, and send requests, for which they wait on a
semaphore that a callback posts. On the server side, threads of the application change
values and tags. What they share is guarded by a number of locks
(`activeTransferSetsLock`, `outstandingCallsLock`, `connectionLock`,
`openConnectionsLock`, the transmit buffer), and in places by none.

What is hard here: a receive that is committed late and a payload that is deleted
too early; two kinds of transaction behind one interface; handlers that run inside
catch blocks and fail themselves; messages that fail for ever at the head of a
queue; lists on a screen that are older than the queue; stops and aborts. In the C
library: callbacks into the application between a test and its effect, answers that race
timeouts and the loss of the connection, a connection that is freed while others hold
it, and connects that fail at any of a dozen places.
`PROJECT.json` lists these hazards with their lines.

## 2. The modules

```
MsmqQueue ------ ExportQueue --- ExporterThread --+-- DemMessageExporter
    |                                             +-- CommonMessageExporter
    +----------- ImportQueue --- ImportApplicationManager

MessageDelivery        what all three implement

IsoClientConnection ----+
                        +-- MmsEndpoint
MmsOutstandingCalls ----+
Tase2Control
Tase2TransferSet

MC*                    small instances

MmsEndpointProofs   Tase2ControlProofs   Tase2TransferSetProofs
MsmqQueueProofs --+-- ExporterThreadProofs --+-- DemMessageExporterProofs
                  |                          +-- CommonMessageExporterProofs
                  +-- ImportApplicationManagerProofs
```

**MsmqQueue.** The queues of one component as sequences (`queue`) and the one
transaction its thread has open. `remote` is what `QueuesAreOnRemoteMachine()` says,
chosen once among `RemoteSettings`: queues on this machine have MSMQ transactions,
others MSDTC. `corrupt` is the set of messages whose body cannot be read back, chosen
once among the subsets of `Corruptible`. Of the transaction, `tx` is `pending` after Begin, `committed` or
`aborted` for MSMQ, `complete` after the vote of MSDTC, and `none` outside the
`using` block. `held` is the local variable `message`, `heldFrom` the queue it came
from, `requeued` whether it was sent on in the same transaction, to the queue
`Aside` (`LOW` for exports, `ERROR` for imports). `MakeFinal` and `PutBack` are what
MSMQ does at commit and abort. `RollbackThrows` is the exception MSMQ raises for a
transaction that is not pending. `gone` is a history variable: the reason for which
the last copy of a message left.

**ExportQueue, ImportQueue.** What surrounds the two kinds of consumer: the
claim-check store as the set `payload`, the log as a function, the programs that
enqueue (store the payload first, then send and commit, or fail), the operator who
removes messages, the store that loses a payload, and, for imports, the
administration tool. `GetAll` removes unreadable entries and commits this before it
fetches any payload, and puts nothing on the screen when one payload is missing. What
it leaves in the queue is given by the positions it keeps (`InOrder`), in their order.

**ExporterThread.** What the two exporters have in common, statement by statement:
waiting, the scan over the priorities, the send and its endings, the log call, the
commit, the deletion of the payload, the discard, the rollback, Dispose, the sleep,
the abort of the thread, crash and restart. `pc` names the statement the thread is at.

**DemMessageExporter, CommonMessageExporter.** The two `MessageExporter` classes.
They differ in the catch clauses (`Handler`), in how a message is moved to `LOW` (in
the transaction that received it, or in an inner one that commits first), and in the
value of `IsNewMessageFound` when a send fails (`Begin`). Each operator is named for
the method or the block it stands for.

**ImportApplicationManager.** `ProcessNextImportMessage` with the clauses of
`HandleMessageWithExceptionHandling` as `AfterRun`, the deletion of the payload
before the commit, the handler that sends a failing message to the error queue, the
rollback when there was none, and `ServiceThread` around it.

**Tase2Control.** The control points of a TASE.2 server. `selectedAt` is
`selectedTimestamp`, from which `isArmed` decides whether a device is selected;
`armedFlag`, `tag` and `tagOwner` are the tag. A request that gets as far as the
application's handler (select, operate, set-tag) is two steps, `Select` and
`SelectReturns` and so on, since time passes and other threads may tag the point
(`SetTagLocally`) while the handler runs. `request` is what the server thread has in
hand. `grant` is a history variable: the last select of a point and what became of it.
Which rights a client has is `Allowed`.

**Tase2TransferSet.** The data set transfer sets of a server. `active`, `owner`, `status`
and `context` are `activeTransferSets`, the `connectionObject`, the component `Status` and
the `activeContextInfo` of a set; they are changed at different places and must agree.
`checking` says that a thread of the application holds `activeTransferSetsLock` and goes
through the sets of a point; `server` is where the server thread is between two accesses.
The reports are functions of the context of one set (`SendDataSet`, `SendChanged`,
`Store`, `Check`, `Expire`), so that `Handled` reads like `handleTransferSet`. A report with a
point carries its value, hence `due`, the points whose last change is not reported yet,
and `lost`, those of them a full queue has dropped, are all that is kept of values.
A configuration (`ConfigType`) has the conditions and flags of a set, whether Interval is
positive (`periodic`), and the data set as the client names it, with `Refused` for an entry
that is no data point or a control point. The code numbers the points in two ways, and so
does the model: a change sets the bit of the entry (`Entry`, `dataSetIdx`), the report of
changes takes the bits by place among the accepted entries (`AtPlaces`), and the report of
the whole data set sends the accepted entries under the name of the data set, so that a
client finds a value only where both numbers agree (`InPlace`).

**IsoClientConnection.** The state machine of `handleConnection`. The code reads
`intState` at the beginning of a call and stores the next state at its end, with
callbacks in between and other threads writing `intState` meanwhile; therefore a call is
several steps, and `handler` says where it is and which state it will store. `buffer` is
the semaphore of the transmit buffer. `connect` takes it for the initiate request, and the
state machine gives it back; the callback of a received message takes it for a reply before
it looks at the message (`TakeBuffer`) and gives it back afterwards (`Handled`).

**MmsOutstandingCalls.** The table of requests that wait for an answer.

**MmsEndpoint** puts the two together with the endpoint, one client, and the threads
that use it: the user who connects and disconnects, the tick thread, and callers. The
callbacks of the ISO connection are actions of the thread that runs `handleConnection`.
`client` says that the `MmsClient` has a connection, `open` that it is in
`openConnections`. `faulted` is history.

**MessageDelivery.** The abstract specification of all three: a set of messages
owed, how each that is not owed ended, and which were delivered. A message is
accepted once, may be delivered any number of times while it is owed, and is settled
once; it may be settled as `ok` only when it was delivered, and it never comes back.
One transaction may settle several (the administration tool removes all unreadable
entries at once).

### From code to actions

| Code | Actions |
|---|---|
| `MsmqDataExchangeQueue.Dequeue` | `WaitAny`, then `ScanNext` or `ScanReceive` per priority, `DequeueFails` |
| `MessageExporter.ExportMessage`, try block | `Send`, `OnSuccess`, `CommitSent`, `DeleteMessageData` |
| the same, catch clauses | `CatchInvalid`, `OnInvalidMessageException`, `EnqueueToLowPriority` / `EnqueueLow`, `CommitLow` / `CommitMoved`, `CatchRollback` |
| end of the `using` block | `EndUsing` |
| `TaskBasedModule.ExecuteUntilStopped`, `ServiceThread.RunProcess` | `AfterExport` / `NextIteration`, `SleepTime` / `Sleep` |
| `ThreadBasedModule.Abort` | `Abort` |
| `ImportApplication.HandleMessage` | `Run` |
| `EnqueueErroneousImportMessage` | `EnqueueErroneous`, `CatchInvalidMessage` for the call without a message |
| `ErroneousImportsRepository` | `GetAll`, `Delete`, `SaveAndImport` |
| `selectControl`, `operateControl`, `setTag` | `Select`, `Operate`, `SetTag` up to the application's handler; `SelectReturns`, `OperateReturns`, `SetTagReturns` |
| `Tase2_ControlPoint_setTag` | `SetTagLocally` |
| `tase2_Server_handleDSTransferSetWrite` | `Start`, `EnableStatus` and `SetStatus`, `Disable`, `Stop` and `RemoveStopped` |
| `tase2_Server_checkTransferSets` | `HandleTransferSet`, one set at a time |
| `Tase2_Server_updateOnlineValue` | `UpdateOnlineValue`, then `CheckVariable` (or `UseFreedContext`) under the lock |
| `mmsInformationReportHandler` | `HandleAnswer` |
| `IsoClientConnection_handleConnection` | one of the actions of `HandleConnection`, the actions of `Callback`, and `End` |
| `MmsEndpoint_connect`, `MmsEndpoint_disconnect` | `Connect`, `PrepareAssociate`, `Associate`, `ConnectFailed`; `Disconnect`, `CloseHandles`, `CloseReturns` |
| `mmsIsoClientCallback` | `AssociationFailed`, `NewConnection`, `EmptyPayload`, `TakeBuffer`, `InitiateResponse`, `LateInitiate`, `ConcludeResponse`, `Response`, `ResponseDone`, `OtherData`, `Closed1`, `Closed2`, `ClosedHandler`, `Destroy`, `Expire` |
| `MmsClient_readVariable` | `LockConnection`, `SendAsyncRequest`, `CheckState`, `Send`, `Return` |

### Abstractions

* Messages are model values. What a message contains is the set of endings its
  handling may have (`Outcomes`), whether its body can be read (`corrupt`) and whether
  it may lack a protocol (`NoProtocol`). A send, a run of an import application and a
  database call are one step each.
* Messages are Version 1 (payload in the claim-check store) and have a row in the
  message log.
* `sends` and `imports` count successes the program saw.
* One thread of one module, as in the code: each module has its own queues and its
  own thread. Producers, operators and users are not limited in number; what they do
  is atomic per transaction.
* MSMQ gives a message a new id when it is sent again; a list entry on the screen
  therefore reaches only the entry it was made from.
* A stop request is not modelled here; it only ends loops between passes.
* Of the values of control and data points only what decides about control flow is
  kept. A data set has all points. Time is a clock where it is compared with another time
  (`Tase2Control`), else a choice: an interval, a buffer time or a timeout may be over
  whenever it could be.
* The socket is a choice of everything the code distinguishes. Bytes, partial messages
  and the encoding of PDUs are left out.
* A caller stands for any of the requests of `mms_client.c` that lock the connection,
  send and wait; they differ in what they encode.
* A context used after it has been freed ends the program (`UseFreedContext`), or the set
  is simply not found any more; both are outcomes of the same race.
* The actions whose comments start with *Mistake:* are used by no specification.
  They are plausible errors in the operator defined right after them; for each
  property one of them is put in its place to see that the property notices.

## 3. Properties and runs

Every fault (a database, queue or store call that fails, a payload lost, a producer
that dies, a removal by hand, an abort, a crash) raises the counter `faults`;
`MaxFaults` bounds them all together. `FaultKind` says which kinds a run has.
`MaxResubmits` bounds the resubmissions of the administration tool, which could go
on for ever.

| Run | Checks | Result |
|---|---|---|
| `DemExport` | `TypeOK`, `NoMessageLost`, `PayloadWhileQueued`, `DeliveredIsLogged`, `ResendOnlyAfterFault`, `RetriedLast`, refinement of `MessageDelivery` | holds |
| `DemExportLive` | `FailingMessageBlocksNobody` | holds |
| `CommonExport` | the same questions for the second exporter (`PayloadUntilDelivered` is what its two transactions leave of `PayloadWhileQueued`); `CopyOnlyAfterFault` and `RetryOnlyAfterSleep` | holds |
| `CommonExportLive` | `MissingRuleBlocksNobody` | holds |
| `Import` | `NoImportLost`, `ImportedOncePerFault`, `SingleCopy`, `PayloadUntilHandled`, refinement of `MessageDelivery` | holds |
| `ImportLive` | `InvalidBlocksNobody` | holds |
| `ImportInvalid` | `InvalidIsPutAside` | violated |
| `Tase2Control` | `OperateNeedsSelect`, `SelectIsExclusive`, `TagKeptWhileSelected`, `ForeignTagKept` | holds |
| `Tase2TransferSet` | `SetsReleased`, `ChangeOwed`, `EnabledKeepsClient`, `ContextKept`, `ChangeReported` | holds |
| `Tase2CriticalReport` | `AckConfirmsItsReport` | violated |
| `MmsEndpoint` | `BufferOwned`, `ConnectionAlive`, `CalledBackOnce`, `CallsReturn`, `ReconnectsUnlessFaulted` | holds |
| `MmsEndpointStuck` | `Reconnects` | violated |

What the runs of the exchange show together: an accepted message leaves the queues only
delivered, refused, found invalid, without payload, or removed by a person, in any
order of failures; a repetition or a second copy always costs a fault; the log agrees
with the queues; the payload is there as long as it is needed, and where it is not
(MSDTC, the import manager's early deletion, the second exporter's copy) the message
had been handled already; and a failing message does not hold up another one.

What the runs of libtase2 show: a command reaches a select-before-operate device only on
a select that is still good, in spite of the handlers of the application in between. A
transfer set never survives its connection. A change of a value is stored where the next
report finds it, and something will send it, with three exceptions: a full event queue has
dropped it; the interval condition is set, Interval is 0, and there is neither a buffer time
nor an integrity period; or an entry of the data set before the point was refused. In the
endpoint the transmit buffer comes back and a freed connection is left alone, whatever the
peer and the network do, and every request is called back once. It also returns to its
caller, unless the tick thread has been blocked by an initiate response that cannot be read
or by a conclude response; and the endpoint gets connected again and again, unless one of
the five events that `NoteFault` names has happened.

### Findings

* An import that cannot be read is not put into the error queue but dropped: there
  is no message object to enqueue, and the exception that says so is swallowed.
  (`ImportInvalid`)
* A TCP connect that fails at once leaves its connection in `openConnections`; after it
  `MmsEndpoint_connect`, which the documentation tells the application to call again, is
  ignored for ever. (`MmsEndpointStuck`)
* A `Transfer_Report_ACK` names the transfer set only, and settles all its outstanding
  critical reports, also those the client has not answered. (`Tase2CriticalReport`)

Seen while modelling, in the models, and not checked by a run of their own:

* `ExportMessage` of DataExchangeManagerService promises to try again "after some
  seconds"; the flag that decides about the sleep is true after a failed send, so a
  failing export that is alone is sent again at once and for ever.
* "This service can NOT fail": a failing database call in a catch block of the first
  exporter, and a failing deletion of a payload after the commit in the second one,
  let an exception out and end the module's thread (`escaping`).
* An import that the import application refused should never be in the error queue;
  its payload is deleted before the commit, and after a crash the message is found
  without it and put there.
* One entry without payload in the error queue hides all entries from the user.
* An initiate response that cannot be read makes the tick thread wait for a mutex it
  holds; the endpoint does nothing any more (`InitiateResponse`). A conclude response makes
  it wait for the transmit buffer it has taken itself (`ConcludeResponse`); no call of the
  library asks for a conclude, so it comes only from a peer that answers unasked. This is
  why the runs of `MmsEndpoint` do not check deadlock and why the liveness properties name
  exceptions.
* An initiate response that comes as data sets the endpoint `IDLE` while the connection stays
  open, so that `connect` is ignored as long as it lasts (`LateInitiate`).
* An association the peer refuses is reported as failed and then treated as if it had
  succeeded: the client gets a connection (`RejectedGoesOn`).
* A stop that writes the whole structure of a transfer set frees its context without the
  lock under which a thread of the application may be using it (`UseFreedContext`).
  Writing only `Status` takes the lock first. `ContextKept` shows that this is the only way.
* A transfer set with the object change and the interval condition, but Interval 0, no buffer
  time and no integrity period, stores its changes for an interval that never comes
  (`ds_transfer_set.c`, line 1391 against 1248). The object change condition alone would
  have sent them at once; `tase2_common.h:277` says of it "Enable sending reports when a
  variable changes". `ChangeOwed` and `ChangeReported` except this combination (`Silent`).
* A change sets the bit of its entry in the data set; the report takes the bits by place in
  the list of accepted points (lines 532-552 against 1089-1128). Behind a refused entry (a
  control point, a name that is not found) the wrong point is reported, or none. The two
  properties except such data sets (`Aligned`).
* An operate is not restricted to the client that has selected the device: its connection
  is stored with the selection (`selectedBy`) and nothing reads it.

### Bounds

`DemExport`, `CommonExport` and `Import` start with local or remote queues and with any
set of unreadable messages; in `Import` any message may lack its protocol. Two messages
are enough for the safety properties: they speak about one message at a time, or about
one and another that is in its way (another queue position, another priority, another
copy, the entry that was waiting in `LOW`). Two faults let a fault hit the handling of
another one (a commit that fails after a send, then a crash; an abort in a catch
block); a third would only repeat these. The producers' fault of an import (`submitter`)
is in `ImportLive`, where it costs less. The liveness runs have a
message that fails every time (or, on the import side, is unreadable or without
protocol) and one or two that never do, local or remote queues, and one fault: of the
database for an exporter, because its thread would not survive a fault of the queue
(`escaping`) and nothing restarts it; of a queue or the store for the import
manager, whose thread goes on.

`Tase2Control` has two clients of different tables, one with all rights on both points,
one that may only read the direct one, a device of each class, and a clock that runs five
ticks with a select timeout of one: enough for a select to expire, be repeated and expire
again while a handler runs. `Tase2TransferSet` has two clients, two sets, two points and
four configurations, which between them use every condition and flag: critical reports
sent at once, changes collected for a buffer time, changes collected until the integrity
period, and an interval with everything else. In the second and the third the interval
condition is set with Interval 0. The data set of the second has another order than the
others and a refused entry at its end; those for which the properties claim nothing (a
refused entry in front, nothing that sends) are left to the proof, which has no bound. A
queue of one event is full after the first; `MaxReports` is 2, the least for a report to be
acknowledged in place of another; `MaxAnswers` bounds the answers in flight.

`MmsEndpoint` has two callers and a table of one entry, so that the second request finds it
full or finds the answer, the timeout and the loss of the first in progress; two calls
outstanding at a time are covered by the proof, for a table of any size. `MaxRequests` bounds
the requests per connection at two (invoke ids start again with the next connection), and
all faults may happen any number of times. The connections themselves are not bounded: the
endpoint connects, fails, and is connected again for ever.

Symmetry in the messages is used where no
constant tells them apart, and never in a run with a liveness property. Deadlock is
checked in all runs of the exchange and in `Tase2Control`: `Sleep` and waiting keep the
thread going, and where it is dead or down the surroundings or `Restart` go on. It is not
checked in the runs of `MmsEndpoint` and `Tase2TransferSet`, where the program can come to a
stop (see above).

### Fairness

`FairSpec` is weak fairness of the thread (`ExportMessage \/ SleepTime`,
`ProcessNextImportMessage \/ Sleep`): Windows keeps scheduling a thread that can run,
calls return or throw, and the sleep ends. Nothing is assumed of producers,
operators, users, crashes or restarts. The liveness runs of the exchange leave out the endings for which the code promises nothing (an
exception no clause names rolls an import back to the head of its queue).

In `Tase2TransferSet` the threads go on and the lock is given to everybody in the end
(strong fairness where it is taken by others in between); the server thread ticks for
ever, and what is due of an enabled set (its interval if that is positive, or else its buffer
time, or else its integrity period) becomes due again and again. Nothing is assumed of clients.

In `MmsEndpoint` the tick thread runs, every thread gets the locks it waits for, and when
outstanding calls run out of time again and again one of them is ended. For the connection it is
assumed that the application calls `connect` again whenever it is not connected, as the
documentation demands, and that a peer that is asked again and again accepts in the end:
strong fairness of the successful outcome of each stage. Nothing is assumed of the
answers to requests, nor of the user's disconnects, nor that faults end. In
`ReconnectsUnlessFaulted` the faults that `NoteFault` names are excluded, everything
else (timeouts, refused TCP connects, broken connections, failing sends) is not.

## 4. Proofs

Every invariant, action property and refinement of a run that holds is stated by a
theorem, for every value of the constants. The proof modules follow the modules they
are about:

* `MsmqQueueProofs`: what `Append`, `Head` and `Tail`, putting in front and removing at a
  position do to the elements of a sequence and to their being different; from them what
  `Receive`, `PutBack` and `MakeFinal` do to the set `Owed` of messages in a queue or in
  the open transaction; and the *moves*, the ways in which a step may rearrange
  queues, transaction and endings, each shown to keep a message in one place.
* `ExporterThreadProofs`: producers, the operator, and the actions both exporters have.
* `DemMessageExporterProofs`, `CommonMessageExporterProofs`: the actions of each one's
  own, and the theorems.
* `ImportApplicationManagerProofs`: the manager and the administration tool.

They hold for any set of messages, any endings of a send or a run, local and remote
queues, any unreadable messages and any number of faults, and assume only what the
modules assume of their constants (`MsmqQueueAssumption`, `ExportQueueAssumption`,
`ImportQueueAssumption` and the two `OutcomesAssumption`).

| Theorem | DemMessageExporter | CommonMessageExporter | ImportApplicationManager |
|---|---|---|---|
| `Invariance` | `IInv` | `IInv` | `IInv` |
| `TypeCorrect` | `TypeOK` | `TypeOK` | `TypeOK` |
| `NothingLost` | `NoMessageLost` | `NoMessageLost` | `NoImportLost` |
| `Implements` | `DeliverySpec` | `DeliverySpec` | `DeliverySpec` |
| `PayloadWaits` | `PayloadWhileQueued` | `PayloadUntilDelivered` | `PayloadUntilHandled` |
| `Repetitions` | `ResendOnlyAfterFault` | `ResendOnlyAfterFault` | `ImportedOncePerFault` |
| `Logs` | `DeliveredIsLogged` | | |
| `Retries` | `RetriedLast` | | |
| `NoMoreCopies` | | `CopyOnlyAfterFault` | |
| `RetriesRested` | | `RetryOnlyAfterSleep` | |
| `OneCopy` | | | `SingleCopy` |

### Nothing is lost

The exporters' `TypeCorrect`, `NothingLost` and `Implements` rest on

    TypeOK /\ Control(Discarded) /\ Unaccepted /\ NoMessageLost

`NoMessageLost` is not inductive by itself. A commit would lose a message if the
transaction could be committed while nothing had been delivered, or if the sent copy
were not part of it; `Control` says for every statement which state the transaction
is in, that there is a message in it, and that there is a reason to let go of it
(or that it is sent on). Its parameter is the set of endings for which the exporter
discards a message. `Unaccepted` says that a message nobody has committed is in
no queue and has no ending, without which an accepted message could come back.

For `CommonMessageExporter` this is not enough: its copy in `LOW` is committed before
the transaction that received the message, and only this order keeps the message.
There `IInv` has two conjuncts more. `InnerOK` says that the inner transaction starts
while the outer one is open and has not sent anything on; `CopyHolds` that as long as
the outer transaction may still be committed, the copy is in a queue or the operator
has removed it. Everybody else may touch the queues between the two commits, so
`EnvironmentKeepsCopy` shows that producers and operators respect this.

The argument goes through the shape of a step: every action leaves the owed messages
alone, delivers one, settles one with a reason, or accepts one (`Shape`). `Splits`
sorts the actions into those that leave the queues alone (`Still`), those that move
messages (`Moving`) and the exporter's `Own`; `StillShape`, `MovingShape` and `OwnShape`
find the shape action by action, and the lemmas ending in `Control` and `Typed` do the
same for the other conjuncts. `UnacceptedStep`, `KeptStep` and `ImplementsStep` then
need nothing but the shape.

### One place, payload, log and repetitions

The other properties need to know where a message is, not only that it is somewhere.
In `DemMessageExporter`, `IInv` has these conjuncts besides:

* `Places`, i.e. `Unique` (no queue holds a message twice, no two places hold the same
  one) and `Settled` (what has an ending is nowhere, so an ending is for ever). Its
  proof goes through the moves. Without it, a message that was just settled could be
  received once more, from another queue.
* `PayloadKept`: who waits has a payload, and the statement that deletes it is reached
  only after the ending is final, or, for MSDTC, after the send; `PayloadWhileQueued`
  follows.
* `LogKept`: what the log may say at the statements between the call and the commit.
  With it `DeliveredIsLogged` is inductive.
* `SendsPaid`: a message was sent at most once more than there were faults, and, unless
  it is on its way out (`Leaving`), at most as often as there were faults. A step either
  costs a fault or does not call back what is on its way out (`Paid`): this is where
  a commit that throws, a crash and Dispose have to be accounted for.
* `RetryBehind`: of the messages that waited when a message was put into `LOW`, those
  that still wait are in front of it. Every move takes from the front, adds at the back,
  removes, or returns what it took.

`CommonMessageExporter` can really have a message in two places, so there is no `Unique`.
`CopiesPaid` counts instead: copies and deliveries of a message together exceed the
faults by one at most, and not at all while a copy stays that was neither sent nor
copied in this pass. `Copies` counts occurrences in the queues, and the lemmas
about them follow the same moves.

`RetriesRested` has an invariant of its own, `RestInv`: while a send has failed since the
last sleep, `IsNewMessageFound` is false and the thread is on its way to the end of the
pass. It holds because the second exporter sets the flag only after the payload has been
deleted; the first one sets it at the beginning (see the findings).

### Imports

    IInv == TypeOK /\ Control /\ Unaccepted /\ OkIsARun /\ NoImportLost
            /\ Places /\ PayloadKept /\ RunsPaid

reads like that of the exporters, with three differences. The manager deletes the
payload *before* it commits, so `PayloadKept` promises it only until the handling of the
message has come to an end (`endings`), not until it has left the queue. What justifies
that a message leaves (`Justified`) includes the decisions of the person at the
administration tool. And `GetAll` removes all unreadable entries at once, so a step
settles a set of messages (`Settles`), as `MessageDelivery` allows. `KeptInOrder` is the
lemma about what `GetAll` leaves: the entries at the positions kept, each once; the
provers know nothing of `SelectSeq`, which is why the model says it with `InOrder`.
`OkIsARun` ties the ending `ok` to a run that was counted, which the refinement
needs for "settled as `ok` only when delivered"; that the endings of the abstract
specification are those in `gone` and never change follows from `Settled`.

### The C library

`Tase2ControlProofs`, `Tase2TransferSetProofs` and `MmsEndpointProofs` prove every safety
property of their runs, invariants and action properties, for all values of the constants,
from `ControlAssumption`, `TransferSetAssumption`, `MaxCallsAssumption` and
`FaultsAssumption`. Each has one inductive invariant `Inv` and a theorem `SpecInv`.

* *Control points.* `Inv` adds to `TypeOK` that the time of a selection, all that the server
  stores of it, agrees with the select in force (`SelectionKnown`), and two facts about a
  request that waits for the application: its device is still not selected
  (`PendingNotInForce`; nobody but the server thread grants a select, and time cannot bring
  one back), and nobody but the application has put a tag on it since (`PendingOwner`).
  These are what is left, when the handler returns, of the tests done before the call.
* *Transfer sets.* The first part is about the context of one set: `Good` says that a set
  stores changes either as bits or as events, that its queue is not longer than
  allowed, and that what it owes is stored and will be sent, with the exceptions of
  `ChangeOwed`; each of the functions that make reports keeps `Good`. That a bit set by
  entry is found by place rests on `AlignedPlace`: when no accepted entry is behind a
  refused one, place and entry are the same number. The second part needs only this and follows `active`,
  `status` and `context` through the steps of the server thread.
* *Endpoint.* `ConnectionInv` ties where a call of `handleConnection` is to the state it will
  store (`HandlerKnown`), says that a connection that is over can only be cleaned up while a
  new one is prepared (`DownIsQuiet`), and when the client has a connection (`ClientKnown`,
  `LockedHasClient`); `BufferOwned` is inductive with them, because a message is never
  handled while a connection is being set up, and `ConnectionAlive` follows. `CallsInv` says which
  entries of the table belong to which callers; `CalledBackOnce` is one of its parts.

### Only model-checked

The liveness properties `FailingMessageBlocksNobody`, `MissingRuleBlocksNobody`,
`InvalidBlocksNobody`, `ChangeReported`, `CallsReturn` and `ReconnectsUnlessFaulted`: they need
fairness and `ENABLED`, which are beyond the provers used. The five properties that do
not hold (see *Findings*) are refuted by TLC.

## 5. Not modelled, and the plan

In the order in which it is to be done:

1. The rest of the MMS endpoint: abort and release, wait handles, and the passive
   endpoint with its queue of received requests; then the TASE.2 client on top of it.
2. `ServiceLifecycle`: `ServiceHost`, `ServiceThread`, `RunIteration`, `StopModules` and
   the module threads; every thread ends after a stop, a stop is never lost, the time
   budget is kept.
3. `ImportBridge`: `StandardMsmq` export and import, the two copies of `SubmitImport`,
   composed with the exporter on the one side and the import queues on the other.
4. `StandardWs`: concurrent `GetExport` and `SendExportAck` on a queue with peeks.
5. `AzureImport` with peek locks and their renewal, the EcpAmqp import with its two
   orders of acknowledgement.
6. The peeks inside `WaitAny`, the NServiceBus endpoint, the ICCP modules, the
   event handlers of Compello and the MADES timers.

Of the modelled parts of libtase2 the following is left out. Control points: the
check-back id, and what a setpoint's value is. Transfer sets: rights on data sets,
components other than `Status`, reports on request of the application
(`Tase2_Server_requestReport`, which takes no lock), the mark `hasChanged` of a point, the
count of critical reports not confirmed, and the special objects of a data set
(`Transfer_Set_Name` and so on), which have a place in both numberings. Endpoint: disconnects by
abort or release (a conclude request, which the client could send but for an `#if 0`),
several clients on one endpoint, the requests an active endpoint serves itself, callbacks
that call the endpoint again.

Not planned: the mapping of data to requests (NpAuction, Azure export), files of the
MassTransit watcher, the WPF user interface, the configuration system and the data
access libraries. Nor the C++ code under `src/src/cpp`: by far most lines of C and C++ in
the repository are there, and they are a vendored database template library (two copies
of `otlv4`), generated tables of the data access layer, and wrappers around them. They
hold no protocol of the kind checked here, and the models cover only a small share of
the lines of C and C++ for this reason.
