---------------------------- MODULE ImportQueue ----------------------------
(***************************************************************************)
(* The surroundings of the import application manager: the queues          *)
(* ICC_IMPORT_HIGH / _NORMAL / _LOW, the queue ICC_IMPORT_ERROR, the       *)
(* claim-check store, the modules that submit imports (WsLogicBase), and   *)
(* the administration tool, with which a user lists, deletes, or corrects  *)
(* and resubmits what is in the error queue (ErroneousImportsRepository).  *)
(***************************************************************************)
EXTENDS MsmqQueue

CONSTANTS
  NoProtocol,     \* messages that may be submitted without a protocol
  MaxResubmits    \* bound: corrected and resubmitted imports

ASSUME ImportQueueAssumption ==
  /\ QueueName = Priority \cup {"ERROR"}
  /\ Aside = "ERROR"
  /\ NoProtocol \subseteq Message
  /\ MaxResubmits \in Nat
  /\ FaultKind \subseteq {"queue", "store", "loss", "submitter", "crash"}

\* How handling a message ends: the import application has taken it, has
\* refused it or has not answered in time, the message was empty; or the
\* class of exception before any import application has run.
Ending == {"ok", "empty", "failed", "timeout"}
Outcome == Ending \cup {"win32", "metadata", "claim", "other", "corrupt"}

\* Why a message may leave the queues for good.
Reason == Ending \cup {"corrupt", "deleted", "unreadable"}

VARIABLES
  stage,      \* where each import is with the module that submits it
  payload,    \* messages whose payload is in the claim-check store
  listed,     \* entries of the error queue the user has on the screen
  resubmits,  \* number of imports resubmitted
  imports,    \* history: successful runs per message
  endings,    \* history: how handling each message has ended
  lost        \* history: payloads that disappeared by an outside cause

submitVars == <<stage, payload, lost>>
adminVars == <<listed, resubmits>>
historyVars == <<imports, endings>>
queueVars == <<queue, TransactionVars, faults, gone, submitVars, adminVars, historyVars>>

QueueInit ==
  /\ MsmqInit
  /\ stage = [m \in Message |-> "new"]
  /\ payload = {}
  /\ listed = {}
  /\ resubmits = 0
  /\ imports = [m \in Message |-> 0]
  /\ endings = [m \in Message |-> {}]
  /\ lost = {}

-----------------------------------------------------------------------------
(* The modules that receive imports from outside.                           *)

StorePayload(m) ==
  /\ stage[m] = "new"
  /\ stage' = [stage EXCEPT ![m] = "submitting"]
  /\ payload' = payload \cup {m}
  /\ UNCHANGED <<queue, TransactionVars, faults, gone, adminVars, historyVars, lost>>

\* SubmitImport: EnqueueImportMessage refuses a message without protocol, and
\* the handler sends it to the error queue in the same transaction.
SubmitImport(m, p) ==
  /\ stage[m] = "submitting"
  /\ p = Aside => m \in NoProtocol
  /\ stage' = [stage EXCEPT ![m] = "accepted"]
  /\ queue' = [queue EXCEPT ![p] = Append(@, m)]
  /\ UNCHANGED <<TransactionVars, faults, gone, payload, lost, adminVars, historyVars>>

SubmitFails(m) ==
  /\ stage[m] = "submitting"
  /\ Fault("submitter")
  /\ stage' = [stage EXCEPT ![m] = "given up"]
  /\ UNCHANGED <<queue, TransactionVars, gone, payload, lost, adminVars, historyVars>>

\* A file or blob of the claim-check store disappears.
PayloadDisappears(m) ==
  /\ m \in payload
  /\ Fault("loss")
  /\ payload' = payload \ {m}
  /\ lost' = lost \cup {m}
  /\ UNCHANGED <<queue, TransactionVars, gone, stage, adminVars, historyVars>>

-----------------------------------------------------------------------------
(* The administration tool.  MSMQ gives a message a new id whenever it is   *)
(* sent, so a list on the screen only reaches entries that are still there. *)

Readable == Contents(Aside) \ corrupt

\* The positions K of a queue, from the front: what an enumeration leaves
\* there that removes the entries at all others.
InOrder(K) ==
  {at \in Bijection(1..Cardinality(K), K) : \A i, j \in DOMAIN at : i < j => at[i] < at[j]}

\* Mistake: fetching a payload also deletes it.
GetAllConsuming ==
  /\ UNCHANGED <<queue, gone>>
  /\ listed' = IF Readable \subseteq payload THEN Readable ELSE listed
  /\ payload' = payload \ Readable
  /\ UNCHANGED <<TransactionVars, faults, stage, lost, resubmits, historyVars>>

\* GetAll: entries that cannot be read are removed and this is committed; then
\* the payload of every other one is fetched, and one that has none throws.
GetAll ==
  /\ \E at \in InOrder({i \in 1..Len(queue[Aside]) : queue[Aside][i] \notin corrupt}) :
       queue' = [queue EXCEPT ![Aside] = [k \in DOMAIN at |-> @[at[k]]]]
  /\ gone' = [m \in Message |-> IF m \in Contents(Aside) \ Readable THEN "unreadable" ELSE gone[m]]
  /\ listed' = IF Readable \subseteq payload THEN Readable ELSE listed
  /\ UNCHANGED <<TransactionVars, faults, submitVars, resubmits, historyVars>>

Delete(m) ==
  /\ m \in listed
  /\ \E i \in 1..Len(queue[Aside]) :
       queue[Aside][i] = m /\ queue' = [queue EXCEPT ![Aside] = RemoveAt(@, i)]
  /\ gone' = [gone EXCEPT ![m] = "deleted"]
  /\ listed' = listed \ {m}
  /\ UNCHANGED <<TransactionVars, faults, submitVars, resubmits, historyVars>>

\* SaveAndImport: out of the error queue and into an import queue in one
\* transaction.
SaveAndImport(m, p) ==
  /\ m \in listed
  /\ resubmits < MaxResubmits
  /\ resubmits' = resubmits + 1
  /\ \E i \in 1..Len(queue[Aside]) :
       /\ queue[Aside][i] = m
       /\ queue' = [queue EXCEPT ![Aside] = RemoveAt(@, i), ![p] = Append(@, m)]
  /\ listed' = listed \ {m}
  /\ UNCHANGED <<TransactionVars, faults, gone, submitVars, historyVars>>

Submitters ==
  \E m \in Message :
    \/ StorePayload(m) \/ SubmitFails(m) \/ PayloadDisappears(m)
    \/ \E p \in QueueName : SubmitImport(m, p)

Administration ==
  \/ GetAll
  \/ \E m \in Message : Delete(m) \/ \E p \in Priority : SaveAndImport(m, p)

-----------------------------------------------------------------------------
QueueTypeOK ==
  /\ MsmqTypeOK
  /\ outcome \in Outcome
  /\ gone \in [Message -> Reason \cup {"none"}]
  /\ stage \in [Message -> {"new", "submitting", "accepted", "given up"}]
  /\ payload \subseteq Message
  /\ listed \subseteq Message
  /\ resubmits \in 0..MaxResubmits
  /\ imports \in [Message -> Nat]
  /\ endings \in [Message -> SUBSET Ending]
  /\ lost \subseteq Message
=============================================================================
