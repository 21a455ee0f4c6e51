---------------------------- MODULE Tase2Control ----------------------------
(***************************************************************************)
(* Control points of the TASE.2 server of libtase2 (tase2_server.c):       *)
(* select before operate, operate, and the tags that inhibit commands.     *)
(*                                                                         *)
(* The requests of all clients are handled one after the other by the      *)
(* server thread.  Handling one calls the application (select, operate and *)
(* set-tag handler) in between, which takes time and may refuse; a request *)
(* that reaches this call is two steps, one that is refused before is one. *)
(* Any thread of the application may tag a control point locally meanwhile *)
(* (no lock is taken); that call is one step here.                         *)
(*                                                                         *)
(* A connection is known by its bilateral table (BLT).  The reason string  *)
(* of a tag only matters in the comparison of setTag.  The check-back id   *)
(* is written and returned by the same read and is left out.               *)
(***************************************************************************)
EXTENDS Integers, FiniteSets

CONSTANTS
  Connection,      \* connections of clients
  Blt, NoBlt,      \* bilateral tables; NoBlt is the NULL pointer
  BltOf,           \* the table the authenticator has found for a connection
  Domain, Vcc,     \* domains of the data model; Vcc is the global one
  BltDomain,       \* the domain a table belongs to
  BltEntry,        \* the rights a table grants on single control points
  ControlPoint,    \* control points,
  DomainOf,        \*   their domains,
  Sbo, Tagged, Command,  \* those that are selected before operate, have a tag, take commands
  SelectTimeout,   \* selectTimeout
  MaxTime          \* bound on the clock

Right == {"READ", "OPERATE", "GET_TAG", "SET_TAG"}
TagValue == {"NO_TAG", "OPEN_AND_CLOSE_INHIBIT", "CLOSE_ONLY_INHIBIT"}
Invalid == "INVALID"
Value == {"CLOSE", "TRIP", Invalid}

ASSUME ControlAssumption ==
  /\ NoBlt \notin Blt
  /\ BltOf \in [Connection -> Blt \cup {NoBlt}]
  /\ BltDomain \in [Blt -> Domain] /\ Vcc \notin Domain
  /\ BltEntry \in [Blt -> [ControlPoint -> SUBSET Right]]
  /\ DomainOf \in [ControlPoint -> Domain \cup {Vcc}]
  /\ Sbo \subseteq ControlPoint /\ Tagged \subseteq ControlPoint /\ Command \subseteq ControlPoint
  /\ SelectTimeout \in Nat /\ MaxTime \in Nat

VARIABLES
  now,         \* Hal_getTimeInMs
  selectedAt,  \* selectedTimestamp of a control point, 0: not selected
  armedFlag,   \* the armed bit of its tag
  tag,         \* the value of its tag
  tagOwner,    \* tagOwner, NoBlt also for a tag that was set locally
  request,     \* the request whose handler in the application is running
  grant        \* history: the last select of a control point and what became of it

vars == <<now, selectedAt, armedFlag, tag, tagOwner, request, grant>>

Idle == [kind |-> "none"]
NoGrant == [state |-> "none", at |-> 0]

(***************************************************************************)
(* BilateralTable_checkControlPointAccess, with the test of the domain at  *)
(* the head of the read and the write handler.                             *)
(***************************************************************************)
Allowed(c, cp, right) ==
  \/ BltOf[c] = NoBlt
  \/ DomainOf[cp] = BltDomain[BltOf[c]]
  \/ DomainOf[cp] = Vcc /\ right \in BltEntry[BltOf[c]][cp]

(***************************************************************************)
(* isArmed.  The clock is far from zero, so a control point that is not    *)
(* selected (0) is not armed either.                                       *)
(***************************************************************************)
IsArmed(cp) == now - selectedAt[cp] <= SelectTimeout

Inhibits(t, v) == t = "OPEN_AND_CLOSE_INHIBIT" \/ (t = "CLOSE_ONLY_INHIBIT" /\ v = "CLOSE")

Init ==
  /\ now = SelectTimeout + 1
  /\ selectedAt = [cp \in ControlPoint |-> 0]
  /\ armedFlag = [cp \in ControlPoint |-> FALSE]
  /\ tag = [cp \in ControlPoint |-> "NO_TAG"]
  /\ tagOwner = [cp \in ControlPoint |-> NoBlt]
  /\ request = Idle
  /\ grant = [cp \in ControlPoint |-> NoGrant]

SetArmedFlag(cp, value) ==
  armedFlag' = [armedFlag EXCEPT ![cp] = IF cp \in Tagged THEN value ELSE @]

\* Mistake: a device is selected although somebody has selected it.
SelectTwice(c, cp) ==
  /\ request = Idle
  /\ cp \in Sbo
  /\ Allowed(c, cp, "READ") /\ Allowed(c, cp, "OPERATE")
  /\ tag[cp] # "OPEN_AND_CLOSE_INHIBIT"
  /\ request' = [kind |-> "select", by |-> c, cp |-> cp, at |-> now]
  /\ UNCHANGED <<now, selectedAt, armedFlag, tag, tagOwner, grant>>

\* Mistake: a device that is not select before operate is selected.
SelectAny(c, cp) ==
  /\ request = Idle
  /\ Allowed(c, cp, "READ") /\ Allowed(c, cp, "OPERATE")
  /\ ~IsArmed(cp)
  /\ tag[cp] # "OPEN_AND_CLOSE_INHIBIT"
  /\ request' = [kind |-> "select", by |-> c, cp |-> cp, at |-> now]
  /\ UNCHANGED <<now, selectedAt, armedFlag, tag, tagOwner, grant>>

(***************************************************************************)
(* Reading <point>_SBO: selectControl up to the select handler, and what   *)
(* follows when it has returned.  The time is the one taken before.        *)
(***************************************************************************)
Select(c, cp) ==
  /\ request = Idle
  /\ cp \in Sbo
  /\ Allowed(c, cp, "READ") /\ Allowed(c, cp, "OPERATE")
  /\ ~IsArmed(cp)
  /\ tag[cp] # "OPEN_AND_CLOSE_INHIBIT"
  /\ request' = [kind |-> "select", by |-> c, cp |-> cp, at |-> now]
  /\ UNCHANGED <<now, selectedAt, armedFlag, tag, tagOwner, grant>>

SelectReturns(success) ==
  LET r == request IN
  /\ r.kind = "select"
  /\ request' = Idle
  /\ IF success
     THEN /\ selectedAt' = [selectedAt EXCEPT ![r.cp] = r.at]
          /\ SetArmedFlag(r.cp, TRUE)
          /\ grant' = [grant EXCEPT ![r.cp] = [state |-> "open", at |-> r.at]]
     ELSE UNCHANGED <<selectedAt, armedFlag, grant>>
  /\ UNCHANGED <<now, tag, tagOwner>>

\* Mistake: an operate leaves the device selected.
KeepSelection(cp) ==
  IF cp \in Sbo
  THEN /\ IsArmed(cp)
       /\ grant' = [grant EXCEPT ![cp].state = "used"]
       /\ UNCHANGED <<selectedAt, armedFlag>>
  ELSE UNCHANGED <<selectedAt, armedFlag, grant>>

(***************************************************************************)
(* Writing <point>: operateControl up to the operate handler.  A selection *)
(* is used up before the value and the tag are looked at.  selectedBy is   *)
(* left out: it is stored with a selection and nothing reads it.           *)
(***************************************************************************)
UseSelection(cp) ==
  IF cp \in Sbo
  THEN /\ IsArmed(cp)
       /\ selectedAt' = [selectedAt EXCEPT ![cp] = 0]
       /\ SetArmedFlag(cp, FALSE)
       /\ grant' = [grant EXCEPT ![cp].state = "used"]
  ELSE UNCHANGED <<selectedAt, armedFlag, grant>>

Accepts(cp, v) ==
  cp \in Command => /\ v # Invalid
                    /\ cp \in Tagged => ~Inhibits(tag[cp], v)

Operate(c, cp, v) ==
  /\ request = Idle
  /\ Allowed(c, cp, "OPERATE")
  /\ UseSelection(cp)
  /\ request' = IF Accepts(cp, v) THEN [kind |-> "operate", by |-> c, cp |-> cp, v |-> v]
                                  ELSE Idle
  /\ UNCHANGED <<now, tag, tagOwner>>

(***************************************************************************)
(* The operate handler returns; when it was successful the new value goes  *)
(* to the transfer sets.                                                   *)
(***************************************************************************)
OperateReturns ==
  /\ request.kind = "operate"
  /\ request' = Idle
  /\ UNCHANGED <<now, selectedAt, armedFlag, tag, tagOwner, grant>>

\* Mistake: a selected device is tagged.
MayTagSelected(c, cp) ==
  /\ cp \in Tagged
  /\ Allowed(c, cp, "SET_TAG")
  /\ tag[cp] # "NO_TAG" /\ BltOf[c] # NoBlt => tagOwner[cp] = BltOf[c]

\* Mistake: the owner of the tag is not compared.
MayTagOver(c, cp) ==
  /\ cp \in Tagged
  /\ Allowed(c, cp, "SET_TAG")
  /\ ~IsArmed(cp)

(***************************************************************************)
(* Writing <point>_TAG: setTag up to the set-tag handler.  The client      *)
(* writes the armed bit together with the value.  A value that equals the  *)
(* stored one is accepted without any effect.                              *)
(***************************************************************************)
MayTag(c, cp) ==
  /\ cp \in Tagged
  /\ Allowed(c, cp, "SET_TAG")
  /\ ~IsArmed(cp)
  /\ tag[cp] # "NO_TAG" /\ BltOf[c] # NoBlt => tagOwner[cp] = BltOf[c]

SetTag(c, cp, v, armed, sameReason) ==
  /\ request = Idle
  /\ MayTag(c, cp)
  /\ ~(sameReason /\ v = tag[cp] /\ armed = armedFlag[cp])
  /\ request' = [kind |-> "setTag", by |-> c, cp |-> cp, v |-> v, armed |-> armed]
  /\ UNCHANGED <<now, selectedAt, armedFlag, tag, tagOwner, grant>>

SetTagReturns(success) ==
  LET r == request IN
  /\ r.kind = "setTag"
  /\ request' = Idle
  /\ IF success
     THEN /\ tag' = [tag EXCEPT ![r.cp] = r.v]
          /\ armedFlag' = [armedFlag EXCEPT ![r.cp] = r.armed]
          /\ tagOwner' = [tagOwner EXCEPT ![r.cp] = BltOf[r.by]]
     ELSE UNCHANGED <<tag, armedFlag, tagOwner>>
  /\ UNCHANGED <<now, selectedAt, grant>>

(***************************************************************************)
(* Forget a selection.                                                     *)
(***************************************************************************)
Deselect(cp) ==
  /\ selectedAt' = [selectedAt EXCEPT ![cp] = 0]
  /\ IF selectedAt[cp] # 0 THEN SetArmedFlag(cp, FALSE) ELSE UNCHANGED armedFlag
  /\ grant' = [grant EXCEPT ![cp].state = IF @ = "open" THEN "withdrawn" ELSE @]

(***************************************************************************)
(* Reading <point>_TAG forgets a selection whose time is over.             *)
(***************************************************************************)
ReadTag(c, cp) ==
  /\ request = Idle
  /\ cp \in Tagged
  /\ Allowed(c, cp, "READ") /\ Allowed(c, cp, "GET_TAG")
  /\ selectedAt[cp] # 0 /\ ~IsArmed(cp)
  /\ Deselect(cp)
  /\ UNCHANGED <<now, tag, tagOwner, request>>

(***************************************************************************)
(* The application tags a control point: Tase2_ControlPoint_setTag, with   *)
(* NULL for the owner, from any of its threads.                            *)
(***************************************************************************)
SetTagLocally(cp, v) ==
  /\ cp \in Tagged
  /\ tag' = [tag EXCEPT ![cp] = v]
  /\ tagOwner' = [tagOwner EXCEPT ![cp] = NoBlt]
  /\ Deselect(cp)
  /\ UNCHANGED <<now, request>>

Tick ==
  /\ now < MaxTime
  /\ now' = now + 1
  /\ UNCHANGED <<selectedAt, armedFlag, tag, tagOwner, request, grant>>

Next ==
  \/ \E c \in Connection, cp \in ControlPoint :
       \/ Select(c, cp)
       \/ \E v \in Value : Operate(c, cp, v)
       \/ \E v \in TagValue, armed, sameReason \in BOOLEAN : SetTag(c, cp, v, armed, sameReason)
       \/ ReadTag(c, cp)
  \/ \E success \in BOOLEAN : SelectReturns(success) \/ SetTagReturns(success)
  \/ OperateReturns
  \/ \E cp \in ControlPoint, v \in TagValue : SetTagLocally(cp, v)
  \/ Tick

Spec == Init /\ [][Next]_vars

-----------------------------------------------------------------------------
(* What control points promise.                                             *)

Grant == [state : {"none", "open", "used", "withdrawn"}, at : Nat]

Request ==
  {Idle}
  \cup [kind : {"select"}, by : Connection, cp : Sbo, at : Nat]
  \cup [kind : {"operate"}, by : Connection, cp : ControlPoint, v : Value]
  \cup [kind : {"setTag"}, by : Connection, cp : Tagged, v : TagValue, armed : BOOLEAN]

TypeOK ==
  /\ now \in Nat /\ now > SelectTimeout
  /\ selectedAt \in [ControlPoint -> Nat]
  /\ armedFlag \in [ControlPoint -> BOOLEAN]
  /\ tag \in [ControlPoint -> TagValue]
  /\ tagOwner \in [ControlPoint -> Blt \cup {NoBlt}]
  /\ request \in Request
  /\ grant \in [ControlPoint -> Grant]

\* The select in force: granted, not used up or withdrawn, and not too old.
InForce(cp) == grant[cp].state = "open" /\ now - grant[cp].at <= SelectTimeout

\* The server takes up an operate it will pass to the application.
TakesUp(cp) == request = Idle /\ request'.kind = "operate" /\ request'.cp = cp

(***************************************************************************)
(* An operate of a select-before-operate device is executed only on a      *)
(* select that is in force: each select allows one operate, and none once  *)
(* it has expired or the application has tagged the device (isArmed and    *)
(* the resets of selectedTimestamp in operateControl and                   *)
(* Tase2_ControlPoint_setTag).                                             *)
(***************************************************************************)
OperateNeedsSelect == [][\A cp \in Sbo : TakesUp(cp) => InForce(cp)]_vars

(***************************************************************************)
(* Nobody takes over a select that is in force: it is used, it expires or  *)
(* it is withdrawn before the next one is granted, although the select     *)
(* handler of the application runs between test and grant (selectControl). *)
(***************************************************************************)
SelectIsExclusive ==
  [][\A cp \in Sbo : InForce(cp) /\ grant'[cp].state = "open" => grant'[cp] = grant[cp]]_vars

(***************************************************************************)
(* A device that is selected keeps the tag under which it was selected; a  *)
(* local tag, which no rule holds back, withdraws the select (setTag,      *)
(* Tase2_ControlPoint_setTag).                                             *)
(***************************************************************************)
TagKeptWhileSelected ==
  [][\A cp \in Sbo : InForce(cp) /\ tag'[cp] # tag[cp] => grant'[cp].state = "withdrawn"]_vars

(***************************************************************************)
(* A tag one client has set is changed or taken off by clients of the same *)
(* bilateral table only, by clients without a table, which the server does *)
(* not restrict, or by the application (tagOwner in setTag).               *)
(***************************************************************************)
ForeignTagKept ==
  [][\A cp \in Tagged :
       tagOwner[cp] \in Blt /\ tag[cp] # "NO_TAG" /\ tag'[cp] # tag[cp]
         => tagOwner'[cp] \in {tagOwner[cp], NoBlt}]_vars
=============================================================================
