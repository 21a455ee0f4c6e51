------------------------- MODULE Tase2ControlProofs -------------------------
(***************************************************************************)
(* What Tase2Control promises, for any number of clients, tables and       *)
(* control points and any timeout.  The invariant ties the time of a       *)
(* selection, all that the server stores of it, to the select in force,    *)
(* and says what is still true of a request when the application returns.  *)
(***************************************************************************)
EXTENDS Tase2Control, TLAPS

SelectionKnown ==
  \A cp \in ControlPoint :
    /\ selectedAt[cp] # 0 => grant[cp].state = "open"
    /\ grant[cp].state = "open" => grant[cp].at = selectedAt[cp]

\* A select or a set-tag waits for the application: the device is still not selected.
PendingNotInForce == request.kind \in {"select", "setTag"} => ~InForce(request.cp)

\* A set-tag waits for the application: nobody else has tagged the device.
PendingOwner ==
  request.kind = "setTag" =>
    \/ tag[request.cp] = "NO_TAG"
    \/ BltOf[request.by] = NoBlt
    \/ tagOwner[request.cp] \in {BltOf[request.by], NoBlt}

Inv == TypeOK /\ SelectionKnown /\ PendingNotInForce /\ PendingOwner

-----------------------------------------------------------------------------
(* Requests.                                                                *)

LEMMA RequestFields ==
  ASSUME request \in Request
  PROVE  /\ request.kind \in {"none", "select", "operate", "setTag"}
         /\ request.kind = "select" =>
              request.cp \in Sbo /\ request.by \in Connection /\ request.at \in Nat
         /\ request.kind = "setTag" =>
              /\ request.cp \in Tagged /\ request.by \in Connection
              /\ request.v \in TagValue /\ request.armed \in BOOLEAN
         /\ request = Idle => request.kind = "none"
BY DEF Request, Idle

\* A device that is armed was selected at a time that is in its grant.
LEMMA ArmedIsInForce ==
  ASSUME TypeOK, SelectionKnown, NEW cp \in ControlPoint
  PROVE  IsArmed(cp) <=> InForce(cp)
<1>1. now \in Nat /\ now > SelectTimeout /\ selectedAt[cp] \in Nat /\ grant[cp] \in Grant
  BY DEF TypeOK
<1>2. CASE selectedAt[cp] = 0
  <2>1. ~IsArmed(cp)  BY <1>1, <1>2, ControlAssumption DEF IsArmed
  <2>2. ~InForce(cp)  BY <1>1, <1>2, ControlAssumption DEF InForce, SelectionKnown, Grant
  <2> QED  BY <2>1, <2>2
<1>3. CASE selectedAt[cp] # 0
  BY <1>1, <1>3 DEF IsArmed, InForce, SelectionKnown
<1> QED  BY <1>2, <1>3

-----------------------------------------------------------------------------
(* Types.                                                                   *)

LEMMA InitType == Init => TypeOK
BY ControlAssumption, SMTT(30)
DEF Init, TypeOK, Request, Grant, NoGrant, TagValue

LEMMA ArmedFlagType ==
  ASSUME armedFlag \in [ControlPoint -> BOOLEAN], NEW cp, NEW value \in BOOLEAN,
         SetArmedFlag(cp, value)
  PROVE  armedFlag' \in [ControlPoint -> BOOLEAN]
<1>1. CASE cp \in Tagged
  <2>1. armedFlag' = [armedFlag EXCEPT ![cp] = value]  BY <1>1 DEF SetArmedFlag
  <2> QED  BY <2>1
<1>2. CASE cp \notin Tagged
  <2>1. armedFlag' = [armedFlag EXCEPT ![cp] = armedFlag[cp]]  BY <1>2 DEF SetArmedFlag
  <2> QED  BY <2>1
<1> QED  BY <1>1, <1>2

LEMMA GrantType ==
  /\ \A g \in Grant, st \in {"open", "used", "withdrawn"} : [g EXCEPT !.state = st] \in Grant
  /\ \A t \in Nat : [state |-> "open", at |-> t] \in Grant
BY DEF Grant

LEMMA NextType == ASSUME TypeOK, [Next]_vars PROVE TypeOK'
<1> USE ControlAssumption
<1>1. ASSUME NEW c \in Connection, NEW cp \in ControlPoint, Select(c, cp)
      PROVE  TypeOK'
  BY <1>1 DEF TypeOK, Select, Request
<1>2. ASSUME NEW c \in Connection, NEW cp \in ControlPoint, NEW v \in Value, Operate(c, cp, v)
      PROVE  TypeOK'
  <2>1. request' \in Request  BY <1>2 DEF Operate, Request
  <2>2. UNCHANGED <<selectedAt, armedFlag, grant>>
        \/ /\ selectedAt' = [selectedAt EXCEPT ![cp] = 0]
           /\ SetArmedFlag(cp, FALSE)
           /\ grant' = [grant EXCEPT ![cp].state = "used"]
    BY <1>2 DEF Operate, UseSelection
  <2>3. armedFlag' \in [ControlPoint -> BOOLEAN]  BY <2>2, ArmedFlagType DEF TypeOK
  <2>4. selectedAt' \in [ControlPoint -> Nat] /\ grant' \in [ControlPoint -> Grant]
    <3>1. [grant[cp] EXCEPT !.state = "used"] \in Grant  BY GrantType DEF TypeOK
    <3>2. CASE UNCHANGED <<selectedAt, armedFlag, grant>>  BY <3>2 DEF TypeOK
    <3>3. CASE /\ selectedAt' = [selectedAt EXCEPT ![cp] = 0]
               /\ grant' = [grant EXCEPT ![cp].state = "used"]
      BY <3>1, <3>3 DEF TypeOK
    <3> QED  BY <2>2, <3>2, <3>3
  <2> QED  BY <1>2, <2>1, <2>3, <2>4 DEF TypeOK, Operate
<1>3. ASSUME NEW c \in Connection, NEW cp \in ControlPoint, NEW v \in TagValue,
             NEW armed \in BOOLEAN, NEW sameReason \in BOOLEAN, SetTag(c, cp, v, armed, sameReason)
      PROVE  TypeOK'
  <2>1. request' \in Request  BY <1>3 DEF SetTag, MayTag, Request
  <2> QED  BY <1>3, <2>1 DEF TypeOK, SetTag
<1>4. ASSUME NEW cp \in ControlPoint, TypeOK, Deselect(cp)
      PROVE  /\ selectedAt' \in [ControlPoint -> Nat] /\ armedFlag' \in [ControlPoint -> BOOLEAN]
             /\ grant' \in [ControlPoint -> Grant]
  BY <1>4 DEF TypeOK, Deselect, SetArmedFlag, Grant
<1>5. ASSUME NEW c \in Connection, NEW cp \in ControlPoint, ReadTag(c, cp)
      PROVE  TypeOK'
  BY <1>4, <1>5 DEF TypeOK, ReadTag
<1>6. ASSUME NEW success \in BOOLEAN, SelectReturns(success)
      PROVE  TypeOK'
  <2>1. request.cp \in ControlPoint /\ request.at \in Nat
    BY <1>6, RequestFields DEF TypeOK, SelectReturns
  <2>2. request' \in Request  BY <1>6 DEF SelectReturns, Request
  <2>3. armedFlag' \in [ControlPoint -> BOOLEAN]
    BY <1>6, ArmedFlagType DEF TypeOK, SelectReturns
  <2>4. selectedAt' \in [ControlPoint -> Nat] /\ grant' \in [ControlPoint -> Grant]
    <3>1. [state |-> "open", at |-> request.at] \in Grant  BY <2>1, GrantType
    <3> QED  BY <1>6, <2>1, <3>1 DEF TypeOK, SelectReturns
  <2> QED  BY <1>6, <2>2, <2>3, <2>4 DEF TypeOK, SelectReturns
<1>7. ASSUME NEW success \in BOOLEAN, SetTagReturns(success)
      PROVE  TypeOK'
  <2>1. request.cp \in ControlPoint /\ request.by \in Connection /\ request.v \in TagValue
        /\ request.armed \in BOOLEAN
    BY <1>7, RequestFields DEF TypeOK, SetTagReturns
  <2>2. request' \in Request  BY <1>7 DEF SetTagReturns, Request
  <2> QED  BY <1>7, <2>1, <2>2 DEF TypeOK, SetTagReturns
<1>8. CASE OperateReturns
  BY <1>8 DEF TypeOK, OperateReturns, Request
<1>9. ASSUME NEW cp \in ControlPoint, NEW v \in TagValue, SetTagLocally(cp, v)
      PROVE  TypeOK'
  BY <1>4, <1>9 DEF TypeOK, SetTagLocally
<1>10. CASE Tick
  BY <1>10 DEF TypeOK, Tick
<1>11. CASE UNCHANGED vars
  BY <1>11 DEF TypeOK, vars
<1> QED  BY <1>1, <1>2, <1>3, <1>5, <1>6, <1>7, <1>8, <1>9, <1>10, <1>11 DEF Next

-----------------------------------------------------------------------------
(* What a step does to the select of a control point.                       *)

\* It stays, it is used up or withdrawn, or it is granted to a request that has waited.
SelectStays(cp) == grant'[cp] = grant[cp] /\ selectedAt'[cp] = selectedAt[cp]
SelectEnds(cp) == grant'[cp].state # "open" /\ selectedAt'[cp] = 0
SelectGranted(cp) ==
  /\ request.kind = "select" /\ request.cp = cp /\ request' = Idle
  /\ grant'[cp] = [state |-> "open", at |-> request.at] /\ selectedAt'[cp] = request.at
  /\ now' = now

LEMMA DeselectEnds ==
  ASSUME TypeOK, NEW cp \in ControlPoint, Deselect(cp)
  PROVE  /\ SelectEnds(cp)
         /\ \A other \in ControlPoint \ {cp} : SelectStays(other)
<1>1. grant[cp] \in Grant /\ selectedAt \in [ControlPoint -> Nat]
      /\ grant \in [ControlPoint -> Grant]
  BY DEF TypeOK
<1>2. grant'[cp].state # "open"  BY <1>1 DEF Deselect, Grant
<1> QED  BY <1>1, <1>2 DEF Deselect, SelectEnds, SelectStays

LEMMA SelectSteps ==
  ASSUME TypeOK, [Next]_vars, NEW cp \in ControlPoint
  PROVE  SelectStays(cp) \/ SelectEnds(cp) \/ SelectGranted(cp)
<1>1. grant \in [ControlPoint -> Grant] /\ selectedAt \in [ControlPoint -> Nat]
  BY DEF TypeOK
<1>2. CASE UNCHANGED <<selectedAt, grant>>
  BY <1>2 DEF SelectStays
<1>3. ASSUME NEW c \in Connection, NEW p \in ControlPoint, NEW v \in Value, Operate(c, p, v)
      PROVE  SelectStays(cp) \/ SelectEnds(cp)
  <2>1. CASE p \in Sbo
    BY <1>1, <1>3, <2>1 DEF Operate, UseSelection, SelectStays, SelectEnds, Grant
  <2>2. CASE p \notin Sbo
    BY <1>3, <2>2 DEF Operate, UseSelection, SelectStays
  <2> QED  BY <2>1, <2>2
<1>4. ASSUME NEW p \in ControlPoint, Deselect(p)
      PROVE  SelectStays(cp) \/ SelectEnds(cp)
  BY <1>4, DeselectEnds
<1>5. ASSUME NEW success \in BOOLEAN, SelectReturns(success)
      PROVE  SelectStays(cp) \/ SelectGranted(cp)
  <2>1. CASE success
    BY <1>1, <1>5, <2>1 DEF SelectReturns, SelectStays, SelectGranted
  <2>2. CASE ~success
    BY <1>5, <2>2 DEF SelectReturns, SelectStays
  <2> QED  BY <2>1, <2>2
<1> QED
  BY <1>2, <1>3, <1>4, <1>5
  DEF Next, Select, SetTag, ReadTag, SetTagReturns, OperateReturns, SetTagLocally, Tick, vars

-----------------------------------------------------------------------------
(* The invariant.                                                           *)

LEMMA InitInv == Init => Inv
<1> SUFFICES ASSUME Init PROVE Inv  OBVIOUS
<1>1. TypeOK  BY InitType
<1> QED
  BY <1>1 DEF Init, Inv, SelectionKnown, PendingNotInForce, PendingOwner, Idle, NoGrant

LEMMA NextSelectionKnown == ASSUME Inv, [Next]_vars PROVE SelectionKnown'
<1> SUFFICES ASSUME NEW cp \in ControlPoint
             PROVE  /\ selectedAt'[cp] # 0 => grant'[cp].state = "open"
                    /\ grant'[cp].state = "open" => grant'[cp].at = selectedAt'[cp]
  BY DEF SelectionKnown
<1>1. CASE SelectStays(cp)  BY <1>1 DEF SelectStays, Inv, SelectionKnown
<1>2. CASE SelectEnds(cp)  BY <1>2 DEF SelectEnds
<1>3. CASE SelectGranted(cp)  BY <1>3 DEF SelectGranted
<1> QED  BY <1>1, <1>2, <1>3, SelectSteps DEF Inv

\* A step grants no select but the one that was waiting for the application.
LEMMA OutOfForceStays ==
  ASSUME Inv, [Next]_vars, NEW cp \in ControlPoint, ~InForce(cp), ~SelectGranted(cp)
  PROVE  ~InForce(cp)'
<1>1. now \in Nat /\ now' \in Nat /\ now <= now'
  <2>1. now' \in {now, now + 1}
    BY DEF Next, Select, Operate, SetTag, ReadTag, SelectReturns, SetTagReturns,
           OperateReturns, SetTagLocally, Tick, vars
  <2> QED  BY <2>1 DEF Inv, TypeOK
<1>2. grant[cp] \in Grant /\ SelectTimeout \in Nat  BY ControlAssumption DEF Inv, TypeOK
<1>3. CASE SelectStays(cp)  BY <1>1, <1>2, <1>3 DEF SelectStays, InForce, Grant
<1>4. CASE SelectEnds(cp)  BY <1>4 DEF SelectEnds, InForce
<1> QED  BY <1>3, <1>4, SelectSteps DEF Inv

\* A request that waits for the application has waited before or is taken up.
LEMMA WaitingRequest ==
  ASSUME [Next]_vars, request'.kind \in {"select", "setTag"}
  PROVE  \/ request' = request /\ UNCHANGED <<tag, tagOwner>>
         \/ /\ request' = request
            /\ \E cp \in ControlPoint, v \in TagValue : SetTagLocally(cp, v)
         \/ \E c \in Connection, cp \in ControlPoint : Select(c, cp)
         \/ \E c \in Connection, cp \in ControlPoint, v \in TagValue, armed, same \in BOOLEAN :
              SetTag(c, cp, v, armed, same)
<1>1. ASSUME NEW c \in Connection, NEW cp \in ControlPoint, NEW v \in Value, Operate(c, cp, v)
      PROVE  FALSE
  BY <1>1 DEF Operate, Idle
<1>2. ASSUME NEW success \in BOOLEAN, SelectReturns(success) \/ SetTagReturns(success)
      PROVE  FALSE
  <2>1. request' = Idle  BY <1>2 DEF SelectReturns, SetTagReturns
  <2> QED  BY <2>1 DEF Idle
<1>3. ASSUME OperateReturns PROVE FALSE
  BY <1>3 DEF OperateReturns, Idle
<1>4. ASSUME Tick \/ UNCHANGED vars \/ \E c \in Connection, cp \in ControlPoint : ReadTag(c, cp)
      PROVE  request' = request /\ UNCHANGED <<tag, tagOwner>>
  BY <1>4 DEF Tick, vars, ReadTag
<1>5. ASSUME NEW cp \in ControlPoint, NEW v \in TagValue, SetTagLocally(cp, v)
      PROVE  request' = request
  BY <1>5 DEF SetTagLocally
<1> QED  BY <1>1, <1>2, <1>3, <1>4, <1>5 DEF Next

LEMMA NextPendingNotInForce == ASSUME Inv, [Next]_vars PROVE PendingNotInForce'
<1>1. request' \in Request  BY NextType DEF Inv, TypeOK
<1>0. request'.kind \in {"select", "setTag"} => request'.cp \in ControlPoint
  BY <1>1, ControlAssumption DEF Request, Idle
<1> SUFFICES ASSUME NEW cp \in ControlPoint, request'.cp = cp,
                    request'.kind \in {"select", "setTag"}
             PROVE  ~InForce(cp)'
  BY <1>0 DEF PendingNotInForce, InForce
<1>2. ~SelectGranted(cp)  BY DEF SelectGranted, Idle
<1>3. ~InForce(cp)
  <2>1. CASE request' = request  BY <2>1 DEF Inv, PendingNotInForce
  <2>2. ASSUME NEW c \in Connection, NEW p \in ControlPoint, Select(c, p)
        PROVE  ~IsArmed(cp)
    BY <2>2 DEF Select
  <2>3. ASSUME NEW c \in Connection, NEW p \in ControlPoint, NEW v \in TagValue,
               NEW armed \in BOOLEAN, NEW same \in BOOLEAN, SetTag(c, p, v, armed, same)
        PROVE  ~IsArmed(cp)
    BY <2>3 DEF SetTag, MayTag
  <2> QED  BY <2>1, <2>2, <2>3, WaitingRequest, ArmedIsInForce DEF Inv
<1> QED  BY <1>2, <1>3, OutOfForceStays

LEMMA NextPendingOwner == ASSUME Inv, [Next]_vars PROVE PendingOwner'
<1> DEFINE Owned(r, t, owner) ==
      t[r.cp] = "NO_TAG" \/ BltOf[r.by] = NoBlt \/ owner[r.cp] \in {BltOf[r.by], NoBlt}
<1> SUFFICES ASSUME request'.kind = "setTag" PROVE Owned(request', tag', tagOwner')
  BY DEF PendingOwner
<1>1. CASE request' = request /\ UNCHANGED <<tag, tagOwner>>
  BY <1>1 DEF Inv, PendingOwner
<1>2. ASSUME NEW cp \in ControlPoint, NEW v \in TagValue, SetTagLocally(cp, v), request' = request
      PROVE  Owned(request', tag', tagOwner')
  <2>1. request.cp \in ControlPoint
    BY <1>2, RequestFields, ControlAssumption DEF Inv, TypeOK
  <2>2. CASE request.cp = cp  BY <1>2, <2>2 DEF SetTagLocally, Inv, TypeOK
  <2>3. CASE request.cp # cp
    <3>1. tag'[request.cp] = tag[request.cp] /\ tagOwner'[request.cp] = tagOwner[request.cp]
      BY <1>2, <2>1, <2>3 DEF SetTagLocally, Inv, TypeOK
    <3>2. Owned(request, tag, tagOwner)  BY <1>2 DEF Inv, PendingOwner
    <3> QED  BY <1>2, <3>1, <3>2
  <2> QED  BY <2>2, <2>3
<1>3. ASSUME NEW c \in Connection, NEW cp \in ControlPoint, Select(c, cp)
      PROVE  FALSE
  BY <1>3 DEF Select
<1>4. ASSUME NEW c \in Connection, NEW cp \in ControlPoint, NEW v \in TagValue,
             NEW armed \in BOOLEAN, NEW same \in BOOLEAN, SetTag(c, cp, v, armed, same)
      PROVE  Owned(request', tag', tagOwner')
  BY <1>4 DEF SetTag, MayTag
<1> HIDE DEF Owned
<1> QED  BY <1>1, <1>2, <1>3, <1>4, WaitingRequest

\* Every reachable state satisfies the invariant (tase2_server.c).
THEOREM SpecInv == Spec => []Inv
<1>1. ASSUME Inv, [Next]_vars PROVE Inv'
  BY <1>1, NextType, NextSelectionKnown, NextPendingNotInForce, NextPendingOwner DEF Inv
<1> QED  BY <1>1, InitInv, PTL DEF Spec

\* The variables have their types; an answer of the application finds the
\* request it belongs to (selectControl, setTag).
THEOREM SpecTypeOK == Spec => []TypeOK
<1>1. Inv => TypeOK  BY DEF Inv
<1> QED  BY <1>1, SpecInv, PTL

-----------------------------------------------------------------------------
(* The promises.                                                            *)

\* An operate of a select-before-operate device is executed only on a select
\* that is in force, and uses it up (operateControl).
THEOREM SpecOperateNeedsSelect == Spec => OperateNeedsSelect
<1>1. ASSUME Inv, [Next]_vars, NEW cp \in Sbo, TakesUp(cp)
      PROVE  InForce(cp)
  <2>1. PICK c \in Connection, v \in Value : Operate(c, cp, v)
    BY <1>1 DEF TakesUp, Next, Select, Operate, SetTag, ReadTag, SelectReturns, SetTagReturns,
                OperateReturns, SetTagLocally, Tick, vars, Idle
  <2>2. IsArmed(cp)  BY <2>1 DEF Operate, UseSelection
  <2> QED  BY <1>1, <2>2, ArmedIsInForce, ControlAssumption DEF Inv
<1>2. Inv /\ [Next]_vars => [\A cp \in Sbo : TakesUp(cp) => InForce(cp)]_vars
  BY <1>1
<1> QED  BY <1>2, SpecInv, PTL DEF Spec, OperateNeedsSelect

\* Nobody takes over a select that is in force (selectControl).
THEOREM SpecSelectIsExclusive == Spec => SelectIsExclusive
<1>1. ASSUME Inv, [Next]_vars, NEW cp \in Sbo, InForce(cp), grant'[cp].state = "open"
      PROVE  grant'[cp] = grant[cp]
  <2>1. ~SelectGranted(cp)  BY <1>1 DEF Inv, PendingNotInForce, SelectGranted
  <2> QED  BY <1>1, <2>1, SelectSteps, ControlAssumption DEF Inv, SelectStays, SelectEnds
<1>2. Inv /\ [Next]_vars =>
        [\A cp \in Sbo : InForce(cp) /\ grant'[cp].state = "open" => grant'[cp] = grant[cp]]_vars
  BY <1>1
<1> QED  BY <1>2, SpecInv, PTL DEF Spec, SelectIsExclusive

\* A step that changes a tag is an answer to a set-tag or a local one.
LEMMA TagSteps ==
  ASSUME Inv, [Next]_vars, NEW cp \in ControlPoint, tag'[cp] # tag[cp]
  PROVE  \/ /\ request.kind = "setTag" /\ request.cp = cp
            /\ tagOwner'[cp] = BltOf[request.by]
         \/ /\ tagOwner'[cp] = NoBlt
            /\ Deselect(cp)
<1>1. tag \in [ControlPoint -> TagValue] /\ tagOwner \in [ControlPoint -> Blt \cup {NoBlt}]
  BY DEF Inv, TypeOK
<1>2. ASSUME NEW success \in BOOLEAN, SetTagReturns(success)
      PROVE  request.kind = "setTag" /\ request.cp = cp /\ tagOwner'[cp] = BltOf[request.by]
  BY <1>1, <1>2 DEF SetTagReturns
<1>3. ASSUME NEW p \in ControlPoint, NEW v \in TagValue, SetTagLocally(p, v)
      PROVE  tagOwner'[cp] = NoBlt /\ Deselect(cp)
  <2>1. p = cp  BY <1>1, <1>3 DEF SetTagLocally
  <2> QED  BY <1>1, <1>3, <2>1 DEF SetTagLocally
<1> QED
  BY <1>2, <1>3
  DEF Next, Select, Operate, SetTag, ReadTag, SelectReturns, OperateReturns, Tick, vars

\* A selected device keeps its tag, or its select is withdrawn (setTag,
\* Tase2_ControlPoint_setTag).
THEOREM SpecTagKeptWhileSelected == Spec => TagKeptWhileSelected
<1>1. ASSUME Inv, [Next]_vars, NEW cp \in Sbo, InForce(cp), tag'[cp] # tag[cp]
      PROVE  grant'[cp].state = "withdrawn"
  <2>1. cp \in ControlPoint  BY ControlAssumption
  <2>2. Deselect(cp)  BY <1>1, <2>1, TagSteps DEF Inv, PendingNotInForce
  <2> QED  BY <1>1, <2>1, <2>2 DEF Deselect, InForce, Inv, TypeOK, Grant
<1>2. Inv /\ [Next]_vars =>
        [\A cp \in Sbo :
           InForce(cp) /\ tag'[cp] # tag[cp] => grant'[cp].state = "withdrawn"]_vars
  BY <1>1
<1> QED  BY <1>2, SpecInv, PTL DEF Spec, TagKeptWhileSelected

\* A tag is changed by its owner, by a client without a table or locally (setTag).
THEOREM SpecForeignTagKept == Spec => ForeignTagKept
<1>1. ASSUME Inv, [Next]_vars, NEW cp \in Tagged,
             tagOwner[cp] \in Blt, tag[cp] # "NO_TAG", tag'[cp] # tag[cp]
      PROVE  tagOwner'[cp] \in {tagOwner[cp], NoBlt}
  <2>1. cp \in ControlPoint /\ NoBlt \notin Blt  BY ControlAssumption
  <2> QED  BY <1>1, <2>1, TagSteps DEF Inv, PendingOwner
<1>2. Inv /\ [Next]_vars =>
        [\A cp \in Tagged :
           tagOwner[cp] \in Blt /\ tag[cp] # "NO_TAG" /\ tag'[cp] # tag[cp]
             => tagOwner'[cp] \in {tagOwner[cp], NoBlt}]_vars
  BY <1>1
<1> QED  BY <1>2, SpecInv, PTL DEF Spec, ForeignTagKept
=============================================================================
