------------------------ MODULE CampaignPumpProofs ------------------------
(***************************************************************************)
(* Proofs about CampaignPump, for any number of recipients, of processes   *)
(* that pump, and of events.                                               *)
(***************************************************************************)
EXTENDS CampaignPump, FiniteSetTheorems, TLAPS

CampType == [status : {"draft", "running", "paused", "stopped", "completed"},
             fails : Nat, tripped : BOOLEAN, cooling : BOOLEAN, recent : BOOLEAN]
PumpType == [Pumps -> [pc : PumpPcs, who : Recipients \cup {NoOne}]]
MsgType == [Recipients -> [status : MsgStatuses, text : {0, 1}]]

-----------------------------------------------------------------------------
(* Assigning one component of each record keeps its type.                  *)
LEMMA InitTypeOK == Init => TypeOK
<1> SUFFICES ASSUME Init PROVE TypeOK
  OBVIOUS
<1>1. camp \in CampType
  BY DEF Init, CampType
<1>2. pump \in PumpType /\ \A p \in Pumps : pump[p].pc = "idle"
  BY DEF Init, At, PumpType, PumpPcs
<1>3. msg \in MsgType /\ rec \in [Recipients -> RecStatuses] /\ box \in [Recipients -> BoxStatuses]
  BY DEF Init, MsgType, MsgStatuses, RecStatuses, BoxStatuses
<1>4. /\ {stale, linked, optedIn, leftOut} \subseteq SUBSET Recipients
      /\ wording \in [Recipients -> {0, 1}] /\ {paced, finished} \subseteq BOOLEAN
      /\ run \in [Recipients -> {"no", "call", "reset", "count"}]
      /\ batch \in Nat /\ budget \in [Limited -> Nat]
  BY DEF Init
<1> QED BY <1>1, <1>2, <1>3, <1>4 DEF TypeOK, CampType, PumpType, MsgType

LEMMA SpendType == ASSUME TypeOK, NEW e \in Limited, Spend(e)
                   PROVE  budget' \in [Limited -> Nat]
  BY DEF TypeOK, Spend

LEMMA AtType ==
  ASSUME TypeOK, NEW p \in Pumps, NEW pc \in PumpPcs, NEW r \in Recipients \cup {NoOne},
         pc \in {"send", "link"} => r \in Recipients,
         pump' = [pump EXCEPT ![p] = At(pc, r)]
  PROVE  /\ pump' \in PumpType
         /\ \A q \in Pumps : pump'[q].pc \in {"send", "link"} => pump'[q].who \in Recipients
  BY DEF TypeOK, At, PumpType

LEMMA StatusType ==
  ASSUME TypeOK, NEW r \in Recipients, NEW s \in MsgStatuses,
         msg' = [msg EXCEPT ![r].status = s]
  PROVE  msg' \in MsgType
  BY DEF TypeOK, MsgType

LEMMA CampTypes ==
  ASSUME camp \in CampType
  PROVE  /\ Started \in CampType
         /\ \A s \in {"running", "paused", "stopped", "completed"} :
              /\ [camp EXCEPT !.status = s] \in CampType
              /\ [camp EXCEPT !.status = s, !.recent = TRUE] \in CampType
         /\ \A b \in BOOLEAN : [camp EXCEPT !.recent = TRUE, !.cooling = b] \in CampType
         /\ [camp EXCEPT !.fails = 0] \in CampType
         /\ [camp EXCEPT !.recent = FALSE] \in CampType
         /\ [camp EXCEPT !.cooling = FALSE] \in CampType
  BY DEF CampType, Started

LEMMA CountType ==
  ASSUME camp \in CampType, NEW b \in BOOLEAN, NEW s \in {"paused", camp.status}
  PROVE  [camp EXCEPT !.fails = @ + 1, !.tripped = b, !.status = s] \in CampType
<1>1. camp.fails + 1 \in Nat
  BY DEF CampType
<1>2. s \in {"draft", "running", "paused", "stopped", "completed"}
  BY DEF CampType
<1> QED BY <1>1, <1>2 DEF CampType

-----------------------------------------------------------------------------
(* Every variable keeps its type, action by action.                        *)
LEMMA PeopleType == ASSUME TypeOK, People PROVE TypeOK'
<1>0. camp \in CampType
  BY DEF TypeOK, CampType
<1>1. ASSUME StartCampaign PROVE TypeOK'
  <2>1. camp' \in CampType
    BY <1>0, <1>1, CampTypes DEF StartCampaign
  <2>2. rec' \in [Recipients -> RecStatuses]
    BY <1>1 DEF TypeOK, StartCampaign, Enlisted, RecStatuses
  <2>3. budget' \in [Limited -> Nat]
    BY <1>1, SpendType DEF StartCampaign, Limited
  <2> QED
    BY <1>1, <2>1, <2>2, <2>3 DEF TypeOK, StartCampaign, CampType, peopleVars, msgVars
<1>2. ASSUME NEW s \in {"paused", "stopped"}, HaltCampaign(s) PROVE TypeOK'
  <2>1. camp' \in CampType
    BY <1>0, <1>2, CampTypes DEF HaltCampaign
  <2>2. budget' \in [Limited -> Nat]
    BY <1>2, SpendType DEF HaltCampaign, Limited
  <2> QED
    BY <1>2, <2>1, <2>2 DEF TypeOK, HaltCampaign, CampType, recVars, peopleVars, msgVars
<1> QED BY <1>1, <1>2 DEF People

LEMMA ContactType ==
  ASSUME TypeOK, NEW r \in Recipients, ChangeConsent(r) \/ Rename(r)
  PROVE  TypeOK'
<1>1. budget' \in [Limited -> Nat]
  BY SpendType DEF ChangeConsent, Rename, Limited
<1>2. CASE ChangeConsent(r)
  BY <1>1, <1>2 DEF TypeOK, ChangeConsent, recVars, msgVars
<1>3. CASE Rename(r)
  <2>1. wording' \in [Recipients -> {0, 1}]
    BY <1>3 DEF TypeOK, Rename
  <2> QED BY <1>1, <1>3, <2>1 DEF TypeOK, Rename, recVars, msgVars
<1> QED BY <1>2, <1>3

LEMMA ClaimType ==
  ASSUME TypeOK, NEW p \in Pumps, NEW r \in Recipients, ClaimRecipient(p, r)
  PROVE  TypeOK'
<1>0. camp \in CampType
  BY DEF TypeOK, CampType
<1>1. CASE r \notin optedIn
  <2>1. /\ pump' \in PumpType
        /\ \A q \in Pumps : pump'[q].pc \in {"send", "link"} => pump'[q].who \in Recipients
    BY <1>1, AtType DEF ClaimRecipient, PumpPcs
  <2>2. rec' \in [Recipients -> RecStatuses]
    BY <1>1 DEF TypeOK, ClaimRecipient, RecStatuses
  <2> QED
    BY <1>1, <2>1, <2>2 DEF TypeOK, ClaimRecipient, PumpType, peopleVars, msgVars
<1>2. CASE r \in optedIn
  <2>1. /\ pump' \in PumpType
        /\ \A q \in Pumps : pump'[q].pc \in {"send", "link"} => pump'[q].who \in Recipients
    BY <1>2, AtType DEF ClaimRecipient, PumpPcs
  <2>2. rec' \in [Recipients -> RecStatuses]
    BY <1>2 DEF TypeOK, ClaimRecipient, RecStatuses
  <2>3. camp' \in CampType
    <3>1. RestDue(rec') \in BOOLEAN
      BY DEF RestDue
    <3> QED BY <1>0, <1>2, <3>1, CampTypes DEF ClaimRecipient
  <2>4. batch' \in Nat /\ stale' \subseteq Recipients
    BY <1>2 DEF TypeOK, ClaimRecipient
  <2> QED
    BY <1>2, <2>1, <2>2, <2>3, <2>4
    DEF TypeOK, ClaimRecipient, PumpType, CampType, peopleVars, msgVars
<1> QED BY <1>1, <1>2

LEMMA CreateType ==
  ASSUME TypeOK, NEW p \in Pumps, CreateMessage(p)
  PROVE  TypeOK'
<1> DEFINE r == pump[p].who
<1>0. r \in Recipients
  BY DEF TypeOK, CreateMessage
<1>1. \E pc \in {"tally", "link", "idle"}, w \in Recipients \cup {NoOne} :
        /\ pc = "link" => w \in Recipients
        /\ pump' = [pump EXCEPT ![p] = At(pc, w)]
  BY <1>0 DEF CreateMessage
<1>2. /\ pump' \in PumpType
      /\ \A q \in Pumps : pump'[q].pc \in {"send", "link"} => pump'[q].who \in Recipients
  BY <1>1, AtType DEF PumpPcs
<1>3. rec' \in [Recipients -> RecStatuses]
  BY <1>0 DEF TypeOK, CreateMessage, RecStatuses
<1>4. box' \in [Recipients -> BoxStatuses]
  BY <1>0 DEF TypeOK, CreateMessage, BoxStatuses
<1>5. msg' \in MsgType
  <2>1. msg' = msg \/ msg' = [msg EXCEPT ![r] = [status |-> "sending", text |-> wording[r]]]
    BY <1>0 DEF CreateMessage
  <2> QED BY <1>0, <2>1 DEF TypeOK, MsgType, MsgStatuses
<1> HIDE DEF r
<1> QED
  BY <1>2, <1>3, <1>4, <1>5 DEF TypeOK, CreateMessage, PumpType, MsgType, peopleVars

LEMMA PumpingType ==
  ASSUME TypeOK, NEW p \in Pumps, Pumping(p) \/ PumpStops(p)
  PROVE  TypeOK'
<1>1. ASSUME NEW pc \in {"claim", "tally", "idle"}, pump' = [pump EXCEPT ![p] = At(pc, NoOne)]
      PROVE  /\ pump' \in PumpType
             /\ \A q \in Pumps : pump'[q].pc \in {"send", "link"} => pump'[q].who \in Recipients
  BY <1>1, AtType DEF PumpPcs
<1>2. CASE Tick(p)
  BY <1>1, <1>2 DEF TypeOK, Tick, PumpType, recVars, peopleVars, msgVars
<1>3. CASE NoClaim(p)
  BY <1>1, <1>3 DEF TypeOK, NoClaim, PumpType, recVars, peopleVars, msgVars
<1>4. CASE CreateMessage(p)
  BY <1>4, CreateType
<1>5. CASE LinkMessage(p)
  <2>1. pump[p].who \in Recipients
    BY <1>5 DEF TypeOK, LinkMessage
  <2>2. rec' \in [Recipients -> RecStatuses] /\ linked' \subseteq Recipients
    BY <1>5, <2>1 DEF TypeOK, LinkMessage, RecStatuses
  <2>3. pump' = [pump EXCEPT ![p] = At("tally", NoOne)]
    BY <1>5 DEF LinkMessage
  <2> QED
    BY <1>1, <1>5, <2>2, <2>3 DEF TypeOK, LinkMessage, PumpType, peopleVars, msgVars
<1>6. CASE Tally(p)
  <2>1. camp' \in CampType
    <3>1. camp \in CampType
      BY DEF TypeOK, CampType
    <3>2. camp' = camp \/ camp' = [camp EXCEPT !.status = "completed"]
      BY <1>6 DEF Tally
    <3> QED BY <3>1, <3>2, CampTypes
  <2>2. finished' \in BOOLEAN
    BY <1>6 DEF TypeOK, Tally
  <2>3. /\ pump' \in PumpType
        /\ \A q \in Pumps : pump'[q].pc \in {"send", "link"} => pump'[q].who \in Recipients
    BY <1>1, <1>6 DEF Tally
  <2>4. UNCHANGED <<rec, stale, linked, batch, peopleVars, msgVars, budget>>
    BY <1>6 DEF Tally
  <2> QED
    BY <2>1, <2>2, <2>3, <2>4 DEF TypeOK, PumpType, CampType, peopleVars, msgVars
<1>7. ASSUME NEW r \in Recipients, ClaimRecipient(p, r) PROVE TypeOK'
  BY <1>7, ClaimType
<1>8. CASE PumpStops(p)
  <2>1. budget' \in [Limited -> Nat]
    BY <1>8, SpendType DEF PumpStops, Limited
  <2> QED
    BY <1>1, <1>8, <2>1 DEF TypeOK, PumpStops, PumpType, recVars, peopleVars, msgVars
<1> QED BY <1>2, <1>3, <1>4, <1>5, <1>6, <1>7, <1>8 DEF Pumping

LEMMA DispatchingType ==
  ASSUME TypeOK, NEW r \in Recipients, Dispatching(r)
  PROVE  TypeOK'
<1>0. camp \in CampType
  BY DEF TypeOK, CampType
<1>1. CASE Cancel(r)
  <2>1. msg' \in MsgType
    <3>1. (IF msg[r].status = "sending" THEN "failed" ELSE msg[r].status) \in MsgStatuses
      BY DEF TypeOK, MsgStatuses
    <3> QED BY <1>1, <3>1, StatusType DEF Cancel
  <2>2. box' \in [Recipients -> BoxStatuses]
    BY <1>1 DEF TypeOK, Cancel, BoxStatuses
  <2> QED BY <1>1, <2>1, <2>2 DEF TypeOK, Cancel, MsgType, recVars, peopleVars
<1>2. CASE Dispatch(r)
  <2>1. msg' \in MsgType
    BY <1>2, StatusType DEF Dispatch, MsgStatuses
  <2>2. box' \in [Recipients -> BoxStatuses] /\ run' \in [Recipients -> {"no", "call", "reset", "count"}]
    BY <1>2 DEF TypeOK, Dispatch, BoxStatuses
  <2> QED BY <1>2, <2>1, <2>2 DEF TypeOK, Dispatch, MsgType, recVars, peopleVars
<1>3. CASE Confirm(r)
  <2>1. msg' \in MsgType
    BY <1>3, StatusType DEF Confirm, MsgStatuses
  <2>2. box' \in [Recipients -> BoxStatuses] /\ run' \in [Recipients -> {"no", "call", "reset", "count"}]
    BY <1>3 DEF TypeOK, Confirm, BoxStatuses
  <2>3. budget' \in [Limited -> Nat]
    BY <1>3, SpendType DEF TypeOK, Confirm, Limited
  <2> QED BY <1>3, <2>1, <2>2, <2>3 DEF TypeOK, Confirm, MsgType, recVars, peopleVars
<1>7. CASE Receipt(r)
  <2>1. msg' \in MsgType
    BY <1>7, StatusType DEF Receipt, MsgStatuses
  <2> QED BY <1>7, <2>1 DEF TypeOK, Receipt, MsgType, recVars, peopleVars
<1>4. CASE ResetFailures(r)
  <2>1. camp' \in CampType
    BY <1>0, <1>4, CampTypes DEF ResetFailures
  <2>2. run' \in [Recipients -> {"no", "call", "reset", "count"}]
    BY <1>4 DEF TypeOK, ResetFailures
  <2> QED BY <1>4, <2>1, <2>2 DEF TypeOK, ResetFailures, CampType, recVars, peopleVars
<1>5. CASE CallFails(r)
  <2>1. msg' \in MsgType
    BY <1>5, StatusType DEF CallFails, MsgStatuses
  <2>2. box' \in [Recipients -> BoxStatuses] /\ run' \in [Recipients -> {"no", "call", "reset", "count"}]
    BY <1>5 DEF TypeOK, CallFails, BoxStatuses
  <2>3. budget' \in [Limited -> Nat]
    BY <1>5, SpendType DEF CallFails, Limited
  <2> QED BY <1>5, <2>1, <2>2, <2>3 DEF TypeOK, CallFails, MsgType, recVars, peopleVars
<1>6. CASE CountFailure(r)
  <2>1. camp' \in CampType
    <3>1. (camp.tripped \/ Trips(camp.fails + 1)) \in BOOLEAN
      BY DEF Trips
    <3> QED BY <1>0, <1>6, <3>1, CountType DEF CountFailure
  <2>2. run' \in [Recipients -> {"no", "call", "reset", "count"}]
    BY <1>6 DEF TypeOK, CountFailure
  <2> QED BY <1>6, <2>1, <2>2 DEF TypeOK, CountFailure, CampType, recVars, peopleVars
<1> QED BY <1>1, <1>2, <1>3, <1>4, <1>5, <1>6, <1>7 DEF Dispatching

LEMMA ClockType == ASSUME TypeOK, Clock PROVE TypeOK'
<1>0. camp \in CampType
  BY DEF TypeOK, CampType
<1>1. ASSUME PauseOver \/ CooldownOver PROVE TypeOK'
  <2>1. camp' \in CampType
    BY <1>0, <1>1, CampTypes DEF PauseOver, CooldownOver
  <2> QED
    BY <1>1, <2>1 DEF TypeOK, PauseOver, CooldownOver, CampType, recVars, peopleVars, msgVars
<1>2. ASSUME PaceOver PROVE TypeOK'
  BY <1>2 DEF TypeOK, PaceOver, recVars, peopleVars
<1>3. ASSUME NEW r \in Recipients, ClaimAges(r) PROVE TypeOK'
  BY <1>3 DEF TypeOK, ClaimAges, peopleVars, msgVars
<1> QED BY <1>1, <1>2, <1>3 DEF Clock

LEMMA StutterType == ASSUME TypeOK, UNCHANGED vars PROVE TypeOK'
  BY DEF TypeOK, vars, recVars, peopleVars, msgVars

LEMMA NextTypeOK == TypeOK /\ [Next]_vars => TypeOK'
  BY PeopleType, ContactType, PumpingType, DispatchingType, ClockType, StutterType DEF Next

(* Type correctness of every reachable state.                              *)
THEOREM TypeCorrect == Spec => []TypeOK
  BY InitTypeOK, NextTypeOK, PTL DEF Spec

-----------------------------------------------------------------------------
(* The breaker.  Only CountFailure and the start touch it: a count that    *)
(* reaches the limit pauses the campaign in the same statement.            *)
LEMMA BreakerStep == TypeOK /\ RunningBelowBreaker /\ [Next]_vars => RunningBelowBreaker'
<1> SUFFICES ASSUME TypeOK, RunningBelowBreaker, [Next]_vars
             PROVE  RunningBelowBreaker'
  OBVIOUS
<1>0. camp \in CampType /\ Breaker \in Nat \ {0}
  BY CampaignAssumption DEF TypeOK, CampType
<1>1. ASSUME camp' = camp PROVE RunningBelowBreaker'
  BY <1>1 DEF RunningBelowBreaker
<1>2. ASSUME camp'.fails = camp.fails, camp'.tripped = camp.tripped,
             camp'.status \in {camp.status, "paused", "stopped", "completed"}
      PROVE  RunningBelowBreaker'
  BY <1>2 DEF RunningBelowBreaker
<1>3. ASSUME People PROVE RunningBelowBreaker'
  <2>1. CASE StartCampaign
    <3>1. camp'.fails = 0 /\ ~camp'.tripped
      BY <1>0, <2>1 DEF StartCampaign, Started, CampType
    <3> QED BY <1>0, <3>1 DEF RunningBelowBreaker
  <2>2. ASSUME NEW s \in {"paused", "stopped"}, HaltCampaign(s) PROVE RunningBelowBreaker'
    BY <1>0, <1>2, <2>2 DEF HaltCampaign, CampType
  <2> QED BY <1>3, <2>1, <2>2 DEF People
<1>4. ASSUME NEW p \in Pumps, Pumping(p) \/ PumpStops(p) PROVE RunningBelowBreaker'
  <2>1. CASE Tick(p) \/ NoClaim(p) \/ CreateMessage(p) \/ LinkMessage(p) \/ PumpStops(p)
    BY <1>1, <2>1 DEF Tick, NoClaim, CreateMessage, LinkMessage, PumpStops
  <2>2. CASE Tally(p)
    <3>1. camp' = camp \/ camp' = [camp EXCEPT !.status = "completed"]
      BY <2>2 DEF Tally
    <3> QED BY <1>0, <1>1, <1>2, <3>1 DEF CampType
  <2>3. ASSUME NEW r \in Recipients, ClaimRecipient(p, r) PROVE RunningBelowBreaker'
    <3>1. \/ camp' = camp
          \/ \E b \in BOOLEAN : camp' = [camp EXCEPT !.recent = TRUE, !.cooling = b]
      BY <2>3 DEF ClaimRecipient, RestDue
    <3> QED BY <1>0, <1>1, <1>2, <3>1 DEF CampType
  <2> QED BY <1>4, <2>1, <2>2, <2>3 DEF Pumping
<1>5. ASSUME NEW r \in Recipients, Dispatching(r) PROVE RunningBelowBreaker'
  <2>1. CASE Cancel(r) \/ Dispatch(r) \/ Confirm(r) \/ Receipt(r) \/ CallFails(r)
    BY <1>1, <2>1 DEF Cancel, Dispatch, Confirm, Receipt, CallFails
  <2>2. CASE ResetFailures(r)
    <3>1. /\ camp'.fails = 0 /\ camp'.tripped = camp.tripped
          /\ camp'.status = camp.status
      BY <1>0, <2>2 DEF ResetFailures, CampType
    <3> QED BY <1>0, <3>1 DEF RunningBelowBreaker
  <2>3. CASE CountFailure(r)
    <3>1. CASE Trips(camp.fails + 1)
      <4>1. camp'.status = "paused"
        BY <1>0, <2>3, <3>1 DEF CountFailure, CampType
      <4> QED BY <4>1 DEF RunningBelowBreaker
    <3>2. CASE ~Trips(camp.fails + 1)
      <4>1. /\ camp'.fails = camp.fails + 1 /\ camp'.status = camp.status
            /\ camp'.tripped = (camp.tripped \/ Trips(camp.fails + 1))
        BY <1>0, <2>3, <3>2 DEF CountFailure, CampType
      <4>2. camp.fails + 1 < Breaker
        BY <1>0, <3>2 DEF Trips, CampType
      <4>3. camp'.tripped = camp.tripped
        BY <1>0, <3>2, <4>1 DEF CampType
      <4> QED BY <4>1, <4>2, <4>3 DEF RunningBelowBreaker
    <3> QED BY <3>1, <3>2
  <2> QED BY <1>5, <2>1, <2>2, <2>3 DEF Dispatching
<1>6. ASSUME NEW r \in Recipients, ChangeConsent(r) \/ Rename(r) PROVE RunningBelowBreaker'
  BY <1>1, <1>6 DEF ChangeConsent, Rename
<1>7. ASSUME Clock PROVE RunningBelowBreaker'
  <2>1. camp' \in {camp, [camp EXCEPT !.recent = FALSE], [camp EXCEPT !.cooling = FALSE]}
    BY <1>7 DEF Clock, PauseOver, CooldownOver, PaceOver, ClaimAges
  <2> QED BY <1>0, <1>1, <1>2, <2>1 DEF CampType
<1>8. CASE UNCHANGED vars
  BY <1>1, <1>8 DEF vars
<1> QED BY <1>3, <1>4, <1>5, <1>6, <1>7, <1>8 DEF Next

(* A running campaign has fewer failures in a row than the breaker allows, *)
(* and the screen does not call it tripped: status and counter are written *)
(* by different statements of different processes, and still agree.        *)
THEOREM RunningBelowBreakerHolds == Spec => []RunningBelowBreaker
<1>1. Init => RunningBelowBreaker
  BY DEF Init, RunningBelowBreaker
<1> QED BY <1>1, TypeCorrect, BreakerStep, PTL DEF Spec

-----------------------------------------------------------------------------
(* SentIsCounted is not inductive: a call that ends finds its message      *)
(* linked because it was when the call began, and links are never undone.  *)
LinkInv == SentIsCounted /\ \A r \in Recipients : run[r] = "call" => r \in linked

LEMMA LinkQuiet ==
  ASSUME LinkInv, linked \subseteq linked',
         \A r \in Recipients : /\ run'[r] = run[r] \/ run'[r] # "call"
                               /\ \/ box'[r] = box[r]
                                  \/ box'[r] \in {"none", "pending", "cancelled"}
  PROVE  LinkInv'
  BY DEF LinkInv, SentIsCounted

LEMMA LinkStep == TypeOK /\ LinkInv /\ [Next]_vars => LinkInv'
<1> SUFFICES ASSUME TypeOK, LinkInv, [Next]_vars
             PROVE  LinkInv'
  OBVIOUS
<1>0. box \in [Recipients -> BoxStatuses] /\ run \in [Recipients -> {"no", "call", "reset", "count"}]
  BY DEF TypeOK
<1>1. ASSUME box' = box, run' = run, linked \subseteq linked' PROVE LinkInv'
  BY <1>1, LinkQuiet
<1>2. ASSUME NEW p \in Pumps, Pumping(p) \/ PumpStops(p) PROVE LinkInv'
  <2>1. CASE CreateMessage(p)
    <3> DEFINE q == pump[p].who
    <3>1. q \in Recipients
      BY <2>1 DEF TypeOK, CreateMessage
    <3>2. box' = box \/ box' = [box EXCEPT ![q] = "pending"]
      BY <2>1 DEF CreateMessage
    <3>3. \A r \in Recipients : box'[r] = box[r] \/ box'[r] = "pending"
      BY <1>0, <3>1, <3>2
    <3>4. run' = run /\ linked' = linked
      BY <2>1 DEF CreateMessage
    <3> QED BY <3>3, <3>4, LinkQuiet
  <2>2. CASE Tick(p) \/ NoClaim(p) \/ LinkMessage(p) \/ PumpStops(p)
    BY <1>1, <2>2 DEF Tick, NoClaim, LinkMessage, PumpStops, recVars, msgVars
  <2>3. CASE Tally(p)
    <3>1. UNCHANGED <<box, run, linked>>
      BY <2>3 DEF Tally, msgVars
    <3> QED BY <1>1, <3>1
  <2>4. ASSUME NEW r \in Recipients, ClaimRecipient(p, r) PROVE LinkInv'
    <3>1. UNCHANGED <<box, run, linked>>
      BY <2>4 DEF ClaimRecipient, msgVars
    <3> QED BY <1>1, <3>1
  <2> QED BY <1>2, <2>1, <2>2, <2>3, <2>4 DEF Pumping
<1>3. ASSUME NEW r \in Recipients, Dispatching(r) PROVE LinkInv'
  <2>1. CASE Cancel(r)
    <3>1. \A q \in Recipients : box'[q] = box[q] \/ box'[q] = "cancelled"
      BY <1>0, <2>1 DEF Cancel
    <3> QED BY <2>1, <3>1, LinkQuiet DEF Cancel, recVars
  <2>2. CASE ResetFailures(r) \/ CountFailure(r)
    <3>1. \A q \in Recipients : run'[q] = run[q] \/ run'[q] = "no"
      BY <1>0, <2>2 DEF ResetFailures, CountFailure
    <3>2. box' = box /\ linked' = linked
      BY <2>2 DEF ResetFailures, CountFailure, recVars
    <3> QED BY <3>1, <3>2, LinkQuiet
  <2>3. CASE Dispatch(r) \/ Confirm(r) \/ CallFails(r)
    <3>1. r \in linked /\ linked' = linked
      BY <2>3 DEF Dispatch, Eligible, Confirm, CallFails, LinkInv, recVars
    <3>2. \A q \in Recipients \ {r} : box'[q] = box[q] /\ run'[q] = run[q]
      BY <1>0, <2>3 DEF Dispatch, Confirm, CallFails
    <3> QED BY <3>1, <3>2 DEF LinkInv, SentIsCounted
  <2>4. CASE Receipt(r)
    BY <1>1, <2>4 DEF Receipt, recVars
  <2> QED BY <1>3, <2>1, <2>2, <2>3, <2>4 DEF Dispatching
<1>4. ASSUME NEW r \in Recipients, ChangeConsent(r) \/ Rename(r) PROVE LinkInv'
  BY <1>1, <1>4 DEF ChangeConsent, Rename, recVars, msgVars
<1>5. ASSUME People \/ Clock PROVE LinkInv'
  BY <1>1, <1>5 DEF People, Clock, StartCampaign, HaltCampaign, PauseOver, CooldownOver, PaceOver,
                    ClaimAges, recVars, msgVars
<1>6. CASE UNCHANGED vars
  BY <1>1, <1>6 DEF vars, recVars, msgVars
<1> QED BY <1>2, <1>3, <1>4, <1>5, <1>6 DEF Next

(* Whatever was handed to WhatsApp is linked to its recipient, whichever   *)
(* processes raced for the claim and wherever they stopped.                *)
THEOREM SentIsCountedHolds == Spec => []SentIsCounted
<1>1. Init => LinkInv
  BY DEF Init, LinkInv, SentIsCounted
<1>2. LinkInv => SentIsCounted
  BY DEF LinkInv
<1> QED BY <1>1, <1>2, TypeCorrect, LinkStep, PTL DEF Spec

-----------------------------------------------------------------------------
(* A message and its outbox row move together, and a call under way keeps  *)
(* both "dispatching".                                                     *)
BoxInv ==
  /\ \A r \in Recipients :
       /\ box[r] = "pending" => msg[r].status = "sending"
       /\ box[r] \in {"dispatching", "uncertain"} => msg[r].status = box[r]
       /\ run[r] = "call" => msg[r].status = "dispatching"
  /\ LinkInv

LEMMA BoxStep == TypeOK /\ BoxInv /\ [Next]_vars => BoxInv'
<1> SUFFICES ASSUME TypeOK, BoxInv, [Next]_vars
             PROVE  BoxInv'
  OBVIOUS
<1> USE LinkStep DEF BoxInv
<1>0. /\ msg \in MsgType /\ run \in [Recipients -> {"no", "call", "reset", "count"}]
      /\ box \in [Recipients -> BoxStatuses]
  BY DEF TypeOK, MsgType
<1>1. ASSUME msg' = msg, run' = run, box' = box PROVE BoxInv'
  BY <1>1
<1>2. ASSUME NEW p \in Pumps, Pumping(p) \/ PumpStops(p) PROVE BoxInv'
  <2>1. CASE CreateMessage(p)
    <3> DEFINE q == pump[p].who
    <3>1. q \in Recipients
      BY <2>1 DEF TypeOK, CreateMessage
    <3>2. \/ msg' = msg /\ box' = box
          \/ /\ msg[q].status = "none"
             /\ msg' = [msg EXCEPT ![q] = [status |-> "sending", text |-> wording[q]]]
             /\ box' = [box EXCEPT ![q] = "pending"]
      BY <2>1 DEF CreateMessage
    <3>3. run' = run
      BY <2>1 DEF CreateMessage
    <3> HIDE DEF q
    <3> QED BY <1>0, <3>1, <3>2, <3>3 DEF MsgType
  <2>2. CASE Tick(p) \/ NoClaim(p) \/ LinkMessage(p) \/ PumpStops(p)
    BY <1>1, <2>2 DEF Tick, NoClaim, LinkMessage, PumpStops, msgVars
  <2>3. ASSUME Tally(p) \/ \E r \in Recipients : ClaimRecipient(p, r) PROVE BoxInv'
    <3>1. UNCHANGED msgVars
      BY <2>3 DEF Tally, ClaimRecipient
    <3> QED BY <1>1, <3>1 DEF msgVars
  <2> QED BY <1>2, <2>1, <2>2, <2>3 DEF Pumping
<1>3. ASSUME NEW r \in Recipients, Dispatching(r) PROVE BoxInv'
  <2>1. \A q \in Recipients \ {r} : msg'[q] = msg[q] /\ run'[q] = run[q] /\ box'[q] = box[q]
    BY <1>0, <1>3
    DEF Dispatching, Cancel, Dispatch, Confirm, Receipt, ResetFailures, CallFails, CountFailure, MsgType
  <2>2. CASE Cancel(r)
    <3>1. box'[r] = "cancelled" /\ run'[r] = run[r] /\ msg'[r].status = "failed" /\ run[r] # "call"
      BY <1>0, <2>2 DEF Cancel, MsgType
    <3> QED BY <2>1, <3>1
  <2>3. CASE Dispatch(r) \/ CallFails(r)
    <3>1. \/ msg'[r].status = "dispatching" /\ box'[r] = "dispatching"
          \/ msg'[r].status = "sending" /\ box'[r] = "pending" /\ run'[r] = "count"
          \/ msg'[r].status = "uncertain" /\ box'[r] = "uncertain" /\ run'[r] = "count"
      BY <1>0, <2>3 DEF Dispatch, CallFails, MsgType
    <3> QED BY <2>1, <3>1
  <2>4. CASE ResetFailures(r) \/ CountFailure(r)
    <3>1. msg' = msg /\ box' = box /\ run'[r] = "no"
      BY <1>0, <2>4 DEF ResetFailures, CountFailure
    <3> QED BY <2>1, <3>1
  <2>5. CASE Receipt(r)
    <3>1. box[r] = "processed" /\ box' = box /\ run' = run /\ msg[r].status = "sending"
      BY <2>5 DEF Receipt, Unacknowledged
    <3> QED BY <2>1, <3>1
  <2>6. CASE Confirm(r)
    <3>1. box'[r] = "processed" /\ run'[r] = "reset"
      BY <1>0, <2>6 DEF Confirm
    <3> QED BY <2>1, <3>1
  <2> QED BY <1>3, <2>2, <2>3, <2>4, <2>5, <2>6 DEF Dispatching
<1>4. ASSUME NEW r \in Recipients, ChangeConsent(r) \/ Rename(r) PROVE BoxInv'
  BY <1>1, <1>4 DEF ChangeConsent, Rename, msgVars
<1>5. ASSUME People \/ Clock PROVE BoxInv'
  BY <1>1, <1>5 DEF People, Clock, StartCampaign, HaltCampaign, PauseOver, CooldownOver, PaceOver,
                    ClaimAges, msgVars
<1>6. CASE UNCHANGED vars
  BY <1>1, <1>6 DEF vars, msgVars
<1> QED BY <1>2, <1>3, <1>4, <1>5, <1>6 DEF Next

(* With one pump nothing is under way when that pump finds the campaign    *)
(* complete, so nothing can reopen it.                                     *)
OnePump == \A p, q \in Pumps : p = q

EndInv ==
  /\ CompletedIsHandled
  /\ \A p \in Pumps : pump[p].pc # "idle" => camp.status # "completed"
  /\ BoxInv

LEMMA EndStep ==
  ASSUME OnePump
  PROVE  TypeOK /\ EndInv /\ [Next]_vars => EndInv'
<1> SUFFICES ASSUME TypeOK, EndInv, [Next]_vars
             PROVE  EndInv'
  OBVIOUS
<1> USE BoxStep DEF EndInv
<1>0. /\ camp \in CampType /\ pump \in PumpType /\ msg \in MsgType
      /\ run \in [Recipients -> {"no", "call", "reset", "count"}]
      /\ box \in [Recipients -> BoxStatuses] /\ rec \in [Recipients -> RecStatuses]
  BY DEF TypeOK, CampType, PumpType, MsgType
<1>1. ASSUME camp'.status # "completed" PROVE EndInv'
  BY <1>1 DEF CompletedIsHandled
<1>2. ASSUME camp'.status = camp.status, pump' = pump,
             UNCHANGED <<rec, linked, run, box>>
      PROVE  EndInv'
  BY <1>2 DEF CompletedIsHandled
<1>3. ASSUME NEW p \in Pumps, Pumping(p) \/ PumpStops(p) PROVE EndInv'
  <2>1. CASE Tally(p)
    <3>1. UNCHANGED <<rec, linked, run, box, msg>>
      BY <2>1 DEF Tally, msgVars
    <3>2. \A q \in Pumps : pump'[q].pc = "idle"
      BY <1>0, <2>1 DEF Tally, OnePump, PumpType, At
    <3>3. camp.status # "completed"
      BY <2>1 DEF Tally
    <3>4. CASE camp' = camp
      BY <1>1, <3>3, <3>4
    <3>5. CASE \A r \in Recipients : ~Unfinished(r)
      <4>1. ASSUME NEW r \in Recipients
            PROVE  /\ rec[r] \notin {"pending", "preparing"} /\ run[r] # "call"
                   /\ r \in linked => box[r] \notin {"pending", "dispatching", "uncertain"}
        BY <3>5 DEF Unfinished, Open, BoxInv, LinkInv
      <4> QED BY <3>1, <3>2, <4>1 DEF CompletedIsHandled
    <3> QED BY <2>1, <3>4, <3>5 DEF Tally
  <2>2. CASE Tick(p) \/ NoClaim(p) \/ CreateMessage(p) \/ LinkMessage(p) \/ PumpStops(p)
    <3>1. camp' = camp
      BY <2>2 DEF Tick, NoClaim, CreateMessage, LinkMessage, PumpStops
    <3>2. pump[p].pc # "idle" \/ camp.status = "running"
      BY <2>2 DEF Tick, NoClaim, CreateMessage, LinkMessage, PumpStops
    <3>3. camp.status # "completed"
      BY <3>2
    <3> QED BY <1>1, <3>1, <3>3
  <2>3. ASSUME NEW r \in Recipients, ClaimRecipient(p, r) PROVE EndInv'
    <3>1. \/ camp' = camp
          \/ \E b \in BOOLEAN : camp' = [camp EXCEPT !.recent = TRUE, !.cooling = b]
      BY <2>3 DEF ClaimRecipient, RestDue
    <3>2. camp.status # "completed" /\ camp'.status = camp.status
      BY <1>0, <2>3, <3>1 DEF ClaimRecipient, CampType
    <3> QED BY <1>1, <3>2
  <2> QED BY <1>3, <2>1, <2>2, <2>3 DEF Pumping
<1>4. ASSUME NEW r \in Recipients, Dispatching(r) PROVE EndInv'
  <2>1. CASE Cancel(r) \/ Dispatch(r)
    <3>1. camp' = camp /\ camp.status = "running"
      BY <2>1 DEF Cancel, Dispatch
    <3> QED BY <1>1, <3>1
  <2>2. CASE Confirm(r) \/ CallFails(r)
    <3>1. camp' = camp /\ run[r] = "call"
      BY <2>2 DEF Confirm, CallFails
    <3>2. camp.status # "completed"
      BY <3>1 DEF CompletedIsHandled
    <3> QED BY <1>1, <3>1, <3>2
  <2>3. CASE ResetFailures(r) \/ CountFailure(r)
    <3>1. camp'.status = camp.status \/ camp'.status = "paused"
      <4>1. CASE ResetFailures(r)
        BY <1>0, <4>1 DEF ResetFailures, CampType
      <4>2. CASE CountFailure(r)
        BY <1>0, <4>2 DEF CountFailure, CampType
      <4> QED BY <2>3, <4>1, <4>2
    <3>2. UNCHANGED <<pump, rec, linked, box>> /\ \A q \in Recipients : run'[q] \in {run[q], "no"}
      BY <1>0, <2>3 DEF ResetFailures, CountFailure, recVars
    <3>3. CASE camp'.status = camp.status
      BY <3>2, <3>3 DEF CompletedIsHandled
    <3>4. CASE camp'.status = "paused"
      BY <1>1, <3>4
    <3> QED BY <3>1, <3>3, <3>4
  <2>4. CASE Receipt(r)
    BY <1>2, <2>4 DEF Receipt, recVars
  <2> QED BY <1>4, <2>1, <2>2, <2>3, <2>4 DEF Dispatching
<1>5. ASSUME People PROVE EndInv'
  <2>1. camp'.status # "completed"
    BY <1>0, <1>5 DEF People, StartCampaign, Started, HaltCampaign, CampType
  <2> QED BY <1>1, <2>1
<1>6. ASSUME NEW r \in Recipients, ChangeConsent(r) \/ Rename(r) PROVE EndInv'
  BY <1>2, <1>6 DEF ChangeConsent, Rename, recVars, msgVars
<1>7. ASSUME Clock PROVE EndInv'
  <2>1. camp'.status = camp.status
    BY <1>0, <1>7 DEF Clock, PauseOver, CooldownOver, PaceOver, ClaimAges, CampType
  <2>2. UNCHANGED <<pump, rec, linked, run, box>>
    BY <1>7 DEF Clock, PauseOver, CooldownOver, PaceOver, ClaimAges, recVars, msgVars
  <2> QED BY <1>2, <2>1, <2>2
<1>8. CASE UNCHANGED vars
  BY <1>2, <1>8 DEF vars, recVars, msgVars
<1> QED BY <1>3, <1>4, <1>5, <1>6, <1>7, <1>8 DEF Next

(* When one process pumps, a completed campaign has nothing left to claim, *)
(* nothing on its way and nothing that will be sent later.                 *)
THEOREM CompletedIsHandledHolds ==
  ASSUME OnePump
  PROVE  Spec => []CompletedIsHandled
<1>1. Init => EndInv
  BY DEF Init, EndInv, CompletedIsHandled, BoxInv, LinkInv, SentIsCounted, At
<1>2. TypeOK /\ EndInv /\ [Next]_vars => EndInv'
  BY EndStep
<1>3. EndInv => CompletedIsHandled
  BY DEF EndInv
<1> QED BY <1>1, <1>2, <1>3, TypeCorrect, PTL DEF Spec
-----------------------------------------------------------------------------
(* The rest after each batch.  Claims are counted twice: the code counts   *)
(* the rows that are no longer pending and rests when they make up whole   *)
(* batches; "batch" counts since the last rest.  RestInv keeps the two in  *)
(* step, as long as nobody opted out: then no row is skipped, everybody    *)
(* is enlisted by the first start, and a full batch either rests or was    *)
(* the last one.                                                           *)
Claimed == {r \in Recipients : rec[r] \notin {"absent", "pending"}}

WholeBatches(n) == \E k \in 0..n : n = k * BatchSize

BusyIsClaimed == \A p \in Pumps : pump[p].pc \in {"send", "link"} => pump[p].who \in Claimed

RestKept ==
  LET c == Cardinality(Claimed)
  IN  /\ optedIn = Recipients
      /\ \/ \A r \in Recipients : rec[r] = "absent"
         \/ \A r \in Recipients : rec[r] # "absent"
      /\ batch <= c /\ WholeBatches(c - batch) /\ batch <= BatchSize
      /\ camp.cooling => WholeBatches(c)
      /\ batch = BatchSize => camp.cooling \/ \A r \in Recipients : rec[r] # "pending"

RestInv == BusyIsClaimed /\ (leftOut = {} => RestKept)

LEMMA NoBatch == WholeBatches(0)
BY CampaignAssumption DEF WholeBatches

LEMMA OneBatchMore ==
  ASSUME NEW n \in Nat, WholeBatches(n)
  PROVE  WholeBatches(n + BatchSize)
<1>1. BatchSize \in Nat \ {0}
  BY CampaignAssumption
<1>2. PICK k \in 0..n : n = k * BatchSize
  BY DEF WholeBatches
<1>3. n + BatchSize = (k + 1) * BatchSize
  BY <1>1, <1>2
<1>4. k + 1 \in 0..(n + BatchSize)
  BY <1>1, <1>2
<1> QED BY <1>3, <1>4 DEF WholeBatches

LEMMA WholeIsNoRemainder ==
  ASSUME NEW n \in Nat
  PROVE  WholeBatches(n) <=> n % BatchSize = 0
<1> DEFINE B == BatchSize
           q == n \div B
<1>1. B \in Nat \ {0}
  BY CampaignAssumption
<1>2. q \in Nat /\ n = B * q + (n % B) /\ n % B \in 0..(B - 1)
  BY <1>1
<1>3. ASSUME n % B = 0 PROVE WholeBatches(n)
  <2>1. n = q * B
    BY <1>1, <1>2, <1>3
  <2>2. q <= n
    BY <1>1, <1>2, <2>1
  <2> QED BY <1>2, <2>1, <2>2 DEF WholeBatches
<1>4. ASSUME WholeBatches(n) PROVE n % B = 0
  <2>1. PICK k \in 0..n : n = k * B
    BY <1>4 DEF WholeBatches
  <2>2. B * (k - q) = n % B
    BY <1>1, <1>2, <2>1
  <2>3. CASE k - q >= 1
    <3>1. B * (k - q) >= B
      BY <1>1, <1>2, <2>3
    <3> QED BY <1>1, <1>2, <2>2, <3>1
  <2>4. CASE k - q <= -1
    <3>1. B * (k - q) <= -B
      BY <1>1, <1>2, <2>4
    <3> QED BY <1>1, <1>2, <2>2, <3>1
  <2>5. CASE k = q
    BY <1>1, <1>2, <2>2, <2>5
  <2> QED BY <1>2, <2>3, <2>4, <2>5
<1> QED BY <1>3, <1>4

LEMMA ClaimedIsFinite ==
  ASSUME IsFiniteSet(Recipients)
  PROVE  IsFiniteSet(Claimed) /\ Cardinality(Claimed) \in Nat
BY FS_Subset, FS_CardinalityType DEF Claimed

(* A step that neither enlists nor claims, and ends no rest.               *)
LEMMA RestQuiet ==
  ASSUME RestInv, leftOut \subseteq leftOut',
         leftOut' = {} => optedIn' = optedIn,
         rec' \in [Recipients -> RecStatuses],
         \A r \in Recipients : rec'[r] = rec[r] \/ (r \in Claimed /\ rec'[r] \notin {"absent", "pending"}),
         batch' = batch, camp'.cooling = camp.cooling,
         \A p \in Pumps : pump'[p] = pump[p] \/ pump'[p].pc \notin {"send", "link"}
                          \/ (pump'[p].who = pump[p].who /\ pump[p].pc \in {"send", "link"})
  PROVE  RestInv'
<1>1. Claimed' = Claimed
  BY DEF Claimed
<1>2. BusyIsClaimed'
  BY <1>1 DEF RestInv, BusyIsClaimed
<1>3. ASSUME leftOut' = {} PROVE RestKept'
  <2>1. RestKept
    BY <1>3 DEF RestInv
  <2>2. \A r \in Recipients : /\ rec'[r] = "absent" <=> rec[r] = "absent"
                              /\ rec'[r] = "pending" <=> rec[r] = "pending"
    BY DEF Claimed
  <2> QED BY <1>1, <1>3, <2>1, <2>2 DEF RestKept, WholeBatches
<1> QED BY <1>2, <1>3 DEF RestInv

LEMMA StartRests ==
  ASSUME IsFiniteSet(Recipients), TypeOK, RestInv, StartCampaign
  PROVE  RestInv'
<1>1. rec' = Enlisted /\ camp'.cooling = camp.cooling
  BY DEF StartCampaign, Started, TypeOK
<1>2. UNCHANGED <<optedIn, leftOut, batch, pump>>
  BY DEF StartCampaign, peopleVars
<1>3. Claimed' = Claimed
  BY <1>1 DEF Claimed, Enlisted
<1>4. BusyIsClaimed'
  BY <1>2, <1>3 DEF RestInv, BusyIsClaimed
<1>5. ASSUME leftOut' = {} PROVE RestKept'
  <2>1. RestKept /\ optedIn = Recipients
    BY <1>2, <1>5 DEF RestInv, RestKept
  <2>2. \A r \in Recipients : rec'[r] # "absent"
    BY <1>1, <2>1 DEF Enlisted
  <2>3. CASE \A r \in Recipients : rec[r] # "absent"
    <3>1. \A r \in Recipients : rec'[r] = rec[r]
      BY <1>1, <2>3 DEF Enlisted
    <3> QED BY <1>1, <1>2, <1>3, <2>1, <2>2, <3>1 DEF RestKept, WholeBatches
  <2>4. CASE \A r \in Recipients : rec[r] = "absent"
    <3>1. Claimed = {}
      BY <2>4 DEF Claimed
    <3>2. batch = 0 /\ BatchSize # 0
      BY <2>1, <3>1, FS_EmptySet, CampaignAssumption DEF RestKept, TypeOK
    <3> QED BY <1>1, <1>2, <1>3, <2>1, <2>2, <3>2 DEF RestKept, WholeBatches
  <2> QED BY <2>1, <2>3, <2>4 DEF RestKept
<1> QED BY <1>4, <1>5 DEF RestInv

LEMMA ClaimRests ==
  ASSUME IsFiniteSet(Recipients), TypeOK, RestInv, NEW p \in Pumps, NEW r \in Recipients,
         ClaimRecipient(p, r)
  PROVE  RestInv'
<1> DEFINE c == Cardinality(Claimed)
<1>0. /\ rec \in [Recipients -> RecStatuses] /\ pump \in PumpType /\ batch \in Nat
      /\ camp \in CampType /\ c \in Nat /\ BatchSize \in Nat \ {0} /\ IsFiniteSet(Claimed)
  BY ClaimedIsFinite, CampaignAssumption DEF TypeOK, PumpType, CampType
<1>1. UNCHANGED <<optedIn, leftOut>> /\ rec[r] \in {"pending", "preparing"}
  BY DEF ClaimRecipient, peopleVars, Claimable
<1>2. r \in optedIn => pump' = [pump EXCEPT ![p] = At("send", r)] /\ rec' = [rec EXCEPT ![r] = "preparing"]
  BY DEF ClaimRecipient
<1>3. r \notin optedIn => pump' = [pump EXCEPT ![p] = At("tally", NoOne)] /\ rec' = [rec EXCEPT ![r] = "suppressed"]
  BY DEF ClaimRecipient
<1>4. Claimed' = Claimed \cup {r}
  BY <1>0, <1>2, <1>3 DEF Claimed
<1>5. BusyIsClaimed'
  BY <1>0, <1>2, <1>3, <1>4 DEF RestInv, BusyIsClaimed, At, PumpType
<1>6. ASSUME leftOut' = {} PROVE RestKept'
  <2>1. RestKept /\ r \in optedIn /\ optedIn' = Recipients
    BY <1>1, <1>6 DEF RestInv, RestKept
  <2>2. /\ rec' = [rec EXCEPT ![r] = "preparing"] /\ camp'.cooling = RestDue(rec')
        /\ batch' = IF rec[r] = "pending" THEN batch + 1 ELSE batch
        /\ ~camp.cooling
    BY <1>0, <2>1 DEF ClaimRecipient, ClaimDue, CampType
  <2>3. \A q \in Recipients : rec'[q] # "absent"
    BY <1>0, <1>1, <2>1, <2>2 DEF RestKept
  <2>4. Cardinality(Claimed') = (IF rec[r] = "pending" THEN c + 1 ELSE c)
    <3>1. r \in Claimed <=> rec[r] # "pending"
      BY <1>1 DEF Claimed
    <3> QED BY <1>0, <1>4, <3>1, FS_AddElement
  <2>5. Cardinality(Claimed') \in Nat
    BY <1>0, <2>4
  <2>6. RestDue(rec') <=> /\ \E q \in Recipients : rec'[q] = "pending"
                          /\ Cardinality(Claimed') % BatchSize = 0
    BY DEF RestDue, ClaimedCount, Claimed
  <2>7. camp'.cooling <=> /\ \E q \in Recipients : rec'[q] = "pending"
                          /\ WholeBatches(Cardinality(Claimed'))
    BY <2>2, <2>5, <2>6, WholeIsNoRemainder
  <2>8. /\ batch <= c /\ WholeBatches(c - batch) /\ batch <= BatchSize
        /\ batch = BatchSize => \A q \in Recipients : rec[q] # "pending"
    BY <2>1, <2>2 DEF RestKept
  <2>9. CASE rec[r] = "pending"
    <3>1. /\ Cardinality(Claimed') = c + 1 /\ batch' = batch + 1 /\ batch # BatchSize
      BY <2>2, <2>4, <2>8, <2>9
    <3>2. (c + 1) - (batch + 1) = c - batch
      BY <1>0
    <3>3. batch' <= Cardinality(Claimed') /\ batch' <= BatchSize
      BY <1>0, <2>8, <3>1
    <3>4. ASSUME batch' = BatchSize PROVE WholeBatches(Cardinality(Claimed'))
      <4>1. c - batch \in Nat /\ (c - batch) + BatchSize = c + 1
        BY <1>0, <2>8, <3>1, <3>4
      <4> QED BY <2>8, <3>1, <4>1, OneBatchMore
    <3>5. WholeBatches(Cardinality(Claimed') - batch')
      BY <2>8, <3>1, <3>2
    <3>6. batch' = BatchSize => camp'.cooling \/ \A q \in Recipients : rec'[q] # "pending"
      BY <2>7, <3>4
    <3>7. camp'.cooling => WholeBatches(Cardinality(Claimed'))
      BY <2>7
    <3> QED BY <2>1, <2>3, <3>3, <3>5, <3>6, <3>7 DEF RestKept, WholeBatches
  <2>10. CASE rec[r] = "preparing"
    <3>1. Cardinality(Claimed') = c /\ batch' = batch /\ \A q \in Recipients : rec'[q] = rec[q]
      BY <1>0, <2>2, <2>4, <2>10
    <3>2. camp'.cooling => WholeBatches(Cardinality(Claimed'))
      BY <2>7
    <3>3. /\ batch' <= Cardinality(Claimed') /\ WholeBatches(Cardinality(Claimed') - batch')
          /\ batch' <= BatchSize
          /\ batch' = BatchSize => \A q \in Recipients : rec'[q] # "pending"
      BY <2>8, <3>1
    <3> QED BY <2>1, <2>3, <3>2, <3>3 DEF RestKept, WholeBatches
  <2> QED BY <1>1, <2>9, <2>10
<1> QED BY <1>5, <1>6 DEF RestInv

LEMMA PumpRests ==
  ASSUME TypeOK, RestInv, NEW p \in Pumps,
         \/ Tick(p) \/ NoClaim(p) \/ CreateMessage(p) \/ LinkMessage(p) \/ Tally(p) \/ PumpStops(p)
  PROVE  RestInv'
<1>0. /\ rec \in [Recipients -> RecStatuses] /\ pump \in PumpType /\ camp \in CampType
  BY DEF TypeOK, PumpType, CampType
<1>1. UNCHANGED <<optedIn, leftOut, batch>>
  BY DEF Tick, NoClaim, CreateMessage, LinkMessage, Tally, PumpStops, peopleVars, recVars
<1>2. camp'.cooling = camp.cooling
  BY <1>0 DEF Tick, NoClaim, CreateMessage, LinkMessage, Tally, PumpStops, CampType
<1>3. \A q \in Pumps : \/ pump'[q] = pump[q] \/ pump'[q].pc \notin {"send", "link"}
                       \/ pump'[q].who = pump[q].who /\ pump[q].pc \in {"send", "link"}
  <2>1. \/ \E pc \in {"claim", "tally", "idle"} : pump' = [pump EXCEPT ![p] = At(pc, NoOne)]
        \/ pump[p].pc = "send" /\ pump' = [pump EXCEPT ![p] = At("link", pump[p].who)]
    BY DEF Tick, NoClaim, CreateMessage, LinkMessage, Tally, PumpStops
  <2>2. CASE \E pc \in {"claim", "tally", "idle"} : pump' = [pump EXCEPT ![p] = At(pc, NoOne)]
    BY <1>0, <2>2 DEF PumpType, At
  <2>3. CASE pump[p].pc = "send" /\ pump' = [pump EXCEPT ![p] = At("link", pump[p].who)]
    BY <1>0, <2>3 DEF PumpType, At
  <2> QED BY <2>1, <2>2, <2>3
<1>4. \/ rec' = rec
      \/ /\ pump[p].pc \in {"send", "link"}
         /\ \E s \in {"failed", "queued"} : rec' = [rec EXCEPT ![pump[p].who] = s]
  BY DEF Tick, NoClaim, CreateMessage, LinkMessage, Tally, PumpStops, recVars
<1>5. pump[p].pc \in {"send", "link"} => pump[p].who \in Claimed
  BY DEF RestInv, BusyIsClaimed
<1>6. rec' \in [Recipients -> RecStatuses]
  BY <1>0, <1>4 DEF RecStatuses
<1>7. \A r \in Recipients : \/ rec'[r] = rec[r]
                            \/ r \in Claimed /\ rec'[r] \notin {"absent", "pending"}
  BY <1>0, <1>4, <1>5 DEF RecStatuses, Claimed
<1> QED BY <1>1, <1>2, <1>3, <1>6, <1>7, RestQuiet

LEMMA RestStep ==
  ASSUME IsFiniteSet(Recipients)
  PROVE  TypeOK /\ RestInv /\ [Next]_vars => RestInv'
<1> SUFFICES ASSUME TypeOK, RestInv, [Next]_vars
             PROVE  RestInv'
  OBVIOUS
<1>0. rec \in [Recipients -> RecStatuses] /\ camp \in CampType /\ Cardinality(Claimed) \in Nat
  BY ClaimedIsFinite DEF TypeOK, CampType
<1>1. ASSUME UNCHANGED <<rec, batch, pump, optedIn, leftOut>>, camp'.cooling = camp.cooling
      PROVE  RestInv'
  BY <1>0, <1>1, RestQuiet
<1>2. ASSUME NEW p \in Pumps, Pumping(p) \/ PumpStops(p) PROVE RestInv'
  BY <1>2, ClaimRests, PumpRests DEF Pumping
<1>3. ASSUME NEW r \in Recipients, Dispatching(r) PROVE RestInv'
  <2>1. UNCHANGED <<rec, batch, pump, optedIn, leftOut>>
    BY <1>3 DEF Dispatching, Cancel, Dispatch, Confirm, Receipt, ResetFailures, CallFails, CountFailure,
                recVars, peopleVars
  <2>2. camp'.cooling = camp.cooling
    BY <1>0, <1>3 DEF Dispatching, Cancel, Dispatch, Confirm, Receipt, ResetFailures, CallFails,
                      CountFailure, CampType
  <2> QED BY <1>1, <2>1, <2>2
<1>4. ASSUME NEW r \in Recipients, ChangeConsent(r) PROVE RestInv'
  <2>1. leftOut' # {} /\ leftOut \subseteq leftOut' /\ UNCHANGED <<rec, batch, pump, camp>>
    BY <1>4 DEF ChangeConsent, recVars
  <2> QED BY <1>0, <2>1, RestQuiet
<1>5. ASSUME NEW r \in Recipients, Rename(r) PROVE RestInv'
  BY <1>1, <1>5 DEF Rename, recVars
<1>6. ASSUME NEW s \in {"paused", "stopped"}, HaltCampaign(s) PROVE RestInv'
  BY <1>0, <1>1, <1>6 DEF HaltCampaign, recVars, peopleVars, CampType
<1>7. CASE CooldownOver
  <2>1. /\ batch' = 0 /\ camp.cooling /\ ~camp'.cooling /\ Claimed' = Claimed
        /\ UNCHANGED <<rec, pump, optedIn, leftOut>>
    BY <1>0, <1>7 DEF CooldownOver, peopleVars, CampType, Claimed
  <2>2. BusyIsClaimed'
    BY <2>1 DEF RestInv, BusyIsClaimed
  <2>3. ASSUME leftOut' = {} PROVE RestKept'
    <3>1. RestKept /\ WholeBatches(Cardinality(Claimed))
      BY <2>1, <2>3 DEF RestInv, RestKept
    <3>2. Cardinality(Claimed) - 0 = Cardinality(Claimed) /\ BatchSize \in Nat \ {0}
      BY <1>0, CampaignAssumption
    <3> QED BY <1>0, <2>1, <3>1, <3>2 DEF RestKept, WholeBatches
  <2> QED BY <2>2, <2>3 DEF RestInv
<1>8. CASE PauseOver \/ PaceOver \/ \E r \in Recipients : ClaimAges(r)
  BY <1>0, <1>1, <1>8 DEF PauseOver, PaceOver, ClaimAges, recVars, peopleVars, CampType
<1>9. CASE UNCHANGED vars
  BY <1>1, <1>9 DEF vars, recVars, peopleVars
<1> QED BY <1>2, <1>3, <1>4, <1>5, <1>6, <1>7, <1>8, <1>9, StartRests DEF Next, People, Clock

(* A broadcast rests after each batch: as long as nobody opted out, no     *)
(* more than one batch is claimed between two cooldowns, whichever of the  *)
(* processes claim, stop or take a claim over (claimRecipient).            *)
THEOREM BatchesRestHolds ==
  ASSUME IsFiniteSet(Recipients)
  PROVE  Spec => []BatchesRest
<1>1. Init => RestInv
  <2> SUFFICES ASSUME Init PROVE RestInv
    OBVIOUS
  <2>1. Claimed = {} /\ \A r \in Recipients : rec[r] = "absent"
    BY DEF Init, Claimed
  <2>2. Cardinality(Claimed) = 0 /\ BatchSize \in Nat \ {0}
    BY <2>1, FS_EmptySet, CampaignAssumption
  <2>3. ~camp.cooling /\ batch = 0 /\ optedIn = Recipients /\ \A p \in Pumps : pump[p].pc = "idle"
    BY DEF Init, At
  <2>4. 0 - 0 = 0
    OBVIOUS
  <2> QED BY <2>1, <2>2, <2>3, <2>4, NoBatch DEF RestInv, RestKept, BusyIsClaimed
<1>2. RestInv => BatchesRest
  BY DEF RestInv, RestKept, BatchesRest
<1> QED BY <1>1, <1>2, TypeCorrect, RestStep, PTL DEF Spec
=============================================================================
