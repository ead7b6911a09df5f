------------------------ MODULE WebhookDeliveryProofs ------------------------
(***************************************************************************)
(* Proofs about WebhookDelivery, for any number of processes, deliveries   *)
(* and attempts, wherever a process stops.                                 *)
(***************************************************************************)
EXTENDS WebhookDelivery, FiniteSetTheorems, WellFoundedInduction, TLAPS

LEMMA HasLeast ==
  ASSUME NEW S \in SUBSET Nat, S # {}
  PROVE  \E d \in S : \A e \in S : d <= e
<1>1. PICK d \in S : \A e \in S : ~(<<e, d>> \in OpToRel(<, Nat))
  BY NatLessThanWellFounded, WFMin, Zenon
<1>2. \A e \in S : ~(e < d)
  BY <1>1, Zenon DEF OpToRel
<1> QED BY <1>2

LEMMA LeastIsMember == ASSUME NEW S \in SUBSET Nat, S # {} PROVE Least(S) \in S
  BY HasLeast DEF Least

Pcs == {"idle", "claim", "next", "post", "done", "error"}
PumpType == [pc : Pcs, todo : SUBSET Deliveries, taken : [Deliveries -> Nat]]

LEMMA IdleType == Idle \in PumpType /\ Idle.pc = "idle" /\ Idle.todo = {}
  BY DEF Idle, PumpType, Pcs

LEMMA PumpFacts ==
  ASSUME TypeOK, NEW w \in Workers
  PROVE  /\ pump[w] \in PumpType
         /\ \A p : [pump EXCEPT ![w] = p][w] = p
         /\ \A p : \A v \in Workers \ {w} : [pump EXCEPT ![w] = p][v] = pump[v]
         /\ \A p \in PumpType : [pump EXCEPT ![w] = p] \in [Workers -> PumpType]
  BY DEF TypeOK, PumpType, Pcs

(* Goto changes where a pump is and nothing else.                          *)
LEMMA GotoFacts ==
  ASSUME TypeOK, NEW w \in Workers, NEW pc \in Pcs, Goto(w, pc)
  PROVE  /\ pump' \in [Workers -> PumpType]
         /\ pump'[w].pc = pc /\ pump'[w].todo = pump[w].todo /\ pump'[w].taken = pump[w].taken
         /\ \A v \in Workers \ {w} : pump'[v] = pump[v]
  BY DEF TypeOK, PumpType, Pcs, Goto

(* What a pump goes on with when the delivery in hand is settled.          *)
LEMMA FollowingFacts ==
  ASSUME TypeOK, NEW w \in Workers, NEW d \in pump[w].todo
  PROVE  /\ Following(w, d) \in PumpType
         /\ Following(w, d).todo = pump[w].todo \ {d}
         /\ \/ Following(w, d).todo = {} /\ Following(w, d).pc = "idle"
            \/ /\ Following(w, d).todo # {} /\ Following(w, d).pc = "next"
               /\ Following(w, d).taken = pump[w].taken
<1>1. pump[w] \in PumpType
  BY PumpFacts
<1>2. CASE pump[w].todo = {d}
  BY <1>2, IdleType DEF Following
<1>3. CASE pump[w].todo # {d}
  <2>1. Following(w, d) = [pump[w] EXCEPT !.pc = "next", !.todo = pump[w].todo \ {d}]
    BY <1>3 DEF Following
  <2>2. /\ Following(w, d).pc = "next" /\ Following(w, d).todo = pump[w].todo \ {d}
        /\ Following(w, d).taken = pump[w].taken
        /\ Following(w, d) \in PumpType
    BY <1>1, <2>1 DEF PumpType, Pcs
  <2>3. pump[w].todo \ {d} # {}
    BY <1>3
  <2> QED BY <2>2, <2>3
<1> QED BY <1>2, <1>3

-----------------------------------------------------------------------------
(* What a claim takes, and what it leaves in the pump.                     *)
Batch == Lowest({d \in Deliveries : Claimable(d)}, BatchLimit)

LEMMA BatchFacts ==
  ASSUME TypeOK
  PROVE  /\ Batch \subseteq Deliveries
         /\ \A d \in Batch : attempts[d] < MaxAttempts
  BY DEF Batch, Lowest, Claimable

Claims == [pc |-> "next", todo |-> Batch,
           taken |-> [d \in Deliveries |-> IF d \in Batch THEN attempts'[d] ELSE 0]]

LEMMA ClaimFacts ==
  ASSUME TypeOK, NEW w \in Workers, Claim(w)
  PROVE  /\ pump[w].pc = "claim"
         /\ attempts' \in [Deliveries -> Nat]
         /\ status' = [d \in Deliveries |-> IF d \in Batch THEN "processing" ELSE status[d]]
         /\ \A d \in Deliveries :
              attempts'[d] = IF d \in Batch THEN attempts[d] + 1 ELSE attempts[d]
         /\ due' = due \ Batch
         /\ \/ Batch = {} /\ pump' = [pump EXCEPT ![w] = Idle]
            \/ /\ Batch # {} /\ pump' = [pump EXCEPT ![w] = Claims]
               /\ Claims \in PumpType /\ Claims.pc = "next" /\ Claims.todo = Batch
               /\ \A d \in Batch : Claims.taken[d] = attempts[d] + 1
<1>1. /\ pump[w].pc = "claim"
      /\ status' = [d \in Deliveries |-> IF d \in Batch THEN "processing" ELSE status[d]]
      /\ attempts' = [d \in Deliveries |-> IF d \in Batch THEN attempts[d] + 1 ELSE attempts[d]]
      /\ due' = due \ Batch
      /\ pump' = [pump EXCEPT ![w] = IF Batch = {} THEN Idle ELSE Claims]
  BY DEF Claim, At, Batch, Counted, Claims
<1>2. /\ attempts' \in [Deliveries -> Nat]
      /\ \A d \in Deliveries : attempts'[d] = IF d \in Batch THEN attempts[d] + 1 ELSE attempts[d]
  BY <1>1 DEF TypeOK
<1>3. Claims \in PumpType /\ Claims.pc = "next" /\ Claims.todo = Batch
  BY <1>2, BatchFacts DEF Claims, PumpType, Pcs
<1>4. \A d \in Batch : Claims.taken[d] = attempts[d] + 1
  BY <1>2, BatchFacts DEF Claims
<1> QED BY <1>1, <1>2, <1>3, <1>4

-----------------------------------------------------------------------------
(* A pump has deliveries in hand exactly while it is delivering.           *)
Busy(p) == p.pc \in {"idle", "claim"} <=> p.todo = {}

LEMMA InHandFacts ==
  ASSUME TypeOK, NEW w \in Workers, Busy(pump[w]), pump[w].pc \notin {"idle", "claim"}
  PROVE  Current(w) \in pump[w].todo /\ Current(w) \in Deliveries
<1>1. pump[w].todo \in SUBSET Nat /\ pump[w].todo # {} /\ pump[w].todo \subseteq Deliveries
  BY PumpFacts, WebhookAssumption DEF Busy, PumpType
<1> QED BY <1>1, LeastIsMember DEF Current

BusyInv == \A w \in Workers : Busy(pump[w])

(* Types and hands together: which pump does what.                         *)
LEMMA TypeNext == ASSUME TypeOK, BusyInv, [Next]_vars PROVE TypeOK' /\ BusyInv'
<1>0. ASSUME pump' \in [Workers -> PumpType], UNCHANGED <<rowVars, enabled, posts>>, stops' \in Nat
      PROVE  TypeOK'
  BY <1>0 DEF TypeOK, PumpType, Pcs, rowVars
<1>1. CASE UNCHANGED vars
  BY <1>1 DEF vars, rowVars, TypeOK, BusyInv
<1>2. ASSUME NEW d \in Deliveries, Record(d) \/ RetryDue(d) PROVE TypeOK' /\ BusyInv'
  BY <1>2 DEF Record, RetryDue, TypeOK, BusyInv, Waiting
<1>3. CASE DisableEndpoint
  BY <1>3 DEF DisableEndpoint, rowVars, TypeOK, BusyInv
<1>4. ASSUME NEW w \in Workers, PumpWebhooks(w) \/ PumpStops(w) PROVE TypeOK' /\ BusyInv'
  <2> USE PumpFacts, GotoFacts
  <2>0. Busy(pump[w]) /\ \A v \in Workers \ {w} : Busy(pump[v])
    BY DEF BusyInv
  <2>1. CASE Sweep(w)
    <3>1. pump' \in [Workers -> PumpType] /\ BusyInv'
      BY <2>0, <2>1 DEF Sweep, At, Pcs, Busy, BusyInv
    <3>2. status' \in [Deliveries -> Waiting \cup {"none", "delivered", "failed"}]
      BY <2>1 DEF Sweep, TypeOK
    <3> QED BY <2>1, <3>1, <3>2 DEF Sweep, TypeOK, PumpType, Pcs
  <2>2. CASE Claim(w)
    <3>1. pump' \in [Workers -> PumpType] /\ BusyInv'
      BY <2>0, <2>2, ClaimFacts, IdleType DEF Busy, BusyInv
    <3>2. status' \in [Deliveries -> Waiting \cup {"none", "delivered", "failed"}]
      BY <2>2, ClaimFacts DEF TypeOK, Waiting
    <3>3. attempts' \in [Deliveries -> Nat] /\ due' \subseteq Deliveries
      BY <2>2, ClaimFacts DEF TypeOK
    <3> QED BY <2>2, <3>1, <3>2, <3>3 DEF Claim, TypeOK, PumpType, Pcs
  <2>3. CASE CheckEndpoint(w)
    <3>1. pump' \in [Workers -> PumpType] /\ BusyInv'
      BY <2>0, <2>3 DEF CheckEndpoint, At, Pcs, Busy, BusyInv
    <3> QED BY <1>0, <2>3, <3>1 DEF CheckEndpoint, TypeOK
  <2>4. CASE Post(w)
    <3>1. pump' \in [Workers -> PumpType] /\ BusyInv'
      BY <2>0, <2>4 DEF Post, At, Pcs, Busy, BusyInv
    <3>2. posts' \in [Deliveries -> Nat]
      BY <2>4 DEF Post, TypeOK
    <3> QED BY <2>4, <3>1, <3>2 DEF Post, TypeOK, PumpType, Pcs, rowVars
  <2>5. CASE Delivered(w) \/ Failed(w)
    <3>1. Current(w) \in pump[w].todo /\ Current(w) \in Deliveries
      BY <2>0, <2>5, InHandFacts DEF Delivered, Failed, At
    <3>2. pump' = [pump EXCEPT ![w] = Following(w, Current(w))]
      BY <2>5 DEF Delivered, Failed
    <3>3. pump' \in [Workers -> PumpType] /\ BusyInv'
      BY <2>0, <3>1, <3>2, FollowingFacts DEF Busy, BusyInv
    <3>4. status' \in [Deliveries -> Waiting \cup {"none", "delivered", "failed"}]
      BY <2>5, <3>1 DEF Delivered, Failed, FailureStatus, TypeOK, Waiting
    <3>5. due' \subseteq Deliveries /\ UNCHANGED <<attempts, enabled, posts, stops>>
      BY <2>5 DEF Delivered, Failed, TypeOK
    <3> QED BY <3>3, <3>4, <3>5 DEF TypeOK, PumpType, Pcs
  <2>6. CASE PumpStops(w)
    <3>1. pump' \in [Workers -> PumpType] /\ BusyInv'
      <4>1. CASE pump' = [pump EXCEPT ![w] = Idle]
        BY <2>0, <4>1, IdleType DEF Busy, BusyInv
      <4>2. CASE At(w, "done") /\ Goto(w, "error")
        BY <2>0, <4>2 DEF At, Pcs, Busy, BusyInv
      <4> QED BY <2>6, <4>1, <4>2 DEF PumpStops
    <3>2. stops' \in Nat
      BY <2>6 DEF PumpStops, TypeOK
    <3> QED BY <1>0, <2>6, <3>1, <3>2 DEF PumpStops
  <2> QED BY <1>4, <2>1, <2>2, <2>3, <2>4, <2>5, <2>6 DEF PumpWebhooks
<1> QED BY <1>1, <1>2, <1>3, <1>4 DEF Next

LEMMA TypeInit == Init => TypeOK /\ BusyInv
<1> SUFFICES ASSUME Init PROVE TypeOK /\ BusyInv
  OBVIOUS
<1>1. pump \in [Workers -> PumpType] /\ BusyInv
  BY IdleType DEF Init, BusyInv, Busy
<1> QED BY <1>1 DEF Init, TypeOK, PumpType, Pcs

(* Statuses, attempts and pumps stay in their ranges.                      *)
THEOREM TypeCorrect == Spec => [](TypeOK /\ BusyInv)
<1> QED BY TypeInit, TypeNext, PTL DEF Spec

-----------------------------------------------------------------------------
(* A step of one pump, seen from the pumps: every other stands, and this   *)
(* one drops deliveries, or has just claimed.                              *)
LEMMA PumpStep ==
  ASSUME TypeOK, BusyInv, NEW w \in Workers, PumpWebhooks(w) \/ PumpStops(w)
  PROVE  /\ \A v \in Workers \ {w} : pump'[v] = pump[v]
         /\ \/ UNCHANGED attempts /\ pump'[w].todo = {}
            \/ /\ UNCHANGED attempts /\ pump'[w].todo \subseteq pump[w].todo
               /\ pump'[w].taken = pump[w].taken
            \/ Claim(w)
<1> USE PumpFacts, GotoFacts, IdleType
<1>0. Busy(pump[w])
  BY DEF BusyInv
<1>1. CASE Claim(w)
  BY <1>1, ClaimFacts
<1>2. CASE Sweep(w) \/ CheckEndpoint(w) \/ Post(w)
  BY <1>2 DEF Sweep, CheckEndpoint, Post, Pcs, rowVars
<1>3. CASE Delivered(w) \/ Failed(w)
  <2>1. Current(w) \in pump[w].todo
    BY <1>0, <1>3, InHandFacts DEF Delivered, Failed, At
  <2>2. pump' = [pump EXCEPT ![w] = Following(w, Current(w))] /\ UNCHANGED attempts
    BY <1>3 DEF Delivered, Failed
  <2>3. pump'[w] = Following(w, Current(w))
    BY <2>2
  <2> QED BY <2>1, <2>2, <2>3, FollowingFacts
<1>4. CASE PumpStops(w)
  BY <1>4 DEF PumpStops, Pcs, rowVars
<1> QED BY <1>1, <1>2, <1>3, <1>4 DEF PumpWebhooks

TakenInv == \A w \in Workers : \A d \in pump[w].todo : pump[w].taken[d] <= attempts[d]

(* A new claim is the attempt after every attempt that was taken before.   *)
LEMMA OwnedNext ==
  ASSUME TypeOK, BusyInv, TakenInv, AttemptsAreOwned, [Next]_vars
  PROVE  TakenInv' /\ AttemptsAreOwned'
<1>0. /\ \A w \in Workers : pump[w].todo \subseteq Deliveries
      /\ \A w \in Workers : \A d \in Deliveries : pump[w].taken[d] \in Nat
      /\ \A d \in Deliveries : attempts[d] \in Nat
  BY PumpFacts DEF PumpType, TypeOK
<1>1. CASE UNCHANGED <<pump, attempts>>
  BY <1>1 DEF TakenInv, AttemptsAreOwned
<1>2. ASSUME NEW w \in Workers, PumpWebhooks(w) \/ PumpStops(w)
      PROVE  TakenInv' /\ AttemptsAreOwned'
  <2>0. \A v \in Workers \ {w} : pump'[v] = pump[v]
    BY <1>2, PumpStep
  <2>1. CASE UNCHANGED attempts /\ pump'[w].todo = {}
    BY <2>0, <2>1 DEF TakenInv, AttemptsAreOwned
  <2>2. CASE /\ UNCHANGED attempts /\ pump'[w].todo \subseteq pump[w].todo
             /\ pump'[w].taken = pump[w].taken
    <3>1. \A v \in Workers : /\ pump'[v].todo \subseteq pump[v].todo
                            /\ pump'[v].taken = pump[v].taken
      BY <2>0, <2>2
    <3> QED BY <2>2, <3>1 DEF TakenInv, AttemptsAreOwned
  <2>3. CASE Claim(w) /\ pump'[w] = Claims /\ Batch # {}
    <3>1. /\ pump'[w].todo = Batch
          /\ \A d \in Batch : d \in Deliveries /\ pump'[w].taken[d] = attempts[d] + 1
          /\ \A d \in Deliveries : attempts'[d] >= attempts[d]
          /\ \A d \in Batch : attempts'[d] = attempts[d] + 1
      <4>1. Claims.todo = Batch /\ \A d \in Batch : Claims.taken[d] = attempts[d] + 1
        BY <2>3, ClaimFacts
      <4>2. \A d \in Deliveries :
              attempts'[d] = IF d \in Batch THEN attempts[d] + 1 ELSE attempts[d]
        BY <2>3, ClaimFacts
      <4> QED BY <1>0, <2>3, <4>1, <4>2, BatchFacts
    <3>2. \A v \in Workers \ {w} : \A d \in pump'[v].todo :
            d \in Deliveries /\ pump'[v].taken[d] \in Nat /\ pump'[v].taken[d] <= attempts[d]
      BY <1>0, <2>0 DEF TakenInv
    <3>3. TakenInv'
      BY <1>0, <3>1, <3>2, TypeNext DEF TakenInv, TypeOK
    <3>4. ASSUME NEW u \in Workers, NEW v \in Workers, NEW d \in pump'[u].todo \cap pump'[v].todo,
                 pump'[u].taken[d] = pump'[v].taken[d]
          PROVE  u = v
      <4>1. CASE u = w \/ v = w
        BY <1>0, <3>1, <3>2, <3>4, <4>1
      <4>2. CASE u # w /\ v # w
        BY <2>0, <3>4, <4>2 DEF AttemptsAreOwned
      <4> QED BY <4>1, <4>2
    <3> QED BY <3>3, <3>4 DEF AttemptsAreOwned
  <2>4. Claim(w) =>
          \/ Batch # {} /\ pump'[w] = Claims
          \/ UNCHANGED attempts /\ pump'[w].todo = {}
    <3> SUFFICES ASSUME Claim(w), Batch = {} \/ pump'[w] # Claims
                 PROVE  UNCHANGED attempts /\ pump'[w].todo = {}
      BY ClaimFacts, PumpFacts
    <3>1. Batch = {} /\ pump'[w] = Idle
      BY ClaimFacts, PumpFacts
    <3>2. \A d \in Deliveries : attempts'[d] = attempts[d]
      BY <3>1, ClaimFacts
    <3>3. attempts' \in [Deliveries -> Nat] /\ attempts \in [Deliveries -> Nat]
      BY ClaimFacts DEF TypeOK
    <3> QED BY <3>1, <3>2, <3>3, IdleType
  <2> QED BY <1>2, <2>1, <2>2, <2>3, <2>4, PumpStep
<1> QED
  BY <1>1, <1>2 DEF Next, Record, RetryDue, DisableEndpoint, vars, rowVars

LEMMA OwnedInit == Init => TakenInv /\ AttemptsAreOwned
<1> SUFFICES ASSUME Init PROVE \A w \in Workers : pump[w].todo = {}
  BY DEF TakenInv, AttemptsAreOwned
<1> QED BY IdleType DEF Init

(* Two processes never work on the same attempt, even if one of them takes *)
(* over what the other still holds.                                        *)
THEOREM AttemptsAreOwnedHolds == Spec => [](TakenInv /\ AttemptsAreOwned)
<1>1. TypeOK /\ BusyInv /\ TakenInv /\ AttemptsAreOwned /\ [Next]_vars
        => TakenInv' /\ AttemptsAreOwned'
  BY OwnedNext
<1> QED BY <1>1, OwnedInit, TypeCorrect, PTL DEF Spec

-----------------------------------------------------------------------------
LEMMA AttemptsRise ==
  ASSUME TypeOK, BusyInv, [Next]_vars, NEW d \in Deliveries
  PROVE  attempts'[d] \in Nat /\ attempts'[d] >= attempts[d]
<1>0. attempts[d] \in Nat
  BY DEF TypeOK
<1>1. CASE UNCHANGED attempts
  BY <1>0, <1>1
<1>2. ASSUME NEW w \in Workers, PumpWebhooks(w) \/ PumpStops(w)
      PROVE  attempts'[d] \in Nat /\ attempts'[d] >= attempts[d]
  <2>1. CASE Claim(w)
    BY <1>0, <2>1, ClaimFacts
  <2> QED BY <1>1, <1>2, <2>1, PumpStep
<1> QED
  BY <1>1, <1>2 DEF Next, Record, RetryDue, DisableEndpoint, vars, rowVars

LEMMA FailedNext ==
  ASSUME TypeOK, BusyInv, TakenInv, FailedIsSpent, [Next]_vars
  PROVE  FailedIsSpent'
<1> SUFFICES ASSUME NEW d \in Deliveries, status'[d] = "failed"
             PROVE  attempts[d] >= MaxAttempts
  BY AttemptsRise, WebhookAssumption DEF FailedIsSpent, TypeOK
<1>1. CASE status[d] = "failed"
  BY <1>1 DEF FailedIsSpent
<1>2. ASSUME NEW w \in Workers, PumpWebhooks(w), status[d] # "failed"
      PROVE  attempts[d] >= MaxAttempts
  <2>1. CASE Sweep(w)
    BY <1>2, <2>1 DEF Sweep, Swept
  <2>2. CASE Claim(w)
    BY <1>2, <2>2, ClaimFacts
  <2>3. CASE CheckEndpoint(w) \/ Post(w)
    BY <1>2, <2>3 DEF CheckEndpoint, Post, rowVars
  <2>4. CASE Delivered(w)
    BY <1>2, <2>4 DEF Delivered, TypeOK
  <2>5. CASE Failed(w)
    <3>1. Current(w) \in pump[w].todo /\ Current(w) \in Deliveries
      BY <2>5, InHandFacts DEF BusyInv, Failed, At
    <3>2. status' = [status EXCEPT ![Current(w)] = FailureStatus(pump[w].taken[Current(w)])]
      BY <2>5 DEF Failed
    <3>3. d = Current(w) /\ FailureStatus(pump[w].taken[d]) = "failed"
      BY <1>2, <3>1, <3>2 DEF TypeOK
    <3>4. pump[w].taken[d] >= MaxAttempts
      BY <3>3 DEF FailureStatus
    <3>5. pump[w].taken[d] <= attempts[d]
      BY <3>1, <3>3 DEF TakenInv
    <3>6. pump[w].taken[d] \in Nat /\ attempts[d] \in Nat /\ MaxAttempts \in Nat
      BY PumpFacts, WebhookAssumption DEF PumpType, TypeOK
    <3> QED BY <3>4, <3>5, <3>6
  <2> QED BY <1>2, <2>1, <2>2, <2>3, <2>4, <2>5 DEF PumpWebhooks
<1>3. ASSUME NEW w \in Workers, PumpStops(w) PROVE status'[d] = status[d]
  BY <1>3 DEF PumpStops, rowVars
<1>4. ASSUME NEW e \in Deliveries, Record(e) \/ RetryDue(e) PROVE status[d] = "failed"
  BY <1>4 DEF Record, RetryDue, TypeOK
<1>5. CASE DisableEndpoint \/ UNCHANGED vars
  BY <1>1, <1>5 DEF DisableEndpoint, vars, rowVars
<1> QED BY <1>1, <1>2, <1>3, <1>4, <1>5 DEF Next

(* A delivery is given up only when its attempts are used up, also when    *)
(* the outcome is written by a process that was overtaken.                 *)
THEOREM FailedIsSpentHolds == Spec => []FailedIsSpent
<1>1. Init => FailedIsSpent
  BY DEF Init, FailedIsSpent
<1>2. TypeOK /\ BusyInv /\ TakenInv /\ FailedIsSpent /\ [Next]_vars => FailedIsSpent'
  BY FailedNext
<1> QED BY <1>1, <1>2, TypeCorrect, AttemptsAreOwnedHolds, PTL DEF Spec

-----------------------------------------------------------------------------
(* Counting the pumps that have still to post a delivery: a step changes   *)
(* whether one of them does.                                               *)
LEMMA SplitHolder ==
  ASSUME NEW H \in SUBSET Workers, NEW w \in Workers
  PROVE  /\ Cardinality(H \ {w}) \in Nat
         /\ Cardinality(H) = Cardinality(H \ {w}) + (IF w \in H THEN 1 ELSE 0)
<1>1. IsFiniteSet(H)
  BY FS_Subset, WebhookAssumption
<1>2. IsFiniteSet(H \ {w}) /\ Cardinality(H \ {w}) =
        IF w \in H THEN Cardinality(H) - 1 ELSE Cardinality(H)
  BY <1>1, FS_RemoveElement
<1>3. Cardinality(H) \in Nat /\ Cardinality(H \ {w}) \in Nat
  BY <1>1, <1>2, FS_CardinalityType
<1> QED BY <1>2, <1>3

UnpostedIn(p) == {d \in p.todo : p.pc \in {"next", "post"} \/ d # Least(p.todo)}

LEMMA HoldersStep ==
  ASSUME NEW w \in Workers, NEW d \in Deliveries,
         \A v \in Workers \ {w} : pump'[v] = pump[v]
  PROVE  /\ Holders(d)' \ {w} = Holders(d) \ {w}
         /\ w \in Holders(d) <=> d \in UnpostedIn(pump[w])
         /\ w \in Holders(d)' <=> d \in UnpostedIn(pump'[w])
<1>1. /\ Holders(d) = {v \in Workers : d \in UnpostedIn(pump[v])}
      /\ Holders(d)' = {v \in Workers : d \in UnpostedIn(pump'[v])}
  BY DEF Holders, Unposted, UnpostedIn, Current
<1> QED BY <1>1

(* What a pump has still to post, before and after a step of its own.      *)
LEMMA UnpostedStep ==
  ASSUME TypeOK, BusyInv, NEW w \in Workers, PumpWebhooks(w) \/ PumpStops(w), NEW d \in Deliveries
  PROVE  \/ /\ attempts'[d] = attempts[d] /\ posts'[d] = posts[d]
            /\ d \in UnpostedIn(pump'[w]) => d \in UnpostedIn(pump[w])
         \/ /\ attempts'[d] = attempts[d] /\ posts'[d] = posts[d] + 1
            /\ d \in UnpostedIn(pump[w]) /\ d \notin UnpostedIn(pump'[w])
         \/ /\ attempts'[d] = attempts[d] + 1 /\ posts'[d] = posts[d]
            /\ attempts[d] < MaxAttempts
            /\ d \notin UnpostedIn(pump[w])
<1> DEFINE Same == /\ attempts'[d] = attempts[d] /\ posts'[d] = posts[d]
                   /\ d \in UnpostedIn(pump'[w]) => d \in UnpostedIn(pump[w])
<1> USE PumpFacts, GotoFacts
<1>0. Busy(pump[w])
  BY DEF BusyInv
<1>1. CASE Sweep(w) \/ CheckEndpoint(w)
  <2>1. /\ UNCHANGED <<attempts, posts>> /\ pump'[w].todo = pump[w].todo
        /\ pump[w].todo = {} \/ pump[w].pc = "next"
    BY <1>0, <1>1 DEF Sweep, CheckEndpoint, At, Pcs, rowVars, Busy
  <2> QED BY <2>1 DEF UnpostedIn
<1>2. CASE Claim(w)
  <2>1. /\ attempts'[d] = IF d \in Batch THEN attempts[d] + 1 ELSE attempts[d]
        /\ posts'[d] = posts[d] /\ pump[w].todo = {}
        /\ d \in Batch => attempts[d] < MaxAttempts
        /\ pump'[w].todo \subseteq Batch
    <3>1. pump'[w].todo \subseteq Batch
      BY <1>2, ClaimFacts, IdleType
    <3> QED BY <1>0, <1>2, <3>1, ClaimFacts, BatchFacts DEF Claim, Busy
  <2> QED BY <2>1 DEF UnpostedIn
<1>3. CASE Post(w)
  <2>1. /\ UNCHANGED attempts /\ pump[w].pc = "post" /\ pump'[w].pc \in {"done", "error"}
        /\ pump'[w].todo = pump[w].todo
        /\ posts' = posts \/ posts' = [posts EXCEPT ![Current(w)] = @ + 1]
    BY <1>3 DEF Post, At, Pcs, rowVars
  <2>2. Current(w) \in pump[w].todo /\ Current(w) \in Deliveries
        /\ Current(w) = Least(pump[w].todo)
    BY <1>0, <2>1, InHandFacts DEF Current
  <2>3. /\ UnpostedIn(pump[w]) = pump[w].todo
        /\ UnpostedIn(pump'[w]) = pump[w].todo \ {Current(w)}
    BY <2>1, <2>2 DEF UnpostedIn
  <2>4. CASE d = Current(w)
    BY <2>1, <2>2, <2>3, <2>4 DEF TypeOK
  <2>5. CASE d # Current(w)
    BY <2>1, <2>2, <2>3, <2>5 DEF TypeOK
  <2> QED BY <2>4, <2>5
<1>4. CASE Delivered(w) \/ Failed(w)
  <2>1. /\ UNCHANGED <<attempts, posts>> /\ pump[w].pc \in {"done", "error"}
        /\ pump' = [pump EXCEPT ![w] = Following(w, Current(w))]
    BY <1>4 DEF Delivered, Failed, At
  <2>2. Current(w) \in pump[w].todo /\ Current(w) = Least(pump[w].todo)
    BY <1>0, <2>1, InHandFacts DEF Current
  <2>3. pump'[w].todo = pump[w].todo \ {Least(pump[w].todo)}
    BY <2>1, <2>2, FollowingFacts
  <2> QED BY <2>1, <2>3 DEF UnpostedIn
<1>5. CASE PumpStops(w)
  <2>1. UNCHANGED <<attempts, posts>>
    BY <1>5 DEF PumpStops, rowVars
  <2>2. CASE pump' = [pump EXCEPT ![w] = Idle]
    BY <2>1, <2>2, IdleType DEF UnpostedIn
  <2>3. CASE At(w, "done") /\ Goto(w, "error")
    BY <2>1, <2>3 DEF UnpostedIn, At, Pcs
  <2> QED BY <1>5, <2>2, <2>3 DEF PumpStops
<1> QED BY <1>1, <1>2, <1>3, <1>4, <1>5 DEF PumpWebhooks

LEMMA BudgetNext ==
  ASSUME TypeOK, BusyInv, BudgetInv, [Next]_vars PROVE BudgetInv'
<1>1. CASE UNCHANGED <<pump, attempts, posts>>
  BY <1>1 DEF BudgetInv, Holders, Unposted, Current
<1>2. ASSUME NEW w \in Workers, PumpWebhooks(w) \/ PumpStops(w), NEW d \in Deliveries
      PROVE  posts'[d] + Cardinality(Holders(d)') <= attempts'[d] /\ attempts'[d] <= MaxAttempts
  <2>0. /\ posts[d] \in Nat /\ attempts[d] \in Nat /\ MaxAttempts \in Nat
        /\ posts[d] + Cardinality(Holders(d)) <= attempts[d] /\ attempts[d] <= MaxAttempts
    BY WebhookAssumption DEF TypeOK, BudgetInv
  <2> DEFINE H == Holders(d)
             K == Holders(d)'
  <2>1. /\ K \ {w} = H \ {w}
        /\ w \in H <=> d \in UnpostedIn(pump[w])
        /\ w \in K <=> d \in UnpostedIn(pump'[w])
    BY <1>2, PumpStep, HoldersStep
  <2>2. H \in SUBSET Workers /\ K \in SUBSET Workers
    BY DEF Holders
  <2> HIDE DEF H, K
  <2>3. /\ Cardinality(H \ {w}) \in Nat
        /\ Cardinality(H) = Cardinality(H \ {w}) + (IF w \in H THEN 1 ELSE 0)
        /\ Cardinality(K) = Cardinality(K \ {w}) + (IF w \in K THEN 1 ELSE 0)
    BY <2>2, SplitHolder
  <2>4. \/ /\ attempts'[d] = attempts[d] /\ posts'[d] = posts[d]
           /\ w \in K => w \in H
        \/ /\ attempts'[d] = attempts[d] /\ posts'[d] = posts[d] + 1
           /\ w \in H /\ w \notin K
        \/ /\ attempts'[d] = attempts[d] + 1 /\ posts'[d] = posts[d]
           /\ attempts[d] < MaxAttempts /\ w \notin H
    BY <1>2, <2>1, UnpostedStep
  <2>5. posts[d] + Cardinality(H) <= attempts[d]
    BY <2>0 DEF H
  <2>6. posts'[d] + Cardinality(K) <= attempts'[d] /\ attempts'[d] <= MaxAttempts
    <3> DEFINE n == Cardinality(H \ {w})
    <3>1. /\ n \in Nat
          /\ Cardinality(H) = n + (IF w \in H THEN 1 ELSE 0)
          /\ Cardinality(K) = n + (IF w \in K THEN 1 ELSE 0)
      BY <2>1, <2>3
    <3> HIDE DEF n
    <3> QED BY <2>0, <2>4, <2>5, <3>1
  <2> QED BY <2>6 DEF K
<1>3. ASSUME NEW w \in Workers, PumpWebhooks(w) \/ PumpStops(w) PROVE BudgetInv'
  BY <1>2, <1>3 DEF BudgetInv
<1> QED
  BY <1>1, <1>3 DEF Next, Record, RetryDue, DisableEndpoint, vars, rowVars

LEMMA BudgetInit == Init => BudgetInv
<1> SUFFICES ASSUME Init, NEW d \in Deliveries
             PROVE  posts[d] + Cardinality(Holders(d)) <= attempts[d] /\ attempts[d] <= MaxAttempts
  BY DEF BudgetInv
<1>1. \A w \in Workers : pump[w].todo = {}
  BY IdleType DEF Init
<1>2. Holders(d) = {}
  BY <1>1 DEF Holders, Unposted
<1>3. Cardinality(Holders(d)) = 0
  BY <1>2, FS_EmptySet
<1> QED BY <1>3, WebhookAssumption DEF Init

(* The receiver gets a delivery at most MaxAttempts times, whoever posts   *)
(* it and wherever they stop.                                              *)
THEOREM PostsAreBoundedHolds == Spec => []PostsAreBounded
<1>1. TypeOK /\ BusyInv /\ BudgetInv /\ [Next]_vars => BudgetInv'
  BY BudgetNext
<1>2. TypeOK /\ BudgetInv => PostsAreBounded
  <2> SUFFICES ASSUME TypeOK, BudgetInv, NEW d \in Deliveries PROVE posts[d] <= MaxAttempts
    BY DEF PostsAreBounded
  <2>1. IsFiniteSet(Holders(d))
    <3>1. Holders(d) \in SUBSET Workers
      BY DEF Holders
    <3> QED BY <3>1, FS_Subset, WebhookAssumption
  <2>2. Cardinality(Holders(d)) \in Nat
    BY <2>1, FS_CardinalityType
  <2>3. /\ posts[d] \in Nat /\ attempts[d] \in Nat /\ MaxAttempts \in Nat
        /\ posts[d] + Cardinality(Holders(d)) <= attempts[d] /\ attempts[d] <= MaxAttempts
    BY WebhookAssumption DEF TypeOK, BudgetInv
  <2> QED BY <2>2, <2>3
<1> QED BY <1>1, <1>2, BudgetInit, TypeCorrect, PTL DEF Spec
=============================================================================
