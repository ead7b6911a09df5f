----------------------- MODULE OutboundDispatchProofs -----------------------
(***************************************************************************)
(* Proofs about OutboundDispatch, for any number of messages, numbers and  *)
(* worker slots and any number of upsets.                                  *)
(***************************************************************************)
EXTENDS MCOutboundDispatch, TLAPS

(* The initial state is well typed. *)
LEMMA InitTypeOK == Init => TypeOK
  BY ConstantsAssumption DEF Init, TypeOK, RunTypeOK, NoPublish, Idle, Statuses, OutboxStatuses,
     RunPcs, InProvider

LEMMA SpendType == ASSUME TypeOK, NEW u \in Upsets, Spend(u)
                   PROVE  upsets' \subseteq Upsets
  BY DEF TypeOK, Spend

LEMMA GotoType ==
  ASSUME RunTypeOK, NEW w \in Slots, run[w].pc # "idle", NEW pc \in RunPcs, Goto(w, pc)
  PROVE  RunTypeOK'
  BY DEF RunTypeOK, Goto

LEMMA FailType ==
  ASSUME RunTypeOK, NEW w \in Slots, run[w].pc # "idle",
         NEW why \in {"offline", "uncertain"}, Fail(w, why)
  PROVE  RunTypeOK'
  BY DEF RunTypeOK, Fail, RunPcs, InProvider

LEMMA AnswerType ==
  ASSUME RunTypeOK, NEW w \in Slots, run[w].pc # "idle", NEW a \in ResultAcks,
         run' = [run EXCEPT ![w].pc = "confirm", ![w].got = a]
  PROVE  RunTypeOK'
<1>1. a \in {0, 1}
  BY ConstantsAssumption
<1>2. "confirm" \in RunPcs
  BY DEF RunPcs, InProvider
<1>3. /\ run'[w] = [run[w] EXCEPT !.pc = "confirm", !.got = a]
      /\ \A v \in Slots \ {w} : run'[v] = run[v]
      /\ DOMAIN run' = Slots /\ run' = [v \in Slots |-> run'[v]]
  BY DEF RunTypeOK
<1>4. /\ run'[w] \in [pc : RunPcs, msg : Messages \cup {NoMessage},
                      got : {0, 1}, why : {"none", "offline", "uncertain"}]
      /\ run'[w].msg = run[w].msg
  BY <1>1, <1>2, <1>3 DEF RunTypeOK
<1> QED BY <1>3, <1>4 DEF RunTypeOK

LEMMA SendsType ==
  ASSUME sends \in [Messages -> Nat], NEW m \in Messages,
         sends' = [sends EXCEPT ![m] = @ + 1]
  PROVE  /\ sends' \in [Messages -> Nat]
         /\ sends'[m] = sends[m] + 1
         /\ \A n \in Messages \ {m} : sends'[n] = sends[n]
  OBVIOUS

LEMMA EndRunType ==
  ASSUME TypeOK, NEW w \in Slots, EndRun(w)
  PROVE  RunTypeOK' /\ job' \in [Messages -> {"none", "waiting"} \cup Slots]
  BY DEF TypeOK, RunTypeOK, EndRun, FinishJob, Idle, RunPcs, InProvider

LEMMA PublishType == ASSUME TypeOK, Publisher PROVE TypeOK'
<1> USE ConstantsAssumption
<1>1. ASSUME NEW due \in SUBSET Messages, PublishTick(due) PROVE TypeOK'
  BY <1>1 DEF TypeOK, RunTypeOK, PublishTick, Recover, RecoveredStatus, RecoveredOutbox, Lowest,
     NoPublish, Statuses, OutboxStatuses, dbVars, queueVars, sessVars, delVars
<1>2. ASSUME NEW m \in Messages, PublishAdd(m) PROVE TypeOK'
  <2>1. AfterRow(m) \in [pc : {"idle", "add", "mark"}, batch : SUBSET Messages,
                         cur : Messages \cup {NoMessage}] /\ AfterRow(m).pc # "mark"
    BY DEF TypeOK, AfterRow, NoPublish
  <2> DEFINE marked == [pub EXCEPT !.pc = "mark", !.cur = m]
  <2>2. /\ marked \in [pc : {"idle", "add", "mark"}, batch : SUBSET Messages,
                       cur : Messages \cup {NoMessage}]
        /\ marked.cur = m
    BY DEF TypeOK
  <2>3. pub' \in {marked, AfterRow(m)}
    BY <1>2 DEF PublishAdd
  <2>4. job' \in [Messages -> {"none", "waiting"} \cup Slots]
    BY <1>2 DEF PublishAdd, TypeOK
  <2> HIDE DEF marked
  <2> QED
    BY <1>2, <2>1, <2>2, <2>3, <2>4
    DEF TypeOK, RunTypeOK, PublishAdd, dbVars, queueVars, sessVars, delVars
<1>3. ASSUME PublishMark PROVE TypeOK'
  <2>1. AfterRow(pub.cur) \in [pc : {"idle", "add", "mark"}, batch : SUBSET Messages,
                         cur : Messages \cup {NoMessage}] /\ AfterRow(pub.cur).pc # "mark"
    BY DEF TypeOK, AfterRow, NoPublish
  <2> QED
    BY <1>3, <2>1 DEF TypeOK, RunTypeOK, PublishMark, OutboxStatuses,
       dbVars, queueVars, sessVars, delVars
<1> QED BY <1>1, <1>2, <1>3 DEF Publisher

LEMMA DispatchType ==
  ASSUME TypeOK, NEW w \in Slots, Dispatch(w) PROVE TypeOK'
<1> USE ConstantsAssumption DEF TypeOK, Statuses, OutboxStatuses, At,
        dbVars, queueVars, sessVars, delVars
<1> DEFINE jobType == job' \in [Messages -> {"none", "waiting"} \cup Slots]
<1>0. /\ run[w].pc # "idle" => run[w].msg \in Messages
      /\ run[w].got \in {0, 1}
  BY DEF RunTypeOK
<1>1. \A pc \in RunPcs : run[w].pc # "idle" /\ Goto(w, pc) => RunTypeOK'
  BY GotoType
<1>2. \A why \in {"offline", "uncertain"} :
        run[w].pc # "idle" /\ Fail(w, why) => RunTypeOK'
  BY FailType
<1>3. EndRun(w) => RunTypeOK' /\ jobType
  BY EndRunType
<1>4. {"locked", "send", "onwire", "confirm", "post", "failBox"} \subseteq RunPcs
  BY DEF RunPcs, InProvider
<1> HIDE DEF jobType
<1>5. CASE ClaimRefused(w)
  BY <1>3, <1>5 DEF ClaimRefused, jobType
<1>6. CASE ClaimLock(w)
  BY <1>1, <1>4, <1>6 DEF ClaimLock
<1>7. CASE ClaimCommit(w)
  BY <1>0, <1>1, <1>3, <1>4, <1>7 DEF ClaimCommit, jobType
<1>8. CASE SendOffline(w)
  BY <1>2, <1>8 DEF SendOffline
<1>9. CASE Send(w)
  BY <1>0, <1>1, <1>4, <1>9, SendsType DEF Send
<1>10. CASE SendError(w)
  BY <1>2, <1>10 DEF SendError
<1>11. CASE Result(w)
  BY <1>2, <1>11, AnswerType DEF Result
<1>12. CASE Confirm(w)
  <2>1. RunTypeOK'
    BY <1>1, <1>4, <1>12 DEF Confirm
  <2> QED BY <1>0, <1>12, <2>1 DEF Confirm
<1>13. CASE Post(w)
  BY <1>3, <1>13 DEF Post, jobType
<1>14. CASE FailMsg(w)
  BY <1>0, <1>1, <1>4, <1>14 DEF FailMsg, FailStatus
<1>15. CASE FailBox(w)
  BY <1>0, <1>3, <1>15 DEF FailBox, jobType
<1> QED
  BY <1>5, <1>6, <1>7, <1>8, <1>9, <1>10, <1>11, <1>12, <1>13, <1>14, <1>15 DEF Dispatch

LEMMA WorkersType == ASSUME TypeOK, Workers PROVE TypeOK'
<1>1. ASSUME NEW w \in Slots, NEW m \in Messages, StartJob(w, m) PROVE TypeOK'
  BY <1>1 DEF TypeOK, RunTypeOK, StartJob, Idle, RunPcs, InProvider, dbVars, queueVars, sessVars, delVars
<1> QED BY <1>1, DispatchType DEF Workers

LEMMA RequestsType == ASSUME TypeOK, Requests PROVE TypeOK'
<1> USE DEF TypeOK, RunTypeOK, Statuses, OutboxStatuses, dbVars, queueVars, sessVars, delVars
<1> PICK m \in Messages :
      \/ Enqueue(m) \/ AckPositive(m) \/ AckNegative(m)
      \/ DeleteRead(m) \/ DeleteRetract(m) \/ DeleteMark(m)
  BY DEF Requests
<1>1. CASE Enqueue(m)       BY <1>1 DEF Enqueue
<1>2. CASE AckPositive(m)   BY <1>2 DEF AckPositive
<1>3. CASE AckNegative(m)   BY <1>3 DEF AckNegative
<1>4. CASE DeleteRead(m)    BY <1>4 DEF DeleteRead
<1>5. CASE DeleteRetract(m) BY <1>5 DEF DeleteRetract
<1>6. CASE DeleteMark(m)    BY <1>6 DEF DeleteMark
<1> QED BY <1>1, <1>2, <1>3, <1>4, <1>5, <1>6

LEMMA NumbersType == ASSUME TypeOK, Numbers PROVE TypeOK'
<1> USE DEF TypeOK, RunTypeOK, dbVars, queueVars, sessVars, delVars
<1> PICK s \in Sessions :
      SessionStart(s) \/ SessionConnect(s) \/ SessionDown(s) \/ LeaseExpire(s)
  BY DEF Numbers
<1>1. CASE SessionStart(s)   BY <1>1 DEF SessionStart
<1>2. CASE SessionConnect(s) BY <1>2 DEF SessionConnect
<1>3. CASE SessionDown(s)    BY <1>3, SpendType DEF SessionDown, Upsets
<1>4. CASE LeaseExpire(s)    BY <1>4 DEF LeaseExpire
<1> QED BY <1>1, <1>2, <1>3, <1>4

LEMMA EnvironmentType == ASSUME TypeOK, Environment PROVE TypeOK'
<1> USE DEF RunTypeOK, dbVars, queueVars, sessVars, delVars
<1>1. \A u \in Upsets : Spend(u) => upsets' \subseteq Upsets
  BY SpendType
<1>2. {"crash", "shutdown", "fault", "stall", "loss", "drop"} \subseteq Upsets
  BY DEF Upsets
<1>3. ASSUME NEW w \in Slots, StatementFails(w) PROVE TypeOK'
  <2>1. upsets' \subseteq Upsets
    BY <1>1, <1>2, <1>3 DEF StatementFails
  <2>2. CASE run[w].pc # "idle" /\ Fail(w, "uncertain") /\ UNCHANGED job
    BY <1>3, <2>1, <2>2, FailType DEF StatementFails, TypeOK
  <2>3. CASE EndRun(w)
    BY <1>3, <2>1, <2>3, EndRunType DEF StatementFails, TypeOK
  <2> QED BY <1>3, <2>2, <2>3 DEF StatementFails, At
<1>4. ASSUME NEW m \in Messages, Stall(m) PROVE TypeOK'
  BY <1>1, <1>2, <1>4 DEF Stall, TypeOK
<1>5. ASSUME NEW m \in Messages, Age(m) PROVE TypeOK'
  BY <1>5 DEF Age, TypeOK
<1>6. CASE TickFails
  BY <1>1, <1>2, <1>6 DEF TickFails, TypeOK, NoPublish
<1>7. CASE RedisLoss
  BY <1>1, <1>2, <1>7 DEF RedisLoss, TypeOK, NoPublish
<1>8. CASE Crash
  BY <1>1, <1>2, <1>8 DEF Crash, TypeOK, NoPublish, Idle, RunPcs, InProvider
<1>9. CASE Shutdown
  BY <1>1, <1>2, <1>9 DEF Shutdown, TypeOK, NoPublish
<1>10. CASE Restart
  BY <1>10 DEF Restart, Recover, RecoveredStatus, RecoveredOutbox, TypeOK, Statuses,
     OutboxStatuses
<1> QED BY <1>3, <1>4, <1>5, <1>6, <1>7, <1>8, <1>9, <1>10 DEF Environment

LEMMA NextTypeOK == TypeOK /\ [Next]_vars => TypeOK'
<1>1. ASSUME TypeOK, UNCHANGED vars PROVE TypeOK'
  BY <1>1 DEF TypeOK, RunTypeOK, vars, dbVars, queueVars, sessVars, delVars
<1> QED
  BY <1>1, PublishType, WorkersType, RequestsType, NumbersType, EnvironmentType DEF Next

(* Every variable keeps the type that the tables and the queue give it, in *)
(* every reachable state of the dispatcher.                                *)
THEOREM TypeCorrect == Spec => []TypeOK
  BY InitTypeOK, NextTypeOK, PTL DEF Spec
-----------------------------------------------------------------------------
(* Most steps leave the runs and the copies sent alone and move a message, *)
(* if at all, to a status from which nothing claims it.                    *)
Harmless ==
  /\ UNCHANGED <<run, sends>>
  /\ \A m \in Messages :
       status'[m] = status[m] \/ status'[m] \notin {"none", "sending", "dispatching"}

Settled == {"sent", "failed", "uncertain", "deleted"}

LEMMA RecoverHarmless ==
  ASSUME TypeOK, Recover, UNCHANGED <<run, sends>> PROVE Harmless
  BY DEF TypeOK, Recover, RecoveredStatus, Harmless

LEMMA SettleHarmless ==
  ASSUME TypeOK, NEW m \in Messages, NEW st \in Settled,
         status' = [status EXCEPT ![m] = st], UNCHANGED <<run, sends>>
  PROVE  Harmless
  BY DEF TypeOK, Harmless, Settled

LEMMA StillHarmless == ASSUME UNCHANGED <<run, sends, status>> PROVE Harmless
  BY DEF Harmless

LEMMA HarmlessSends == ASSUME SendsInv, Harmless PROVE SendsInv'
  BY DEF SendsInv, Harmless, Owns, NotSentYet, At, AtMostOnce

LEMMA HarmlessLock == ASSUME LockInv, Harmless PROVE LockInv'
  BY DEF LockInv, Harmless, At, DispatchExclusive, SameSession

LEMMA HarmlessSteps ==
  ASSUME TypeOK,
         \/ Publisher \/ Numbers \/ TickFails \/ RedisLoss \/ Restart \/ UNCHANGED vars
         \/ \E m \in Messages :
              \/ AckPositive(m) \/ AckNegative(m) \/ DeleteRead(m) \/ DeleteRetract(m)
              \/ DeleteMark(m) \/ Stall(m) \/ Age(m)
  PROVE  Harmless
<1> USE DEF dbVars, queueVars, sessVars, delVars
<1>1. CASE Publisher
  <2>1. CASE \E due \in SUBSET Messages : PublishTick(due)
    BY <2>1, RecoverHarmless DEF PublishTick
  <2>2. CASE PublishMark \/ \E m \in Messages : PublishAdd(m)
    BY <2>2, StillHarmless DEF PublishMark, PublishAdd
  <2> QED BY <1>1, <2>1, <2>2 DEF Publisher
<1>2. CASE Numbers
  BY <1>2, StillHarmless
  DEF Numbers, SessionStart, SessionConnect, SessionDown, LeaseExpire
<1>3. CASE TickFails \/ RedisLoss
  BY <1>3, StillHarmless DEF TickFails, RedisLoss
<1>4. CASE Restart
  BY <1>4, RecoverHarmless DEF Restart
<1>5. ASSUME NEW m \in Messages, AckPositive(m) \/ AckNegative(m) \/ DeleteMark(m)
      PROVE  Harmless
  BY <1>5, SettleHarmless DEF AckPositive, AckNegative, DeleteMark, Settled
<1>6. ASSUME NEW m \in Messages,
             DeleteRead(m) \/ DeleteRetract(m) \/ Stall(m) \/ Age(m)
      PROVE  Harmless
  BY <1>6, StillHarmless DEF DeleteRead, DeleteRetract, Stall, Age
<1>7. CASE UNCHANGED vars
  BY <1>7, StillHarmless DEF vars
<1> QED BY <1>1, <1>2, <1>3, <1>4, <1>5, <1>6, <1>7

(* The run left behind when a slot's next position is not an owner's.      *)
LEMMA RunEffect ==
  ASSUME TypeOK, NEW w \in Slots
  PROVE  /\ \A pc \in RunPcs : Goto(w, pc) =>
              /\ run'[w].pc = pc /\ run'[w].msg = run[w].msg
              /\ run'[w].got = run[w].got /\ run'[w].why = run[w].why
              /\ \A v \in Slots \ {w} : run'[v] = run[v]
         /\ \A why \in {"offline", "uncertain"} : Fail(w, why) =>
              /\ run'[w].pc = "failMsg" /\ run'[w].msg = run[w].msg
              /\ run'[w].got = run[w].got /\ run'[w].why = why
              /\ \A v \in Slots \ {w} : run'[v] = run[v]
         /\ EndRun(w) =>
              /\ run'[w].pc = "idle"
              /\ \A v \in Slots \ {w} : run'[v] = run[v]
<1>1. ASSUME NEW pc \in RunPcs, Goto(w, pc)
      PROVE  /\ run'[w].pc = pc /\ run'[w].msg = run[w].msg
             /\ run'[w].got = run[w].got /\ run'[w].why = run[w].why
             /\ \A v \in Slots \ {w} : run'[v] = run[v]
  BY <1>1 DEF TypeOK, RunTypeOK, Goto
<1>2. ASSUME NEW why \in {"offline", "uncertain"}, Fail(w, why)
      PROVE  /\ run'[w].pc = "failMsg" /\ run'[w].msg = run[w].msg
             /\ run'[w].got = run[w].got /\ run'[w].why = why
             /\ \A v \in Slots \ {w} : run'[v] = run[v]
  BY <1>2 DEF TypeOK, RunTypeOK, Fail
<1>3. ASSUME EndRun(w)
      PROVE  /\ run'[w].pc = "idle"
             /\ \A v \in Slots \ {w} : run'[v] = run[v]
  BY <1>3 DEF TypeOK, RunTypeOK, EndRun, Idle
<1> QED BY <1>1, <1>2, <1>3

LEMMA SendsDispatch ==
  ASSUME TypeOK, SendsInv, 0 \notin ResultAcks, NEW w \in Slots, Dispatch(w)
  PROVE  SendsInv'
<1> USE ConstantsAssumption, RunEffect
    DEF SendsInv, AtMostOnce, Owns, NotSentYet, At, InProvider, dbVars
<1>0. /\ \A v \in Slots : run[v].pc # "idle" => run[v].msg \in Messages
      /\ {"locked", "send", "onwire", "confirm", "post", "failBox"} \subseteq RunPcs
      /\ status \in [Messages -> Statuses] /\ sends \in [Messages -> Nat]
  BY DEF TypeOK, RunTypeOK, RunPcs
<1>1. CASE ClaimRefused(w)
  BY <1>0, <1>1 DEF ClaimRefused
<1>2. CASE ClaimLock(w)
  BY <1>0, <1>2 DEF ClaimLock
<1>3. CASE ClaimCommit(w)
  <2> DEFINE m == run[w].msg
  <2>1. m \in Messages /\ UNCHANGED sends
    BY <1>0, <1>3 DEF ClaimCommit
  <2>2. CASE Claimable(m)
    <3>1. sends[m] = 0 /\ \A v \in Slots : ~Owns(v, m)
      BY <2>1, <2>2 DEF Claimable
    <3>2. /\ status'[m] = "dispatching"
          /\ \A n \in Messages \ {m} : status'[n] = status[n]
      BY <1>0, <1>3, <2>1, <2>2 DEF ClaimCommit
    <3>3. /\ run'[w].pc = "send" /\ run'[w].msg = m
          /\ \A v \in Slots \ {w} : run'[v] = run[v]
      BY <1>0, <1>3, <2>2 DEF ClaimCommit
    <3> HIDE DEF m
    <3>4. \A n \in Messages :
            status'[n] \in {"none", "sending"} => sends'[n] = 0 /\ \A v \in Slots : ~Owns(v, n)'
      BY <2>1, <3>2, <3>3
    <3>5. ASSUME NEW n \in Messages, NEW u \in Slots, NEW v \in Slots, Owns(u, n)', Owns(v, n)'
          PROVE  u = v
      <4>1. CASE u = w /\ v # w
        BY <3>1, <3>3, <3>5, <4>1
      <4>2. CASE u # w /\ v = w
        BY <3>1, <3>3, <3>5, <4>2
      <4>3. CASE u # w /\ v # w
        BY <3>3, <3>5, <4>3
      <4> QED BY <4>1, <4>2, <4>3
    <3>6. \A v \in Slots : NotSentYet(v)' => sends'[run'[v].msg] = 0
      BY <2>1, <3>1, <3>3
    <3>7. \A v \in Slots : At(v, "confirm")' => run'[v].got = 1
      BY <3>3
    <3>8. \A n \in Messages : sends'[n] <= 1
      BY <2>1
    <3> QED BY ONLY <3>4, <3>5, <3>6, <3>7, <3>8 DEF SendsInv, Owns, NotSentYet, At
  <2>3. CASE ~Claimable(m)
    BY <1>0, <1>3, <2>1, <2>3 DEF ClaimCommit
  <2> QED BY <2>2, <2>3
<1>4. CASE SendOffline(w)
  BY <1>0, <1>4 DEF SendOffline
<1>5. CASE Send(w)
  <2> DEFINE m == run[w].msg
  <2>1. /\ m \in Messages /\ sends[m] = 0 /\ status[m] \notin {"none", "sending"}
        /\ \A v \in Slots \ {w} : ~Owns(v, m)
    <3>1. run[w].pc = "send"
      BY <1>5 DEF Send
    <3>2. m \in Messages /\ sends[m] = 0 /\ Owns(w, m)
      BY <1>0, <3>1
    <3> HIDE DEF m
    <3> QED BY <3>2
  <2>2. /\ sends'[m] = 1 /\ \A n \in Messages \ {m} : sends'[n] = sends[n]
    <3>1. sends' = [sends EXCEPT ![m] = @ + 1]
      BY <1>5 DEF Send
    <3>2. /\ sends'[m] = sends[m] + 1
          /\ \A n \in Messages \ {m} : sends'[n] = sends[n]
      BY <1>0, <2>1, <3>1, SendsType
    <3> QED BY <2>1, <3>2
  <2>3. /\ run'[w].pc = "onwire" /\ run'[w].msg = m
        /\ \A v \in Slots \ {w} : run'[v] = run[v]
    BY <1>0, <1>5 DEF Send
  <2>4. UNCHANGED status
    BY <1>5 DEF Send
  <2> HIDE DEF m
  <2>5. \A n \in Messages :
          status'[n] \in {"none", "sending"} => sends'[n] = 0 /\ \A v \in Slots : ~Owns(v, n)'
    BY <2>1, <2>2, <2>3, <2>4
  <2>6. \A n \in Messages, u, v \in Slots : Owns(u, n)' /\ Owns(v, n)' => u = v
    BY <2>1, <2>3
  <2>7. \A v \in Slots : NotSentYet(v)' => sends'[run'[v].msg] = 0
    <3> SUFFICES ASSUME NEW v \in Slots, NotSentYet(v)' PROVE sends'[run'[v].msg] = 0
      OBVIOUS
    <3>1. v # w /\ run'[v] = run[v]
      BY <2>3
    <3>2. NotSentYet(v) /\ run[v].msg \in Messages \ {m}
      BY <1>0, <2>1, <3>1
    <3> QED BY <2>2, <3>1, <3>2
  <2>8. \A v \in Slots : At(v, "confirm")' => run'[v].got = 1
    BY <2>3
  <2> QED BY <2>1, <2>2, <2>5, <2>6, <2>7, <2>8
<1>6. CASE SendError(w)
  BY <1>0, <1>6 DEF SendError
<1>7. CASE Result(w)
  <2>1. UNCHANGED <<status, sends>>
    BY <1>7 DEF Result
  <2>2. CASE Fail(w, "uncertain")
    BY <1>0, <1>7, <2>1, <2>2 DEF Result
  <2>3. ASSUME NEW a \in ResultAcks, run' = [run EXCEPT ![w].pc = "confirm", ![w].got = a]
        PROVE  SendsInv'
    <3>1. a = 1
      BY <2>3
    <3>2. /\ run'[w].pc = "confirm" /\ run'[w].msg = run[w].msg /\ run'[w].got = 1
          /\ \A v \in Slots \ {w} : run'[v] = run[v]
      BY <2>3, <3>1 DEF TypeOK, RunTypeOK
    <3> QED BY <1>0, <1>7, <2>1, <3>2 DEF Result
  <2> QED BY <1>7, <2>2, <2>3 DEF Result
<1>8. CASE Confirm(w)
  BY <1>0, <1>8 DEF Confirm
<1>9. CASE Post(w)
  BY <1>0, <1>9 DEF Post
<1>10. CASE FailMsg(w)
  BY <1>0, <1>10 DEF FailMsg, FailStatus
<1>11. CASE FailBox(w)
  BY <1>0, <1>11 DEF FailBox
<1> QED
  BY <1>1, <1>2, <1>3, <1>4, <1>5, <1>6, <1>7, <1>8, <1>9, <1>10, <1>11 DEF Dispatch

(* Every step of the specification keeps the strengthened invariant.       *)
LEMMA SendsNext ==
  ASSUME TypeOK, SendsInv, 0 \notin ResultAcks, [Next]_vars PROVE SendsInv'
<1>1. ASSUME NEW m \in Messages, Enqueue(m) PROVE SendsInv'
  <2>1. /\ UNCHANGED <<run, sends>> /\ status[m] = "none"
        /\ \A n \in Messages \ {m} : status'[n] = status[n]
    BY <1>1 DEF Enqueue, TypeOK
  <2> QED BY <2>1 DEF SendsInv, Owns, NotSentYet, At, AtMostOnce
<1>2. ASSUME NEW w \in Slots, NEW m \in Messages, StartJob(w, m) PROVE SendsInv'
  <2>1. /\ UNCHANGED <<status, sends>> /\ run'[w].pc = "claim"
        /\ \A v \in Slots \ {w} : run'[v] = run[v]
    BY <1>2 DEF StartJob, TypeOK, RunTypeOK, Idle, dbVars
  <2> QED BY <2>1 DEF SendsInv, Owns, NotSentYet, At, AtMostOnce, InProvider
<1>3. ASSUME NEW w \in Slots, StatementFails(w) PROVE SendsInv'
  <2>1. UNCHANGED <<status, sends>>
    BY <1>3 DEF StatementFails, dbVars
  <2>2. CASE Fail(w, "uncertain") /\ run[w].pc \in InProvider
    BY <2>1, <2>2, RunEffect DEF SendsInv, Owns, NotSentYet, At, AtMostOnce, InProvider
  <2>3. CASE EndRun(w)
    BY <2>1, <2>3, RunEffect DEF SendsInv, Owns, NotSentYet, At, AtMostOnce, InProvider
  <2> QED BY <1>3, <2>2, <2>3 DEF StatementFails, At, InProvider
<1>4. ASSUME Crash \/ Shutdown PROVE SendsInv'
  <2>1. UNCHANGED <<status, sends>>
    BY <1>4 DEF Crash, Shutdown, dbVars
  <2>2. \A w \in Slots : run'[w].pc = "idle"
    BY <1>4 DEF Crash, Shutdown, Idle, At
  <2> QED BY <2>1, <2>2 DEF SendsInv, Owns, NotSentYet, At, AtMostOnce, InProvider
<1>5. CASE UNCHANGED vars
  BY <1>5, HarmlessSteps, HarmlessSends
<1> QED
  BY <1>1, <1>2, <1>3, <1>4, <1>5, SendsDispatch, HarmlessSteps, HarmlessSends
  DEF Next, Workers, Requests, Environment

(* No customer receives a message twice, whatever crashes, failed          *)
(* statements, stalled jobs, Redis restarts and lost connections the       *)
(* dispatcher goes through, as long as no confirmed provider call reports  *)
(* an ack of zero.                                                         *)
THEOREM AtMostOnceHolds == ASSUME 0 \notin ResultAcks PROVE Spec => []AtMostOnce
<1>1. Init => SendsInv
  BY DEF Init, SendsInv, Owns, NotSentYet, At, AtMostOnce, Idle, InProvider
<1>2. TypeOK /\ SendsInv /\ [Next]_vars => SendsInv'
  BY SendsNext
<1>3. SendsInv => AtMostOnce
  BY DEF SendsInv
<1> QED BY <1>1, <1>2, <1>3, TypeCorrect, PTL DEF Spec

(* A message shown as "sending" was never handed to WhatsApp, so nothing   *)
(* that replays the outbox can send it a second time.                      *)
THEOREM SendingIsUnsentHolds == ASSUME 0 \notin ResultAcks PROVE Spec => []SendingIsUnsent
<1>1. Init => SendsInv
  BY DEF Init, SendsInv, Owns, NotSentYet, At, AtMostOnce, Idle, InProvider
<1>2. TypeOK /\ SendsInv /\ [Next]_vars => SendsInv'
  BY SendsNext
<1>3. SendsInv => SendingIsUnsent
  BY DEF SendsInv, SendingIsUnsent
<1> QED BY <1>1, <1>2, <1>3, TypeCorrect, PTL DEF Spec

-----------------------------------------------------------------------------
LEMMA LockDispatch ==
  ASSUME TypeOK, LockInv, NEW w \in Slots, Dispatch(w) PROVE LockInv'
<1> USE RunEffect DEF LockInv, DispatchExclusive, SameSession, At, dbVars
<1>0. /\ \A v \in Slots : run[v].pc # "idle" => run[v].msg \in Messages
      /\ {"locked", "send", "onwire", "confirm", "post", "failBox"} \subseteq RunPcs
      /\ status \in [Messages -> Statuses]
  BY DEF TypeOK, RunTypeOK, RunPcs, InProvider
<1>1. CASE ClaimRefused(w)
  BY <1>0, <1>1 DEF ClaimRefused
<1>2. CASE ClaimLock(w)
  BY <1>0, <1>2 DEF ClaimLock, NumberBusy
<1>3. CASE ClaimCommit(w)
  <2>1. CASE Claimable(run[w].msg)
    <3>1. /\ run'[w].pc = "send" /\ \A v \in Slots \ {w} : run'[v] = run[v]
          /\ \A n \in Messages \ {run[w].msg} : status'[n] = status[n]
          /\ run[w].msg \in Messages
      BY <1>0, <1>3, <2>1 DEF ClaimCommit
    <3>2. run[w].pc = "locked"
      BY <1>3 DEF ClaimCommit
    <3> QED BY <3>1, <3>2
  <2>2. CASE ~Claimable(run[w].msg)
    BY <1>0, <1>3, <2>2 DEF ClaimCommit
  <2> QED BY <2>1, <2>2
<1>4. CASE SendOffline(w) \/ Send(w) \/ SendError(w) \/ Result(w) \/ Post(w)
  <2>1. /\ UNCHANGED status /\ run'[w].pc # "locked"
        /\ \A v \in Slots \ {w} : run'[v] = run[v]
    BY <1>0, <1>4 DEF SendOffline, Send, SendError, Result, Post, TypeOK, RunTypeOK
  <2> QED BY <2>1
<1>5. CASE Confirm(w) \/ FailMsg(w) \/ FailBox(w)
  <2>1. /\ run'[w].pc # "locked"
        /\ \A v \in Slots \ {w} : run'[v] = run[v]
        /\ \A n \in Messages : status'[n] = status[n] \/ status'[n] # "dispatching"
    BY <1>0, <1>5 DEF Confirm, FailMsg, FailBox, FailStatus
  <2> QED BY <2>1
<1> QED BY <1>1, <1>2, <1>3, <1>4, <1>5 DEF Dispatch

LEMMA LockNext == ASSUME TypeOK, LockInv, [Next]_vars PROVE LockInv'
<1> USE DEF LockInv, DispatchExclusive, SameSession, At
<1>1. ASSUME NEW m \in Messages, Enqueue(m) PROVE LockInv'
  <2>1. /\ UNCHANGED run
        /\ \A n \in Messages : status'[n] = status[n] \/ status'[n] # "dispatching"
    BY <1>1 DEF Enqueue, TypeOK
  <2> QED BY <2>1
<1>2. ASSUME NEW w \in Slots, NEW m \in Messages, StartJob(w, m) PROVE LockInv'
  <2>1. /\ UNCHANGED status /\ run'[w].pc = "claim"
        /\ \A v \in Slots \ {w} : run'[v] = run[v]
    BY <1>2 DEF StartJob, TypeOK, RunTypeOK, Idle, dbVars
  <2> QED BY <2>1
<1>3. ASSUME NEW w \in Slots, StatementFails(w) PROVE LockInv'
  <2>1. /\ UNCHANGED status /\ run'[w].pc # "locked"
        /\ \A v \in Slots \ {w} : run'[v] = run[v]
    BY <1>3, RunEffect DEF StatementFails, dbVars
  <2> QED BY <2>1
<1>4. ASSUME Crash \/ Shutdown PROVE LockInv'
  <2>1. UNCHANGED status /\ \A w \in Slots : run'[w].pc = "idle"
    BY <1>4 DEF Crash, Shutdown, Idle, dbVars
  <2> QED BY <2>1
<1>5. CASE UNCHANGED vars
  BY <1>5, HarmlessSteps, HarmlessLock
<1> QED
  BY <1>1, <1>2, <1>3, <1>4, <1>5, LockDispatch, HarmlessSteps, HarmlessLock
  DEF Next, Workers, Requests, Environment

(* A number never has two messages between claim and outcome, however many *)
(* slots work on it and whatever acks the provider returns.                *)
THEOREM DispatchExclusiveHolds == Spec => []DispatchExclusive
<1>1. Init => LockInv
  BY DEF Init, LockInv, DispatchExclusive, At, Idle
<1>2. TypeOK /\ LockInv /\ [Next]_vars => LockInv'
  BY LockNext
<1>3. LockInv => DispatchExclusive
  BY DEF LockInv
<1> QED BY <1>1, <1>2, <1>3, TypeCorrect, PTL DEF Spec
-----------------------------------------------------------------------------
(* The refinement.  Three abbreviations for what Life sees of a state.     *)
View == [m \in Messages |-> Shown(status[m])]

Hands == {m \in Messages : \E w \in Slots : Owns(w, m)}

(* A message nobody has accepted yet has left no trace.                    *)
NewInv == \A m \in Messages : status[m] = "none" => ~recorded[m] /\ del[m] = "no"

LEMMA ViewNow ==
  /\ DOMAIN View = Messages
  /\ \A m \in Messages : View[m] = Shown(status[m])
  /\ \A m : m \in Hands <=> m \in Messages /\ \E w \in Slots : Owns(w, m)
  BY DEF View, Hands

LEMMA ViewNext ==
  /\ DOMAIN View' = Messages
  /\ \A m \in Messages : View'[m] = Shown(status'[m])
  /\ \A m : m \in Hands' <=> m \in Messages /\ \E w \in Slots : Owns(w, m)'
  BY DEF View, Hands

LEMMA ShownValues ==
  /\ Shown("none") = "none" /\ Shown("sending") = "waiting"
  /\ Shown("dispatching") = "inFlight"
  /\ \A st \in Settled : Shown(st) = "outcome"
  BY DEF Shown, Settled

(* A step that settles the messages of a set and lets hands go.            *)
LEMMA SettleStep ==
  ASSUME TypeOK, NEW done \in SUBSET Messages,
         \A m \in done : status[m] # "none" /\ status'[m] \in Settled,
         \A m \in Messages \ done : status'[m] = status[m],
         \A m \in Messages, w \in Slots : Owns(w, m)' => \E v \in Slots : Owns(v, m),
         UNCHANGED sends
  PROVE  Life!Next
<1>1. \A m \in done : View[m] # "none"
  <2> TAKE m \in done
  <2>1. status[m] \in {"sending", "dispatching"} \cup Settled
    BY DEF TypeOK, Statuses, Settled
  <2> QED BY <2>1, ViewNow, ShownValues
<1>2. View' = [m \in Messages |-> IF m \in done THEN "outcome" ELSE View[m]]
  <2>1. \A m \in Messages : View'[m] = IF m \in done THEN "outcome" ELSE View[m]
    BY ViewNow, ViewNext, ShownValues
  <2> QED BY <2>1, ViewNext DEF View
<1>3. Hands' \in SUBSET Hands
  BY ViewNow, ViewNext
<1>4. Life!Settle(done, Hands')
  BY <1>1, <1>2, <1>3 DEF Life!Settle, View, Hands
<1> QED BY <1>3, <1>4 DEF Life!Next, Hands

LEMMA SettleOne ==
  ASSUME TypeOK, NEW m \in Messages, status[m] # "none", status'[m] \in Settled,
         \A n \in Messages \ {m} : status'[n] = status[n],
         \A n \in Messages, w \in Slots : Owns(w, n)' => Owns(w, n),
         UNCHANGED sends
  PROVE  Life!Next
<1> DEFINE done == {m}
<1>1. done \in SUBSET Messages
  OBVIOUS
<1>2. \A n \in done : status[n] # "none" /\ status'[n] \in Settled
  OBVIOUS
<1>3. \A n \in Messages \ done : status'[n] = status[n]
  OBVIOUS
<1>4. \A n \in Messages, w \in Slots : Owns(w, n)' => \E v \in Slots : Owns(v, n)
  OBVIOUS
<1> HIDE DEF done
<1> QED BY <1>1, <1>2, <1>3, <1>4, SettleStep

LEMMA LetGo ==
  ASSUME TypeOK, UNCHANGED <<status, sends>>,
         \A n \in Messages, w \in Slots : Owns(w, n)' => Owns(w, n)
  PROVE  Life!Next
<1> DEFINE done == {}
<1>1. done \in SUBSET Messages
  OBVIOUS
<1>2. \A n \in done : status[n] # "none" /\ status'[n] \in Settled
  OBVIOUS
<1>3. \A n \in Messages \ done : status'[n] = status[n]
  OBVIOUS
<1>4. \A n \in Messages, w \in Slots : Owns(w, n)' => \E v \in Slots : Owns(v, n)
  OBVIOUS
<1> HIDE DEF done
<1> QED BY <1>1, <1>2, <1>3, <1>4, SettleStep

(* A step that changes nothing of what Life sees.                          *)
LEMMA StutterStep ==
  ASSUME UNCHANGED <<status, sends>>,
         \A m \in Messages :
           (\E w \in Slots : Owns(w, m)') <=> \E v \in Slots : Owns(v, m)
  PROVE  UNCHANGED Life!vars
<1>1. Hands' = Hands
  BY ViewNow, ViewNext
<1>2. View' = View
  BY DEF View
<1> QED BY <1>1, <1>2 DEF Life!vars, View, Hands
LEMMA NewInvNext ==
  ASSUME TypeOK, SendsInv, NewInv, [Next]_vars PROVE NewInv'
<1> USE DEF NewInv, dbVars, delVars
<1>0. /\ status \in [Messages -> Statuses] /\ del \in [Messages -> {"no", "retract", "mark", "done"}]
      /\ recorded \in [Messages -> BOOLEAN]
      /\ \A w \in Slots : run[w].pc # "idle" => run[w].msg \in Messages
  BY DEF TypeOK, RunTypeOK
<1>1. ASSUME UNCHANGED <<status, recorded, del>> PROVE NewInv'
  BY <1>1
<1>2. ASSUME Recover, UNCHANGED <<recorded, del>> PROVE NewInv'
  BY <1>0, <1>2 DEF Recover, RecoveredStatus, Orphaned
<1>3. ASSUME NEW m \in Messages,
             \/ Enqueue(m) \/ AckPositive(m) \/ AckNegative(m)
             \/ DeleteRead(m) \/ DeleteRetract(m) \/ DeleteMark(m)
      PROVE  NewInv'
  BY <1>0, <1>3 DEF Enqueue, AckPositive, AckNegative, DeleteRead, DeleteRetract, DeleteMark
<1>4. ASSUME NEW w \in Slots, Confirm(w) PROVE NewInv'
  BY <1>0, <1>4 DEF Confirm, At
<1>5. ASSUME NEW w \in Slots, ClaimCommit(w) PROVE NewInv'
  BY <1>0, <1>5 DEF ClaimCommit, At
<1>6. ASSUME NEW w \in Slots, FailMsg(w) PROVE NewInv'
  BY <1>0, <1>6 DEF FailMsg, At, FailStatus
<1>7. ASSUME NEW w \in Slots, Dispatch(w) PROVE NewInv'
  <2>1. CASE Confirm(w) \/ ClaimCommit(w) \/ FailMsg(w)
    BY <2>1, <1>4, <1>5, <1>6
  <2>2. CASE \/ ClaimRefused(w) \/ ClaimLock(w) \/ SendOffline(w) \/ Send(w)
             \/ SendError(w) \/ Result(w) \/ Post(w) \/ FailBox(w)
    BY <2>2, <1>1
    DEF ClaimRefused, ClaimLock, SendOffline, Send, SendError, Result, Post, FailBox
  <2> QED BY <1>7, <2>1, <2>2 DEF Dispatch
<1>8. CASE Publisher
  BY <1>1, <1>2, <1>8 DEF Publisher, PublishTick, PublishAdd, PublishMark
<1>9. CASE Numbers
  BY <1>1, <1>9 DEF Numbers, SessionStart, SessionConnect, SessionDown, LeaseExpire
<1>10. CASE Environment
  <2>1. CASE Restart
    BY <1>2, <2>1 DEF Restart
  <2>2. CASE Crash \/ Shutdown
    BY <1>0, <2>2 DEF Crash, Shutdown
  <2>3. CASE \/ \E w \in Slots : StatementFails(w)
             \/ \E m \in Messages : Stall(m) \/ Age(m)
             \/ TickFails \/ RedisLoss
    BY <1>1, <2>3 DEF StatementFails, Stall, Age, TickFails, RedisLoss
  <2> QED BY <1>10, <2>1, <2>2, <2>3 DEF Environment
<1>11. CASE \E w \in Slots, m \in Messages : StartJob(w, m)
  BY <1>1, <1>11 DEF StartJob
<1>12. CASE UNCHANGED vars
  BY <1>1, <1>12 DEF vars
<1> QED BY <1>3, <1>7, <1>8, <1>9, <1>10, <1>11, <1>12 DEF Next, Workers, Requests
-----------------------------------------------------------------------------
(* Every statement of a run is a step of Life, or none.                    *)
LEMMA DispatchLives ==
  ASSUME TypeOK, SendsInv, LockInv, 0 \notin ResultAcks, NEW w \in Slots, Dispatch(w)
  PROVE  Life!Next \/ UNCHANGED Life!vars
<1> DEFINE m == run[w].msg
<1> USE RunEffect DEF dbVars
<1>0. /\ \A v \in Slots : run[v].pc # "idle" => run[v].msg \in Messages
      /\ {"locked", "send", "onwire", "confirm", "post", "failBox"} \subseteq RunPcs
      /\ status \in [Messages -> Statuses] /\ sends \in [Messages -> Nat]
  BY DEF TypeOK, RunTypeOK, RunPcs, InProvider
<1>1. ASSUME UNCHANGED <<status, sends>>, ~(run[w].pc \in InProvider), ~(run'[w].pc \in InProvider),
             \A v \in Slots \ {w} : run'[v] = run[v]
      PROVE  UNCHANGED Life!vars
  <2>1. \A n \in Messages, v \in Slots : Owns(v, n)' <=> Owns(v, n)
    BY <1>1 DEF Owns
  <2> QED BY <1>1, <2>1, StutterStep
<1>2. ASSUME UNCHANGED <<status, sends>>, run[w].pc \in InProvider, run'[w].pc \in InProvider,
             run'[w].msg = m, \A v \in Slots \ {w} : run'[v] = run[v]
      PROVE  UNCHANGED Life!vars
  <2>1. \A n \in Messages, v \in Slots : Owns(v, n)' <=> Owns(v, n)
    BY <1>2 DEF Owns
  <2> QED BY <1>2, <2>1, StutterStep
<1>3. CASE ClaimRefused(w) \/ ClaimLock(w) \/ FailBox(w)
  BY <1>0, <1>1, <1>3 DEF ClaimRefused, ClaimLock, FailBox, At, InProvider
<1>4. CASE ClaimCommit(w)
  <2>1. run[w].pc = "locked" /\ m \in Messages /\ UNCHANGED sends
    BY <1>0, <1>4 DEF ClaimCommit, At
  <2>2. CASE ~Claimable(m)
    BY <1>0, <1>1, <1>4, <2>1, <2>2 DEF ClaimCommit, InProvider
  <2>3. CASE Claimable(m)
    <3>1. /\ status[m] = "sending" /\ status'[m] = "dispatching"
          /\ \A n \in Messages \ {m} : status'[n] = status[n]
          /\ run'[w].pc = "send" /\ run'[w].msg = m
          /\ \A v \in Slots \ {w} : run'[v] = run[v]
      BY <1>0, <1>4, <2>1, <2>3 DEF ClaimCommit, Claimable
    <3>2. m \notin Hands /\ View[m] = "waiting"
      BY <2>1, <3>1, ViewNow, ShownValues DEF SendsInv
    <3>3. \A n \in Messages : SessionOf[n] = SessionOf[m] => View[n] # "inFlight"
      <4> SUFFICES ASSUME NEW n \in Messages, SessionOf[n] = SessionOf[m], View[n] = "inFlight"
                   PROVE  FALSE
        OBVIOUS
      <4>1. status[n] # "dispatching"
        BY <2>1 DEF LockInv, At, SameSession
      <4>2. status[n] \in {"none", "sending"} \cup Settled
        BY <4>1, <1>0 DEF Statuses, Settled
      <4> QED BY <4>2, ViewNow, ShownValues
    <3>4. View' = [View EXCEPT ![m] = "inFlight"]
      <4>1. \A n \in Messages : View'[n] = IF n = m THEN "inFlight" ELSE View[n]
        BY <3>1, ViewNow, ViewNext, ShownValues
      <4> QED BY <2>1, <4>1, ViewNext DEF View
    <3>5. Hands' = Hands \cup {m}
      <4>1. \A n \in Messages, v \in Slots : Owns(v, n)' <=> Owns(v, n) \/ (v = w /\ n = m)
        BY <2>1, <3>1 DEF Owns, InProvider
      <4> QED BY <2>1, <4>1, ViewNow, ViewNext
    <3>6. Life!Take(m)
      BY <2>1, <3>2, <3>3, <3>4, <3>5 DEF Life!Take, View, Hands
    <3> QED BY <2>1, <3>6 DEF Life!Next
  <2> QED BY <2>2, <2>3
<1>5. CASE SendOffline(w) \/ SendError(w)
  BY <1>0, <1>2, <1>5 DEF SendOffline, SendError, At, InProvider
<1>6. CASE Result(w)
  <2>1. /\ UNCHANGED <<status, sends>> /\ run'[w].pc \in InProvider /\ run'[w].msg = m
        /\ \A v \in Slots \ {w} : run'[v] = run[v] /\ run[w].pc \in InProvider
    BY <1>0, <1>6 DEF Result, At, InProvider, TypeOK, RunTypeOK
  <2>2. run[w].pc \in InProvider
    BY <1>6 DEF Result, At, InProvider
  <2> QED BY <1>2, <2>1, <2>2
<1>7. CASE Send(w)
  <2>1. run[w].pc = "send" /\ m \in Messages /\ sends[m] = 0
    BY <1>0, <1>7 DEF Send, At, SendsInv, NotSentYet
  <2>2. /\ run'[w].pc = "onwire" /\ run'[w].msg = m
        /\ \A v \in Slots \ {w} : run'[v] = run[v]
        /\ UNCHANGED status
    BY <1>0, <1>7 DEF Send
  <2>3. \A n \in Messages, v \in Slots : Owns(v, n)' <=> Owns(v, n)
    BY <2>1, <2>2 DEF Owns, InProvider
  <2>4. Hands' = Hands /\ m \in Hands /\ View' = View
    <3>1. Owns(w, m)
      BY <2>1 DEF Owns, InProvider
    <3> QED BY <2>1, <2>2, <2>3, <3>1, ViewNow, ViewNext DEF View
  <2>5. sends' = [sends EXCEPT ![m] = 1]
    BY <1>0, <1>7, <2>1 DEF Send
  <2>6. Life!Give(m)
    BY <2>1, <2>4, <2>5 DEF Life!Give, View, Hands
  <2> QED BY <2>1, <2>6 DEF Life!Next
<1>8. CASE Confirm(w)
  <2>1. run[w].pc = "confirm" /\ m \in Messages /\ run[w].got = 1
    BY <1>0, <1>8 DEF Confirm, At, SendsInv
  <2>2. /\ run'[w].pc = "post" /\ run'[w].msg = m
        /\ \A v \in Slots \ {w} : run'[v] = run[v]
        /\ status'[m] = "sent" /\ \A n \in Messages \ {m} : status'[n] = status[n]
        /\ UNCHANGED sends
    BY <1>0, <1>8, <2>1 DEF Confirm
  <2>3. \A n \in Messages, v \in Slots : Owns(v, n)' => Owns(v, n)
    BY <2>1, <2>2 DEF Owns, InProvider
  <2>4. status[m] # "none"
    BY <2>1 DEF SendsInv, Owns, InProvider
  <2>5. status'[m] \in Settled
    BY <2>2 DEF Settled
  <2> HIDE DEF m
  <2> QED BY <2>1, <2>2, <2>3, <2>4, <2>5, SettleOne
<1>9. CASE Post(w)
  <2>1. /\ run'[w].pc = "idle" /\ \A v \in Slots \ {w} : run'[v] = run[v]
        /\ UNCHANGED <<status, sends>>
    BY <1>9 DEF Post
  <2>2. \A n \in Messages, v \in Slots : Owns(v, n)' => Owns(v, n)
    BY <2>1 DEF Owns, InProvider
  <2> QED BY <2>1, <2>2, LetGo
<1>10. CASE FailMsg(w)
  <2>1. run[w].pc = "failMsg" /\ m \in Messages /\ Owns(w, m)
    BY <1>0, <1>10 DEF FailMsg, At, Owns, InProvider
  <2>2. /\ run'[w].pc = "failBox"
        /\ \A v \in Slots \ {w} : run'[v] = run[v]
        /\ status'[m] = FailStatus(run[w].why)
        /\ \A n \in Messages \ {m} : status'[n] = status[n]
        /\ UNCHANGED sends
    BY <1>0, <1>10, <2>1 DEF FailMsg
  <2>3. /\ \A n \in Messages, v \in Slots : Owns(v, n)' <=> Owns(v, n) /\ v # w
        /\ \A v \in Slots : Owns(v, m) => v = w
    BY <2>1, <2>2 DEF Owns, InProvider, SendsInv
  <2>4. CASE run[w].why = "offline"
    <3>1. sends[m] = 0 /\ status'[m] = "sending"
      BY <2>1, <2>2, <2>4 DEF SendsInv, NotSentYet, At, FailStatus
    <3>2. m \in Hands /\ Hands' = Hands \ {m}
      <4>1. \A n \in Messages \ {m} : ~Owns(w, n)
        BY <2>1 DEF Owns
      <4> QED BY <2>1, <2>3, <4>1, ViewNow, ViewNext
    <3>3. View' = [View EXCEPT ![m] = "waiting"]
      <4>1. \A n \in Messages : View'[n] = IF n = m THEN "waiting" ELSE View[n]
        BY <2>2, <3>1, ViewNow, ViewNext, ShownValues
      <4> QED BY <2>1, <4>1, ViewNext DEF View
    <3>4. Life!PutBack(m)
      BY <2>2, <3>1, <3>2, <3>3 DEF Life!PutBack, View, Hands
    <3> QED BY <2>1, <3>4 DEF Life!Next
  <2>5. CASE run[w].why # "offline"
    <3>1. status'[m] \in Settled
      BY <2>2, <2>5 DEF FailStatus, Settled
    <3>2. status[m] # "none"
      BY <2>1 DEF SendsInv
    <3> HIDE DEF m
    <3> QED BY <2>1, <2>2, <2>3, <3>1, <3>2, SettleOne
  <2> QED BY <2>4, <2>5
<1> QED
  BY <1>3, <1>4, <1>5, <1>6, <1>7, <1>8, <1>9, <1>10 DEF Dispatch
-----------------------------------------------------------------------------
(* A step that leaves the runs alone and moves messages to an outcome.     *)
LEMMA HarmlessLives ==
  ASSUME TypeOK, NewInv, Harmless, \A m \in Messages : status[m] = "none" => status'[m] = "none",
         status' \in [Messages -> Statuses]
  PROVE  Life!Next
<1> DEFINE done == {m \in Messages : status'[m] # status[m]}
<1>1. done \in SUBSET Messages
  OBVIOUS
<1>2. \A m \in done : status[m] # "none" /\ status'[m] \in Settled
  BY DEF Harmless, Statuses, Settled
<1>3. \A m \in Messages \ done : status'[m] = status[m]
  OBVIOUS
<1>4. /\ \A m \in Messages, w \in Slots : Owns(w, m)' => \E v \in Slots : Owns(v, m)
      /\ UNCHANGED sends
  BY DEF Owns, Harmless
<1> HIDE DEF done
<1> QED BY <1>1, <1>2, <1>3, <1>4, SettleStep

LEMMA NoneStays ==
  ASSUME TypeOK, NewInv,
         \/ Publisher \/ Numbers \/ TickFails \/ RedisLoss \/ Restart
         \/ \E m \in Messages :
              \/ AckPositive(m) \/ AckNegative(m) \/ DeleteRead(m) \/ DeleteRetract(m)
              \/ DeleteMark(m) \/ Stall(m) \/ Age(m)
  PROVE  \A m \in Messages : status[m] = "none" => status'[m] = "none"
<1> USE DEF dbVars, delVars
<1>0. status \in [Messages -> Statuses]
  BY DEF TypeOK
<1>1. ASSUME Recover PROVE \A m \in Messages : status[m] = "none" => status'[m] = "none"
  BY <1>1 DEF Recover, RecoveredStatus, Orphaned
<1>2. CASE Publisher
  BY <1>1, <1>2 DEF Publisher, PublishTick, PublishAdd, PublishMark
<1>3. CASE Numbers
  BY <1>3 DEF Numbers, SessionStart, SessionConnect, SessionDown, LeaseExpire
<1>4. CASE TickFails \/ RedisLoss
  BY <1>4 DEF TickFails, RedisLoss
<1>5. CASE Restart
  BY <1>1, <1>5 DEF Restart
<1>6. ASSUME NEW m \in Messages,
             \/ AckPositive(m) \/ AckNegative(m) \/ DeleteRead(m) \/ DeleteRetract(m)
             \/ DeleteMark(m) \/ Stall(m) \/ Age(m)
      PROVE  \A n \in Messages : status[n] = "none" => status'[n] = "none"
  BY <1>0, <1>6
  DEF AckPositive, AckNegative, DeleteRead, DeleteRetract, DeleteMark, Stall, Age, NewInv
<1> QED BY <1>2, <1>3, <1>4, <1>5, <1>6

LEMMA NextLives ==
  ASSUME TypeOK, SendsInv, LockInv, NewInv, 0 \notin ResultAcks, [Next]_vars
  PROVE  [Life!Next]_(Life!vars)
<1> USE DEF dbVars
<1>0. TypeOK'
  BY NextTypeOK
<1>1. CASE UNCHANGED vars
  BY <1>1, StutterStep DEF vars, Owns
<1>2. ASSUME \/ Publisher \/ Numbers \/ TickFails \/ RedisLoss \/ Restart
             \/ \E m \in Messages :
                  \/ AckPositive(m) \/ AckNegative(m) \/ DeleteRead(m) \/ DeleteRetract(m)
                  \/ DeleteMark(m) \/ Stall(m) \/ Age(m)
      PROVE  Life!Next
  <2>1. status' \in [Messages -> Statuses]
    BY <1>0 DEF TypeOK
  <2> QED BY <1>2, <2>1, HarmlessSteps, NoneStays, HarmlessLives
<1>3. ASSUME NEW m \in Messages, Enqueue(m) PROVE Life!Next
  <2>1. /\ status[m] = "none" /\ status'[m] = "sending" /\ UNCHANGED <<run, sends>>
        /\ \A n \in Messages \ {m} : status'[n] = status[n]
    BY <1>3 DEF Enqueue, TypeOK
  <2>2. View[m] = "none" /\ View' = [View EXCEPT ![m] = "waiting"]
    <3>1. \A n \in Messages : View'[n] = IF n = m THEN "waiting" ELSE View[n]
      BY <2>1, ViewNow, ViewNext, ShownValues
    <3> QED BY <2>1, <3>1, ViewNow, ViewNext, ShownValues DEF View
  <2>3. Hands' = Hands
    BY <2>1 DEF Hands, Owns
  <2>4. Life!Accept(m)
    BY <2>1, <2>2, <2>3 DEF Life!Accept, View, Hands
  <2> QED BY <2>4 DEF Life!Next
<1>4. ASSUME NEW w \in Slots, NEW m \in Messages, StartJob(w, m) PROVE UNCHANGED Life!vars
  <2>1. /\ UNCHANGED <<status, sends>> /\ run[w].pc = "idle" /\ run'[w].pc = "claim"
        /\ \A v \in Slots \ {w} : run'[v] = run[v]
    BY <1>4 DEF StartJob, TypeOK, RunTypeOK, Idle
  <2>2. \A n \in Messages, v \in Slots : Owns(v, n)' <=> Owns(v, n)
    BY <2>1 DEF Owns, InProvider
  <2> QED BY <2>1, <2>2, StutterStep
<1>5. ASSUME NEW w \in Slots, StatementFails(w) PROVE Life!Next
  <2>1. UNCHANGED <<status, sends>>
    BY <1>5 DEF StatementFails
  <2>2. \A n \in Messages, v \in Slots : Owns(v, n)' => Owns(v, n)
    <3>1. CASE Fail(w, "uncertain") /\ run[w].pc \in InProvider
      BY <3>1, RunEffect DEF Owns
    <3>2. CASE EndRun(w)
      BY <3>2, RunEffect DEF Owns, InProvider
    <3> QED BY <1>5, <3>1, <3>2 DEF StatementFails, At, InProvider
  <2> QED BY <2>1, <2>2, LetGo
<1>6. ASSUME Crash \/ Shutdown PROVE Life!Next
  <2>1. UNCHANGED <<status, sends>>
    BY <1>6 DEF Crash, Shutdown
  <2>2. \A n \in Messages, v \in Slots : Owns(v, n)' => Owns(v, n)
    BY <1>6 DEF Crash, Shutdown, Owns, Idle, At, InProvider
  <2> QED BY <2>1, <2>2, LetGo
<1> QED
  BY <1>1, <1>2, <1>3, <1>4, <1>5, <1>6, DispatchLives
  DEF Next, Workers, Requests, Environment

(* The dispatcher implements MessageLife: with its publisher, its job      *)
(* queue, its leases, its recovery and its crashes it does nothing to a    *)
(* message, or to a number, that the simple life of a message does not     *)
(* allow, for any number of messages, numbers, slots and upsets, while no  *)
(* confirmed provider call reports an ack of zero.                         *)
THEOREM ImplementsLifeHolds == ASSUME 0 \notin ResultAcks PROVE Spec => ImplementsLife
<1>1. Init => SendsInv /\ LockInv /\ NewInv
  BY DEF Init, SendsInv, LockInv, NewInv, DispatchExclusive, Owns, NotSentYet, At, AtMostOnce,
     Idle, InProvider
<1>2. TypeOK /\ SendsInv /\ LockInv /\ NewInv /\ [Next]_vars => (SendsInv /\ LockInv /\ NewInv)'
  BY SendsNext, LockNext, NewInvNext
<1>3. Init => Life!Init
  BY ShownValues DEF Init, Life!Init, Owns, Idle, InProvider
<1>4. TypeOK /\ SendsInv /\ LockInv /\ NewInv /\ [Next]_vars => [Life!Next]_(Life!vars)
  BY NextLives
<1> QED BY <1>1, <1>2, <1>3, <1>4, TypeCorrect, PTL DEF Spec, ImplementsLife, Life!Spec

-----------------------------------------------------------------------------
(* Of messages, MCOutboundDispatch does what OutboundDispatch does, or     *)
(* nothing: what is proved of that holds of it.                            *)
THEOREM RunsOutboundDispatch == SpecMC => Spec
<1>1. InitMC => Init
  BY DEF InitMC
<1>2. [NextMC]_all => [Next]_vars
  BY DEF NextMC, all, dispatch, vars, dbVars, queueVars, sessVars, delVars
<1> QED BY <1>1, <1>2, PTL DEF SpecMC, Spec

(* The parts of MCOutboundDispatch in which browsers run.                  *)

BrowserInv ==
  /\ part = "browser" => L!AloneInv
  /\ part = "overlap" => O!WatchInv

(* A number has one browser at most, whichever worker started it and       *)
(* whatever failed meanwhile, if no worker starts it while it still closes *)
(* it; and if one does, each browser still has its timer or is being       *)
(* closed (startTenantSession, closeTenantSession, renewSessionLease).     *)
THEOREM SingleBrowserHolds ==
  ASSUME Launches \subseteq Nat \ {0}, NoMessage \notin Slots
  PROVE  SpecMC => []SingleBrowser
<1>0. L!Sane /\ O!Sane
  BY DEF L!Sane, O!Sane
<1>1. InitMC => BrowserInv
  <2> SUFFICES ASSUME InitMC PROVE BrowserInv
    OBVIOUS
  <2>1. CASE part = "browser"
    BY <1>0, <2>1, L!InitAlone DEF InitMC, BrowserInv
  <2>2. CASE part = "overlap"
    <3>1. O!Init
      BY <2>2 DEF InitMC, L!Init, O!Init, L!NoAttempt, O!NoAttempt, L!NoCall, O!NoCall,
         L!CallSlots, O!CallSlots, L!Limited, O!Limited
    <3> QED BY <1>0, <2>2, <3>1, O!InitWatched DEF BrowserInv
  <2> QED BY <2>1, <2>2 DEF BrowserInv
<1>2. BrowserInv /\ [NextMC]_all => BrowserInv'
  <2> SUFFICES ASSUME BrowserInv, [NextMC]_all PROVE BrowserInv'
    OBVIOUS
  <2>1. /\ part' = part
        /\ part = "browser" => [L!Next]_(L!vars)
        /\ part = "overlap" => [O!Next]_(O!vars)
    BY DEF NextMC, all, browser, L!vars, O!vars
  <2>2. Ups["stall"] = 0
    BY DEF Ups, Limited
  <2>3. CASE part = "browser"
    BY <1>0, <2>1, <2>2, <2>3, L!NextAlone DEF BrowserInv
  <2>4. CASE part = "overlap"
    BY <1>0, <2>1, <2>4, O!NextWatched DEF BrowserInv
  <2> QED BY <2>1, <2>3, <2>4 DEF BrowserInv
<1>3. BrowserInv => SingleBrowser
  BY DEF BrowserInv, SingleBrowser, L!AloneInv, O!WatchInv, L!SingleBrowser, L!BrowserIsLeased
<1> QED BY <1>1, <1>2, <1>3, PTL DEF SpecMC
=============================================================================
