-------------------- MODULE ReceiptReconciliationProofs --------------------
(***************************************************************************)
(* Proofs about ReceiptReconciliation, for any number of events in any     *)
(* order.                                                                  *)
(***************************************************************************)
EXTENDS ReceiptReconciliation, TLAPS

LEMMA LevelOfEvent ==
  ASSUME TypeOK, NEW h \in Callers
  PROVE  ev[h] \in [pc : EventPcs, ack : -1..3, row : Rows]
  BY DEF TypeOK

LEMMA StatusType == ASSUME NEW a \in -1..3 PROVE StatusOf(a) \in Statuses
<1>1. a \in {-1, 0, 1, 2, 3}
  OBVIOUS
<1> QED BY <1>1 DEF StatusOf, Statuses

LEMMA StepType ==
  ASSUME TypeOK, NEW h \in Callers, NEW pc \in EventPcs, Step(h, pc)
  PROVE  ev' \in [Callers -> [pc : EventPcs, ack : -1..3, row : Rows]]
  BY DEF TypeOK, Step

LEMMA StartType ==
  ASSUME TypeOK, NEW h \in Callers, NEW pc \in EventPcs, NEW a \in -1..3, NEW r \in Rows,
         ev' = [ev EXCEPT ![h] = At(pc, a, r)]
  PROVE  ev' \in [Callers -> [pc : EventPcs, ack : -1..3, row : Rows]]
  BY DEF TypeOK, At

LEMMA AcknowledgedType ==
  ASSUME TypeOK, NEW h \in Callers, NEW r \in Rows
  PROVE  Acknowledged(rows[r], ev[h].ack) \in [known : BOOLEAN, ack : Levels, status : Statuses]
<1>1. /\ rows[r] \in [known : BOOLEAN, ack : Levels, status : Statuses]
      /\ ev[h].ack \in -1..3
  BY LevelOfEvent DEF TypeOK
<1>2. Larger(rows[r].ack, ev[h].ack) \in Levels
  BY <1>1 DEF Larger, Levels
<1> QED BY <1>1, <1>2, StatusType DEF Acknowledged

LEMMA ApplyType ==
  ASSUME TypeOK, NEW h \in Callers, NEW r \in Rows, ApplyTo(h, r)
  PROVE  /\ rows' \in [Rows -> [known : BOOLEAN, ack : Levels, status : Statuses]]
         /\ ev' \in [Callers -> [pc : EventPcs, ack : -1..3, row : Rows]]
<1>1. {"done", "exists"} \subseteq EventPcs
  BY DEF EventPcs
<1>2. rows' \in [Rows -> [known : BOOLEAN, ack : Levels, status : Statuses]]
  <2>1. CASE rows' = [rows EXCEPT ![r] = Acknowledged(rows[r], ev[h].ack)]
    BY <2>1, AcknowledgedType DEF TypeOK
  <2>2. CASE UNCHANGED rows
    BY <2>2 DEF TypeOK
  <2> QED BY <2>1, <2>2 DEF ApplyTo
<1> QED BY <1>1, <1>2, StepType DEF ApplyTo

LEMMA EventType == ASSUME TypeOK, NEW h \in Callers, Event(h) PROVE TypeOK'
<1> USE DEF TypeOK
<1> DEFINE evType == ev' \in [Callers -> [pc : EventPcs, ack : -1..3, row : Rows]]
           rowsType == rows' \in [Rows -> [known : BOOLEAN, ack : Levels, status : Statuses]]
<1>0. /\ {"own", "echo"} \subseteq Rows
      /\ ev[h].ack \in -1..3 /\ ev[h].row \in Rows
  BY LevelOfEvent DEF Rows
<1>1. \A pc \in EventPcs : Step(h, pc) => evType
  BY StepType
<1>2. \A r \in Rows : ApplyTo(h, r) => rowsType /\ evType
  BY ApplyType
<1>3. EventPcs = {"idle", "look", "insert", "update", "blocked", "exists", "store",
                  "revoke", "done"}
  BY DEF EventPcs
<1>4. NoEvent \in [pc : EventPcs, ack : -1..3, row : Rows]
  BY <1>0, <1>3 DEF NoEvent, At
<1>5. CASE AckEvent(h)
  <2> PICK a \in Acks :
        /\ ev' = [ev EXCEPT ![h] = At("update", a, "own")]
        /\ reported' = reported \cup {a}
    BY <1>5 DEF AckEvent
  <2>1. a \in -1..3
    BY DEF Acks
  <2>3. evType
    BY <1>0, <1>3, <2>1, StartType
  <2> QED BY <1>5, <2>1, <2>3 DEF AckEvent
<1>6. CASE AckUpdate(h)
  BY <1>0, <1>1, <1>2, <1>3, <1>6 DEF AckUpdate
<1>7. CASE AckUnblocked(h)
  BY <1>0, <1>2, <1>7 DEF AckUnblocked
<1>8. CASE AckExists(h)
  BY <1>1, <1>3, <1>8 DEF AckExists
<1>9. CASE AckStore(h)
  <2>1. early' \in -1..3 \cup {NoAck}
    BY <1>0, <1>9 DEF AckStore, EarlyMerged, Larger, NoAck
  <2>2. stored' \subseteq Levels
    <3>1. ev[h].ack > 0 => ev[h].ack \in Levels
      BY <1>0 DEF Levels
    <3> QED BY <1>9, <3>1 DEF AckStore
  <2> QED BY <1>1, <1>3, <1>9, <2>1, <2>2 DEF AckStore
<1>10. CASE EchoEvent(h)
  <2> PICK a \in Acks :
        ev' = [ev EXCEPT ![h] = At("look", a, "own")]
    BY <1>10 DEF EchoEvent
  <2>1. a \in -1..3
    BY DEF Acks
  <2>3. evType
    BY <1>0, <1>3, <2>1, StartType
  <2> QED BY <1>10, <2>3 DEF EchoEvent
<1>11. CASE EchoLook(h)
  BY <1>1, <1>3, <1>11 DEF EchoLook, AfterEcho
<1>12. CASE EchoInsert(h)
  <2>1. Larger(0, ev[h].ack) \in Levels /\ Larger(0, ev[h].ack) \in -1..3
    BY <1>0 DEF Larger, Levels
  <2>2. EchoRow(ev[h].ack) \in [known : BOOLEAN, ack : Levels, status : Statuses]
    BY <2>1, StatusType DEF EchoRow
  <2>3. rowsType
    BY <1>0, <1>12, <2>2 DEF EchoInsert
  <2> QED BY <1>1, <1>3, <1>12, <2>3 DEF EchoInsert, AfterEcho
<1>13. CASE RevokeEvent(h)
  <2> PICK r \in Rows :
        ev' = [ev EXCEPT ![h] = At("revoke", 0, r)]
    BY <1>13 DEF RevokeEvent
  <2>1. 0 \in -1..3 /\ "revoke" \in EventPcs
    BY <1>3
  <2>2. evType
    BY <2>1, StartType
  <2> QED BY <1>13, <2>2 DEF RevokeEvent
<1>14. CASE RevokeMark(h)
  <2>1. rowsType
    BY <1>0, <1>14 DEF RevokeMark, Statuses
  <2> QED BY <1>1, <1>3, <1>14, <2>1 DEF RevokeMark
<1> QED
  BY <1>5, <1>6, <1>7, <1>8, <1>9, <1>10, <1>11, <1>12, <1>13, <1>14 DEF Event

LEMMA DispatcherType == ASSUME TypeOK, Dispatcher PROVE TypeOK'
<1> USE DEF TypeOK
<1> DEFINE RunSet == [pc : RunPcs, ack : Levels, saw : BOOLEAN, got : BOOLEAN]
<1>0. /\ RunPcs = {"wire", "look", "merge", "post", "apply", "fail", "done", "failed"}
      /\ "own" \in Rows /\ "echo" \in Rows /\ Rows = {"own", "echo"}
      /\ run.ack \in Levels /\ rows["echo"].ack \in Levels
      /\ Levels \subseteq -1..3
  BY DEF RunPcs, Rows, Levels
<1>1. CASE Answer
  <2>1. ASSUME NEW a \in Levels, run' = [run EXCEPT !.pc = "look", !.ack = a, !.got = TRUE]
        PROVE  run' \in RunSet
    BY <1>0, <2>1 DEF Levels
  <2>2. run' = [run EXCEPT !.pc = "fail"] => run' \in RunSet
    BY <1>0
  <2> QED BY <1>1, <2>1, <2>2 DEF Answer
<1>2. CASE ConfirmLook
  <2>1. MergedAck(run.ack) \in Levels
    BY <1>0 DEF MergedAck, Larger
  <2>2. run' \in RunSet
    BY <1>0, <1>2, <2>1 DEF ConfirmLook
  <2> QED BY <1>2, <2>2 DEF ConfirmLook
<1>3. CASE ConfirmMerge
  <2>1. StatusOf(run.ack) \in Statuses
    BY <1>0, StatusType
  <2>2. rows' \in [Rows -> [known : BOOLEAN, ack : Levels, status : Statuses]]
    <3>1. Confirmed(run.ack) \in [known : BOOLEAN, ack : Levels, status : Statuses]
      BY <1>0, <2>1 DEF Confirmed
    <3>2. \A r \in Rows :
            Unknown(rows[r].status) \in [known : BOOLEAN, ack : Levels, status : Statuses]
      BY <1>0 DEF Unknown, Levels
    <3> QED BY <1>3, <3>1, <3>2 DEF ConfirmMerge
  <2> QED BY <1>0, <1>3, <2>2 DEF ConfirmMerge
<1>4. CASE ConfirmPost
  <2>1. early' \in -1..3 \cup {NoAck} /\ run' \in RunSet
    BY <1>0, <1>4 DEF ConfirmPost
  <2>2. ev' \in [Callers -> [pc : EventPcs, ack : -1..3, row : Rows]]
    <3>1. CASE early = NoAck
      BY <1>4, <3>1 DEF ConfirmPost
    <3>2. CASE early # NoAck
      <4>1. ev' = [ev EXCEPT ![Early] = At("update", early, "own")]
        BY <1>4, <3>2 DEF ConfirmPost
      <4>2. Early \in Callers /\ early \in -1..3 /\ "update" \in EventPcs
        BY <3>2 DEF Callers, EventPcs
      <4> QED BY <1>0, <4>1, <4>2, StartType
    <3> QED BY <3>1, <3>2
  <2> QED BY <1>4, <2>1, <2>2 DEF ConfirmPost
<1>5. CASE ConfirmApplied \/ StatementFails
  <2>1. run' \in RunSet
    BY <1>0, <1>5 DEF ConfirmApplied, StatementFails
  <2> QED BY <1>5, <2>1 DEF ConfirmApplied, StatementFails
<1>6. CASE MarkUncertain
  BY <1>0, <1>6 DEF MarkUncertain, Statuses
<1> QED BY <1>1, <1>2, <1>3, <1>4, <1>5, <1>6 DEF Dispatcher

(* Levels, statuses and handler positions stay in their ranges.            *)
THEOREM TypeCorrect == Spec => []TypeOK
<1>1. Init => TypeOK
  <2> SUFFICES ASSUME Init PROVE TypeOK
    OBVIOUS
  <2>1. NoEvent \in [pc : EventPcs, ack : -1..3, row : Rows]
    BY DEF NoEvent, At, EventPcs, Rows
  <2>2. Unknown("dispatching") \in [known : BOOLEAN, ack : Levels, status : Statuses]
    BY DEF Unknown, Levels, Statuses
  <2>3. run \in [pc : RunPcs, ack : Levels, saw : BOOLEAN, got : BOOLEAN]
    BY DEF Init, RunPcs, Levels
  <2> QED BY <2>1, <2>2, <2>3 DEF Init, TypeOK, NoAck
<1>2. TypeOK /\ UNCHANGED vars => TypeOK'
  BY DEF TypeOK, vars
<1>3. TypeOK /\ [Next]_vars => TypeOK'
  BY <1>2, EventType, DispatcherType DEF Next
<1> QED BY <1>1, <1>3, PTL DEF Spec

-----------------------------------------------------------------------------
LEMMA RowTypes ==
  ASSUME TypeOK
  PROVE  /\ Rows = {"own", "echo"}
         /\ \A r \in Rows : rows[r].ack \in Int /\ rows[r].ack >= 0
         /\ run.ack \in Int /\ run.ack >= 0
         /\ \A h \in Callers : ev[h].ack \in Int
  BY DEF TypeOK, Rows, Levels

(* What an acked row becomes: known as before, at a level no lower.        *)
LEMMA ApplyEffect ==
  ASSUME TypeOK, NEW h \in Callers, NEW r \in Rows, ApplyTo(h, r)
  PROVE  /\ \A q \in Rows : rows'[q].known = rows[q].known /\ rows'[q].ack >= rows[q].ack
         /\ \A q \in Rows \ {r} : rows'[q] = rows[q]
         /\ ~rows[r].known => UNCHANGED rows
<1>0. rows[r].ack \in Int /\ ev[h].ack \in Int
  BY RowTypes
<1>1. CASE rows' = [rows EXCEPT ![r] = Acknowledged(@, ev[h].ack)] /\ rows[r].known
  <2>1. /\ rows'[r].known = rows[r].known /\ rows'[r].ack = Larger(rows[r].ack, ev[h].ack)
        /\ \A q \in Rows \ {r} : rows'[q] = rows[q]
    BY <1>1 DEF TypeOK, Acknowledged
  <2>2. Larger(rows[r].ack, ev[h].ack) >= rows[r].ack
    BY <1>0 DEF Larger
  <2>3. \A q \in Rows \ {r} : rows'[q].known = rows[q].known /\ rows'[q].ack >= rows[q].ack
    BY <2>1, RowTypes
  <2>4. rows'[r].known = rows[r].known /\ rows'[r].ack >= rows[r].ack
    BY <2>1, <2>2
  <2> QED BY <1>1, <2>1, <2>3, <2>4
<1>2. CASE UNCHANGED rows
  BY <1>2, RowTypes
<1> QED BY <1>1, <1>2 DEF ApplyTo

LEMMA EventMerge ==
  ASSUME TypeOK, MergeInv, NEW h \in Callers, Event(h)
  PROVE  MergeInv' /\ Level' >= Level
<1> USE RowTypes DEF MergeInv, EchoLocked, Level, LevelIn
<1>0. UNCHANGED run
  BY DEF Event, AckEvent, AckUpdate, AckUnblocked, AckExists, AckStore, EchoEvent, EchoLook,
     EchoInsert, RevokeEvent, RevokeMark
<1>1. CASE UNCHANGED rows
  BY <1>0, <1>1 DEF Larger
<1>2. ASSUME NEW r \in Rows, ApplyTo(h, r), r = "echo" => ~EchoLocked
      PROVE  MergeInv' /\ Level' >= Level
  <2>1. /\ \A q \in Rows : rows'[q].known = rows[q].known /\ rows'[q].ack >= rows[q].ack
        /\ \A q \in Rows : rows'[q].ack \in Int
        /\ r = "own" => rows'["echo"] = rows["echo"]
    BY <1>2, ApplyEffect, ApplyType DEF Levels
  <2> QED BY <1>0, <1>2, <2>1 DEF Larger
<1>3. CASE EchoInsert(h)
  <2>1. CASE Exists
    BY <1>1, <1>3, <2>1 DEF EchoInsert
  <2>2. CASE ~Exists
    <3>1. ~rows["own"].known /\ ~rows["echo"].known
      BY <2>2 DEF Exists
    <3>2. rows'["own"] = rows["own"] /\ rows'["echo"].known
      BY <1>3, <2>2 DEF EchoInsert, EchoRow, TypeOK
    <3>3. rows'["echo"].ack \in Int /\ rows'["echo"].ack >= 0
      BY <1>3, EventType DEF Event, TypeOK, Rows, Levels
    <3> QED BY <1>0, <3>1, <3>2, <3>3 DEF Larger
  <2> QED BY <2>1, <2>2
<1>4. CASE RevokeMark(h)
  <2>1. \A q \in Rows : rows'[q].known = rows[q].known /\ rows'[q].ack = rows[q].ack
    BY <1>4 DEF RevokeMark, TypeOK
  <2> QED BY <1>0, <2>1 DEF Larger
<1>5. CASE AckUpdate(h)
  BY <1>1, <1>2, <1>5 DEF AckUpdate
<1>6. CASE AckUnblocked(h)
  BY <1>2, <1>6 DEF AckUnblocked
<1> QED
  BY <1>1, <1>3, <1>4, <1>5, <1>6
  DEF Event, AckEvent, AckExists, AckStore, EchoEvent, EchoLook, RevokeEvent

LEMMA DispatcherMerge ==
  ASSUME TypeOK, MergeInv, Dispatcher PROVE MergeInv' /\ Level' >= Level
<1> USE RowTypes DEF MergeInv, EchoLocked, Level, LevelIn
<1>1. CASE Answer \/ ConfirmPost \/ ConfirmApplied \/ StatementFails
  <2>1. UNCHANGED rows /\ run'.pc # "merge"
    BY <1>1 DEF Answer, ConfirmPost, ConfirmApplied, StatementFails, TypeOK
  <2>2. run.pc = "wire" \/ run'.pc \notin {"wire", "look", "merge"}
    BY <1>1 DEF Answer, ConfirmPost, ConfirmApplied, StatementFails, TypeOK
  <2> QED BY <2>1, <2>2 DEF Larger
<1>2. CASE ConfirmLook
  <2>1. UNCHANGED rows /\ run.pc = "look"
    BY <1>2 DEF ConfirmLook
  <2>2. run'.pc = "merge" /\ run'.saw = rows["echo"].known /\ run'.ack = MergedAck(run.ack)
    BY <1>2 DEF ConfirmLook, TypeOK
  <2>3. rows["echo"].known => MergedAck(run.ack) >= rows["echo"].ack
    BY DEF MergedAck, Larger
  <2> QED BY <2>1, <2>2, <2>3 DEF Larger
<1>3. CASE ConfirmMerge
  <2>1. CASE rows["echo"].known /\ ~run.saw
    BY <1>3, <2>1 DEF ConfirmMerge, TypeOK, Larger
  <2>2. CASE ~(rows["echo"].known /\ ~run.saw)
    <3>1. /\ rows'["own"].known /\ rows'["own"].ack = run.ack
          /\ ~rows'["echo"].known /\ run'.pc = "post"
      BY <1>3, <2>2 DEF ConfirmMerge, TypeOK, Confirmed, Unknown
    <3>2. ~rows["own"].known /\ run.pc = "merge"
      BY <1>3 DEF ConfirmMerge
    <3> QED BY <2>2, <3>1, <3>2 DEF Larger
  <2> QED BY <2>1, <2>2
<1>4. CASE MarkUncertain
  <2>1. \A q \in Rows : rows'[q].known = rows[q].known /\ rows'[q].ack = rows[q].ack
    BY <1>4 DEF MarkUncertain, TypeOK
  <2>2. run.pc = "fail" /\ run'.pc = "failed"
    BY <1>4 DEF MarkUncertain, TypeOK
  <2> QED BY <2>1, <2>2 DEF Larger
<1> QED BY <1>1, <1>2, <1>3, <1>4 DEF Dispatcher

LEMMA MergeNext ==
  ASSUME TypeOK, MergeInv, [Next]_vars PROVE MergeInv' /\ Level' >= Level
<1>1. CASE UNCHANGED vars
  BY <1>1, RowTypes DEF vars, MergeInv, EchoLocked, Level, LevelIn, Larger
<1> QED BY <1>1, EventMerge, DispatcherMerge DEF Next

LEMMA MergeInvariant == Spec => [](TypeOK /\ MergeInv)
<1>1. Init => MergeInv
  BY DEF Init, MergeInv, EchoLocked, Unknown, Rows
<1>2. TypeOK /\ MergeInv /\ [Next]_vars => MergeInv'
  BY MergeNext
<1> QED BY <1>1, <1>2, TypeCorrect, PTL DEF Spec

(* The level the inbox has for a message never falls, in whatever order    *)
(* the acks, the echo and the answer of the send call arrive.              *)
THEOREM LevelNeverFallsHolds == Spec => LevelNeverFalls
<1>1. TypeOK /\ MergeInv /\ [Next]_vars => [Level' >= Level]_vars
  BY MergeNext
<1> QED BY <1>1, MergeInvariant, PTL DEF Spec, LevelNeverFalls

-----------------------------------------------------------------------------
(* What StatusMatchesAck says of one row.                                  *)
Ticks == {"sending", "sent", "delivered", "read"}
Agrees(row) == row.known /\ row.status \in Ticks => row.status = StatusOf(row.ack)

LEMMA AgreesIsStatusMatchesAck == StatusMatchesAck <=> \A r \in Rows : Agrees(rows[r])
  BY DEF StatusMatchesAck, Agrees, Ticks

(* An error on a row without an ack shows "failed", which is no tick; any  *)
(* other ack that changes the row is above its level.                      *)
LEMMA AcknowledgedAgrees ==
  ASSUME NEW k \in BOOLEAN, NEW n \in Levels, NEW s \in Statuses, NEW a \in -1..3,
         NEW row, row = [known |-> k, ack |-> n, status |-> s], Raises(row, a)
  PROVE  Agrees(Acknowledged(row, a))
<1>1. Acknowledged(row, a).status = StatusOf(a) /\ Acknowledged(row, a).ack = Larger(n, a)
  BY DEF Acknowledged
<1>2. CASE a < 0
  <2>1. StatusOf(a) = "failed"
    BY <1>2 DEF StatusOf
  <2> QED BY <1>1, <2>1 DEF Agrees, Ticks
<1>3. CASE a >= 0
  <2>1. n < a
    BY <1>3 DEF Raises
  <2>2. Larger(n, a) = a
    BY <2>1 DEF Larger, Levels
  <2> QED BY <1>1, <2>2 DEF Agrees
<1> QED BY <1>2, <1>3

LEMMA ApplyAgrees ==
  ASSUME TypeOK, \A q \in Rows : Agrees(rows[q]), NEW h \in Callers, NEW r \in Rows, ApplyTo(h, r)
  PROVE  \A q \in Rows : Agrees(rows'[q])
<1>1. CASE /\ rows' = [rows EXCEPT ![r] = Acknowledged(@, ev[h].ack)]
           /\ Raises(rows[r], ev[h].ack)
  <2>1. /\ rows[r].known \in BOOLEAN /\ rows[r].ack \in Levels /\ rows[r].status \in Statuses
        /\ rows[r] = [known |-> rows[r].known, ack |-> rows[r].ack, status |-> rows[r].status]
        /\ ev[h].ack \in -1..3
    BY LevelOfEvent DEF TypeOK
  <2>2. Agrees(Acknowledged(rows[r], ev[h].ack))
    BY <1>1, <2>1, AcknowledgedAgrees
  <2>3. /\ rows'[r] = Acknowledged(rows[r], ev[h].ack)
        /\ \A q \in Rows \ {r} : rows'[q] = rows[q]
    BY <1>1 DEF TypeOK
  <2>4. \A q \in Rows : q = r \/ q \in Rows \ {r}
    OBVIOUS
  <2> QED BY <2>2, <2>3, <2>4
<1>2. CASE UNCHANGED rows
  BY <1>2
<1> QED BY <1>1, <1>2 DEF ApplyTo

LEMMA AgreesNext ==
  ASSUME TypeOK, \A q \in Rows : Agrees(rows[q]), [Next]_vars
  PROVE  \A q \in Rows : Agrees(rows'[q])
<1>0. Rows = {"own", "echo"}
  BY DEF Rows
<1>1. CASE UNCHANGED rows
  BY <1>1
<1>2. ASSUME NEW h \in Callers, NEW r \in Rows, ApplyTo(h, r)
      PROVE  \A q \in Rows : Agrees(rows'[q])
  BY <1>2, ApplyAgrees
<1>3. ASSUME NEW h \in Callers, EchoInsert(h)
      PROVE  \A q \in Rows : Agrees(rows'[q])
  <2>1. Agrees(EchoRow(ev[h].ack))
    BY DEF Agrees, EchoRow
  <2>2. CASE rows' = [rows EXCEPT !["echo"] = EchoRow(ev[h].ack)]
    <3>1. rows'["own"] = rows["own"] /\ rows'["echo"] = EchoRow(ev[h].ack)
      BY <1>0, <2>2 DEF TypeOK
    <3> QED BY <1>0, <2>1, <3>1
  <2> QED BY <1>1, <1>3, <2>2 DEF EchoInsert
<1>4. ASSUME NEW h \in Callers, RevokeMark(h)
      PROVE  \A q \in Rows : Agrees(rows'[q])
  <2>1. CASE rows' = [rows EXCEPT ![ev[h].row].status = "deleted"]
    <3>1. ASSUME NEW q \in Rows PROVE rows'[q] = rows[q] \/ rows'[q].status = "deleted"
      BY <2>1 DEF TypeOK
    <3> QED BY <3>1 DEF Agrees, Ticks
  <2> QED BY <1>1, <1>4, <2>1 DEF RevokeMark
<1>5. CASE ConfirmMerge
  <2>1. Agrees(Confirmed(run.ack))
    BY DEF Agrees, Confirmed
  <2>2. \A s : Agrees(Unknown(s))
    BY DEF Agrees, Unknown
  <2>3. CASE rows' = [r \in Rows |-> IF r = "own" THEN Confirmed(run.ack)
                                   ELSE Unknown(rows[r].status)]
    <3>1. rows'["own"] = Confirmed(run.ack) /\ rows'["echo"] = Unknown(rows["echo"].status)
      BY <1>0, <2>3
    <3> QED BY <1>0, <2>1, <2>2, <3>1
  <2> QED BY <1>1, <1>5, <2>3 DEF ConfirmMerge
<1>6. CASE MarkUncertain
  <2>1. ASSUME NEW q \in Rows PROVE rows'[q] = rows[q] \/ rows'[q].status = "uncertain"
    BY <1>6 DEF MarkUncertain, TypeOK
  <2> QED BY <2>1 DEF Agrees, Ticks
<1>7. ASSUME Dispatcher PROVE \A q \in Rows : Agrees(rows'[q])
  BY <1>1, <1>5, <1>6, <1>7
  DEF Dispatcher, Answer, ConfirmLook, ConfirmPost, ConfirmApplied, StatementFails
<1>8. ASSUME NEW h \in Callers, Event(h) PROVE \A q \in Rows : Agrees(rows'[q])
  <2>1. CASE AckUpdate(h)
    BY <1>0, <1>1, <1>2, <2>1 DEF AckUpdate
  <2>2. CASE AckUnblocked(h)
    BY <1>0, <1>2, <2>2 DEF AckUnblocked
  <2> QED
    BY <1>1, <1>3, <1>4, <1>8, <2>1, <2>2
    DEF Event, AckEvent, AckExists, AckStore, EchoEvent, EchoLook, RevokeEvent
<1>9. CASE UNCHANGED vars
  BY <1>1, <1>9 DEF vars
<1> QED BY <1>7, <1>8, <1>9 DEF Next

(* Ticks and level agree in both rows, whatever acks, echoes, revocations  *)
(* and merges follow each other.                                           *)
THEOREM StatusMatchesAckHolds == Spec => []StatusMatchesAck
<1> DEFINE I == \A q \in Rows : Agrees(rows[q])
<1>1. Init => I
  BY DEF Init, Unknown, Agrees
<1>2. TypeOK /\ I /\ [Next]_vars => I'
  BY AgreesNext
<1>3. I => StatusMatchesAck
  BY AgreesIsStatusMatchesAck
<1> HIDE DEF I
<1> QED BY <1>1, <1>2, <1>3, TypeCorrect, PTL DEF Spec

-----------------------------------------------------------------------------
(* The early receipts.  What the run and the handlers do to the message's  *)
(* own row: once it carries the id it keeps it, at a level that only       *)
(* rises.                                                                  *)
LEMMA OwnRises ==
  ASSUME TypeOK, MergeInv, rows["own"].known, [Next]_vars
  PROVE  rows'["own"].known /\ rows'["own"].ack >= rows["own"].ack
<1>0. /\ "own" \in Rows /\ "echo" \in Rows /\ Rows = {"own", "echo"}
      /\ run.pc \notin {"wire", "look", "merge"}
      /\ rows["own"].ack \in Int
  BY DEF MergeInv, TypeOK, Rows, Levels
<1> DEFINE Goal == rows'["own"].known /\ rows'["own"].ack >= rows["own"].ack
<1>1. CASE UNCHANGED rows
  BY <1>0, <1>1
<1>2. ASSUME NEW h \in Callers, NEW r \in Rows, ApplyTo(h, r) PROVE Goal
  BY <1>0, <1>2, ApplyEffect
<1>3. ASSUME NEW h \in Callers, Event(h) PROVE Goal
  <2>1. CASE AckUpdate(h)
    BY <1>0, <1>1, <1>2, <2>1 DEF AckUpdate
  <2>2. CASE AckUnblocked(h)
    BY <1>0, <1>2, <2>2 DEF AckUnblocked
  <2>3. CASE EchoInsert(h)
    BY <1>0, <1>1, <2>3 DEF EchoInsert, Exists
  <2>4. CASE RevokeMark(h)
    BY <1>0, <1>1, <2>4 DEF RevokeMark, TypeOK
  <2> QED
    BY <1>1, <1>3, <2>1, <2>2, <2>3, <2>4
    DEF Event, AckEvent, AckExists, AckStore, EchoEvent, EchoLook, RevokeEvent
<1>4. CASE MarkUncertain
  BY <1>0, <1>4 DEF MarkUncertain, TypeOK
<1>5. ASSUME Dispatcher PROVE Goal
  BY <1>0, <1>1, <1>4, <1>5
  DEF Dispatcher, Answer, ConfirmLook, ConfirmMerge, ConfirmPost, ConfirmApplied, StatementFails
<1>6. CASE UNCHANGED vars
  BY <1>1, <1>6 DEF vars
<1> QED BY <1>3, <1>5, <1>6 DEF Next

LEMMA CoversMore ==
  ASSUME TypeOK, NEW a \in Int, NEW b \in Int, Covers(a), b >= a PROVE Covers(b)
<1>1. \A s \in stored : s \in Int
  BY DEF TypeOK, Levels
<1> QED BY <1>1 DEF Covers

(* A receipt that finds no row is merged into early_receipts: what it      *)
(* joins, or replaces, is covered by what is kept.                         *)
LEMMA StoreCovers ==
  ASSUME TypeOK, NEW h \in Callers, AckStore(h), run.pc \in {"wire", "look", "merge", "post"},
         Covers(early)
  PROVE  Covers(early)'
<1>1. /\ early' = EarlyMerged(early, ev[h].ack)
      /\ stored' = IF ev[h].ack > 0 THEN stored \cup {ev[h].ack} ELSE {}
  BY DEF AckStore
<1>2. /\ ev[h].ack \in Int /\ early \in Int
      /\ \A s \in stored : s \in Int /\ s >= 0
  BY LevelOfEvent DEF TypeOK, Levels, NoAck
<1>3. CASE ev[h].ack > 0
  <2>1. early' >= ev[h].ack /\ \A s \in stored : early' >= s
    BY <1>1, <1>2, <1>3 DEF EarlyMerged, Larger, Covers, NoAck
  <2> QED BY <1>1, <1>3, <2>1 DEF Covers
<1>4. CASE ~(ev[h].ack > 0)
  BY <1>1, <1>4 DEF Covers
<1> QED BY <1>3, <1>4

(* A step of another event leaves the run's own call alone.                *)
LEMMA OthersKeepEarly ==
  ASSUME TypeOK, NEW h \in Callers, h # Early, Event(h)
  PROVE  ev'[Early] = ev[Early]
<1>1. Early \in Callers
  BY DEF Callers
<1>2. ASSUME NEW x, ev' = [ev EXCEPT ![h] = x] PROVE ev'[Early] = ev[Early]
  BY <1>1, <1>2 DEF TypeOK
<1>3. ASSUME NEW pc, Step(h, pc) PROVE ev'[Early] = ev[Early]
  BY <1>1, <1>3 DEF TypeOK, Step
<1>4. ASSUME NEW r \in Rows, ApplyTo(h, r) PROVE ev'[Early] = ev[Early]
  BY <1>3, <1>4 DEF ApplyTo
<1>5. CASE AckUpdate(h) \/ AckUnblocked(h)
  BY <1>3, <1>4, <1>5 DEF AckUpdate, AckUnblocked, Rows
<1>6. CASE AckEvent(h) \/ EchoEvent(h) \/ RevokeEvent(h)
  BY <1>2, <1>6 DEF AckEvent, EchoEvent, RevokeEvent
<1>7. CASE AckExists(h) \/ AckStore(h) \/ EchoLook(h) \/ EchoInsert(h) \/ RevokeMark(h)
  BY <1>3, <1>7 DEF AckExists, AckStore, EchoLook, EchoInsert, RevokeMark
<1> QED BY <1>5, <1>6, <1>7 DEF Event

(* The call dispatchMessage makes itself, while the run waits for it.      *)
LEMMA OwnCall ==
  ASSUME TypeOK, rows["own"].known, Event(Early),
         \/ EventIs(Early, "update") /\ Covers(ev[Early].ack)
         \/ ev[Early].pc \in {"exists", "done"} /\ Covers(rows["own"].ack)
  PROVE  /\ UNCHANGED <<run, early, stored>>
         /\ ev'[Early].pc \in {"exists", "done"} /\ Covers(rows'["own"].ack)
<1>0. /\ Early \in Callers /\ Early \notin Handlers
      /\ "own" \in Rows
      /\ ev[Early].ack \in -1..3 /\ rows["own"].ack \in Levels
      /\ DOMAIN ev = Callers
  BY LevelOfEvent, ReceiptAssumption DEF Callers, Rows, TypeOK
<1>1. CASE EventIs(Early, "update") /\ Covers(ev[Early].ack)
  <2>1. AckUpdate(Early)
    BY <1>0, <1>1 DEF Event, EventIs, AckEvent, AckUnblocked, AckExists, AckStore, EchoEvent,
       EchoLook, EchoInsert, RevokeEvent, RevokeMark
  <2>2. UNCHANGED <<run, early, stored>> /\ ApplyTo(Early, "own")
    BY <2>1 DEF AckUpdate
  <2>3. ev'[Early].pc \in {"exists", "done"}
    BY <1>0, <2>2 DEF ApplyTo, Step, TypeOK
  <2>4. rows'["own"].ack \in Int /\ rows'["own"].ack >= ev[Early].ack
    <3>1. CASE Raises(rows["own"], ev[Early].ack)
      <4>0. rows'["own"] = Acknowledged(rows["own"], ev[Early].ack)
        BY <1>0, <2>2, <3>1 DEF ApplyTo, TypeOK
      <4>1. rows'["own"].ack = Larger(rows["own"].ack, ev[Early].ack)
        <5>1. rows["own"] \in [known : BOOLEAN, ack : Levels, status : Statuses]
          BY <1>0 DEF TypeOK
        <5> QED BY <4>0, <5>1 DEF Acknowledged
      <4> QED BY <1>0, <4>1 DEF Larger, Levels
    <3>2. CASE ~Raises(rows["own"], ev[Early].ack)
      <4>1. UNCHANGED rows
        BY <2>2, <3>2 DEF ApplyTo
      <4> QED BY <1>0, <3>2, <4>1 DEF Raises, Levels
    <3> QED BY <3>1, <3>2
  <2> QED BY <1>0, <1>1, <2>2, <2>3, <2>4, CoversMore
<1>2. CASE ev[Early].pc \in {"exists", "done"} /\ Covers(rows["own"].ack)
  <2>1. AckExists(Early)
    BY <1>0, <1>2 DEF Event, EventIs, AckEvent, AckUpdate, AckUnblocked, AckStore, EchoEvent,
       EchoLook, EchoInsert, RevokeEvent, RevokeMark
  <2>2. UNCHANGED <<run, early, stored, rows>> /\ ev'[Early].pc = "done"
    BY <1>0, <2>1 DEF AckExists, Exists, Step, TypeOK
  <2> QED BY <1>2, <2>2
<1> QED BY <1>1, <1>2

LEMMA EarlyEvent ==
  ASSUME TypeOK, MergeInv, EarlyInv, NEW h \in Callers, Event(h) PROVE EarlyInv'
<1>0. UNCHANGED run
  BY DEF Event, AckEvent, AckUpdate, AckUnblocked, AckExists, AckStore, EchoEvent, EchoLook,
     EchoInsert, RevokeEvent, RevokeMark
<1>1. run.pc \in {"wire", "look", "merge", "post"} => Covers(early)'
  <2>1. CASE AckStore(h)
    BY <2>1, StoreCovers DEF EarlyInv
  <2>2. CASE UNCHANGED <<early, stored>>
    BY <2>2 DEF EarlyInv, Covers
  <2> QED
    BY <2>1, <2>2 DEF Event, AckEvent, AckUpdate, AckUnblocked, AckExists, EchoEvent,
       EchoLook, EchoInsert, RevokeEvent, RevokeMark
<1>2. run.pc \in {"apply", "done"} => UNCHANGED stored
  BY DEF Event, AckStore, AckEvent, AckUpdate, AckUnblocked, AckExists, EchoEvent,
     EchoLook, EchoInsert, RevokeEvent, RevokeMark
<1>3. run.pc \in {"post", "apply", "done"} =>
        /\ rows["own"].known /\ rows'["own"].known
        /\ rows["own"].ack \in Int /\ rows'["own"].ack \in Int
        /\ rows'["own"].ack >= rows["own"].ack
  <2>1. TypeOK' /\ [Next]_vars
    BY EventType DEF Next
  <2> QED BY <2>1, OwnRises DEF EarlyInv, TypeOK, Rows, Levels
<1>4. run.pc \in {"apply", "done"} /\ Covers(rows["own"].ack) => Covers(rows["own"].ack)'
  <2>1. run.pc \in {"apply", "done"} /\ Covers(rows["own"].ack) => Covers(rows'["own"].ack)
    BY <1>3, CoversMore
  <2> QED BY <1>2, <2>1 DEF Covers
<1>5. ASSUME run.pc = "apply"
      PROVE  (\/ EventIs(Early, "update") /\ Covers(ev[Early].ack)
              \/ ev[Early].pc \in {"exists", "done"} /\ Covers(rows["own"].ack))'
  <2>1. CASE h = Early
    <3>1. ev'[Early].pc \in {"exists", "done"} /\ Covers(rows'["own"].ack)
      BY <1>3, <1>5, <2>1, OwnCall DEF EarlyInv
    <3> QED BY <1>2, <1>5, <3>1 DEF Covers
  <2>2. CASE h # Early
    <3>1. ev'[Early] = ev[Early]
      BY <2>2, OthersKeepEarly
    <3> QED BY <1>2, <1>4, <1>5, <3>1 DEF EarlyInv, EventIs, Covers
  <2> QED BY <2>1, <2>2
<1> QED BY <1>0, <1>1, <1>3, <1>4, <1>5 DEF EarlyInv

LEMMA EarlyDispatcher ==
  ASSUME TypeOK, MergeInv, EarlyInv, Dispatcher PROVE EarlyInv'
<1>0. /\ "own" \in Rows /\ "echo" \in Rows /\ Rows = {"own", "echo"}
      /\ \A p : [run EXCEPT !.pc = p].pc = p
      /\ Early \in Callers
  BY DEF Rows, TypeOK, Callers
<1> USE <1>0 DEF Covers
<1>1. CASE Answer \/ ConfirmLook \/ StatementFails
  <2>1. /\ UNCHANGED <<rows, early, ev, stored>>
        /\ run.pc \in {"wire", "look", "merge", "post"}
        /\ run'.pc \in {"look", "merge", "fail"}
    BY <1>1 DEF Answer, ConfirmLook, StatementFails, TypeOK
  <2> QED BY <2>1 DEF EarlyInv
<1>2. CASE ConfirmMerge
  <2>1. UNCHANGED <<early, ev, stored>> /\ run.pc = "merge"
    BY <1>2 DEF ConfirmMerge
  <2>2. run'.pc = "fail" \/ (run'.pc = "post" /\ rows'["own"].known)
    BY <1>2 DEF ConfirmMerge, Confirmed, TypeOK
  <2> QED BY <2>1, <2>2 DEF EarlyInv
<1>3. CASE ConfirmPost
  <2>1. /\ UNCHANGED <<rows, stored>> /\ run.pc = "post"
        /\ rows["own"].known /\ Covers(early)
    BY <1>3 DEF ConfirmPost, EarlyInv
  <2>2. CASE early = NoAck
    <3>1. run'.pc = "done"
      BY <1>3, <2>2 DEF ConfirmPost, TypeOK
    <3>2. \A s \in stored : FALSE
      BY <2>1, <2>2 DEF NoAck, TypeOK, Levels
    <3> QED BY <2>1, <3>1, <3>2 DEF EarlyInv
  <2>3. CASE early # NoAck
    <3>1. run'.pc = "apply" /\ ev'[Early] = At("update", early, "own")
      BY <1>3, <2>3 DEF ConfirmPost, TypeOK
    <3>2. ev'[Early].pc = "update" /\ ev'[Early].ack = early
      BY <3>1 DEF At
    <3> QED BY <2>1, <3>1, <3>2 DEF EarlyInv, EventIs
  <2> QED BY <2>2, <2>3
<1>4. CASE ConfirmApplied
  <2>1. /\ UNCHANGED <<rows, ev, stored>> /\ run.pc = "apply" /\ ev[Early].pc = "done"
        /\ run'.pc = "done"
    BY <1>4 DEF ConfirmApplied, EventIs, TypeOK
  <2> QED BY <2>1 DEF EarlyInv, EventIs
<1>5. CASE MarkUncertain
  <2>1. run'.pc = "failed"
    BY <1>5 DEF MarkUncertain, TypeOK
  <2> QED BY <2>1 DEF EarlyInv
<1> QED BY <1>1, <1>2, <1>3, <1>4, <1>5 DEF Dispatcher

LEMMA EarlyNext ==
  ASSUME TypeOK, MergeInv, EarlyInv, [Next]_vars PROVE EarlyInv'
<1>1. CASE UNCHANGED vars
  BY <1>1 DEF vars, EarlyInv, Covers, EventIs
<1> QED BY <1>1, EarlyEvent, EarlyDispatcher DEF Next

(* A receipt that arrived before the send was confirmed is on the message  *)
(* when its run ends: none is lost between the row of early_receipts, the  *)
(* call that applies it and the row it is applied to.                      *)
THEOREM EarlyAckAppliedHolds == Spec => []EarlyAckApplied
<1>1. Init => EarlyInv
  BY DEF Init, EarlyInv, Covers
<1>2. TypeOK /\ MergeInv /\ EarlyInv /\ [Next]_vars => EarlyInv'
  BY EarlyNext
<1>3. EarlyInv => EarlyAckApplied
  BY DEF EarlyInv, EarlyAckApplied, Covers
<1> QED BY <1>1, <1>2, <1>3, MergeInvariant, PTL DEF Spec
=============================================================================
