----------------------- MODULE ReceiptReconciliation -----------------------
(***************************************************************************)
(* How the delivery state of one outgoing message is put together from the *)
(* answer of the send call and from the events WhatsApp raises about it:   *)
(* acknowledgements, the echo of the message itself, a revocation          *)
(* (dispatchMessage, handleAckEvent, handleIncomingMessage and             *)
(* handleRevokedMessage).                                                  *)
(*                                                                         *)
(* Each event is handled by its own asynchronous handler on its own        *)
(* database connection, in READ COMMITTED: an action is one statement, or  *)
(* the rest of a transaction once it holds the row it decides about.  Two  *)
(* rows may carry the provider's message id: the message itself ("own")    *)
(* once its send is confirmed, and the row an echo inserted before that    *)
(* ("echo").  A unique index keeps both from carrying it at once.          *)
(***************************************************************************)
EXTENDS Integers, FiniteSets, TLC

CONSTANTS
  Handlers,    \* event deliveries: the number of events is the bound
  Early        \* the handleAckEvent call dispatchMessage makes itself

ASSUME ReceiptAssumption == Early \notin Handlers

(* For TLC: every event handler runs the same code. *)
HandlerSymmetry == Permutations(Handlers)

VARIABLES
  rows,    \* the rows of messages: known means it carries the provider id
  early,   \* early_receipts.ack for the provider id, NoAck without a row
  run,     \* the dispatchMessage call, from the send to its end
  ev,      \* the event handlers
  stored,  \* history: levels kept for the run since the last one that was not positive
  reported \* history: levels whose event was delivered

vars == <<rows, early, run, ev, stored, reported>>

-----------------------------------------------------------------------------
Rows == {"own", "echo"}
Levels == 0..3
Acks == -1..3  \* what an event reports, -1 is an error
NoAck == -2
Statuses == {"dispatching", "sending", "sent", "delivered", "read", "failed",
             "uncertain", "deleted"}
Callers == Handlers \cup {Early}
RunPcs == {"wire", "look", "merge", "post", "apply", "fail", "done", "failed"}
EventPcs == {"idle", "look", "insert", "update", "blocked", "exists", "store",
             "revoke", "done"}

TypeOK ==
  /\ rows \in [Rows -> [known : BOOLEAN, ack : Levels, status : Statuses]]
  /\ early \in -1..3 \cup {NoAck}
  /\ run \in [pc : RunPcs, ack : Levels, saw : BOOLEAN, got : BOOLEAN]
  /\ ev \in [Callers -> [pc : EventPcs, ack : -1..3, row : Rows]]
  /\ stored \subseteq Levels
  /\ reported \subseteq -1..3

Unknown(status) == [known |-> FALSE, ack |-> 0, status |-> status]
At(pc, a, r) == [pc |-> pc, ack |-> a, row |-> r]
NoEvent == At("idle", 0, "own")

Init ==
  /\ rows = [r \in Rows |-> Unknown("dispatching")]
  /\ early = NoAck
  /\ run = [pc |-> "wire", ack |-> 0, saw |-> FALSE, got |-> FALSE]
  /\ ev = [h \in Callers |-> NoEvent]
  /\ stored = {}
  /\ reported = {}

Larger(a, b) == IF a >= b THEN a ELSE b

StatusOf(a) ==
  CASE a < 0 -> "failed"
    [] a = 0 -> "sending"
    [] a = 1 -> "sent"
    [] a = 2 -> "delivered"
    [] a >= 3 -> "read"

Exists == \E r \in Rows : rows[r].known

(* SELECT ... FOR UPDATE of the confirming transaction: while it is open,  *)
(* updates of the echo wait for it.                                        *)
EchoLocked == run.pc = "merge" /\ run.saw

-----------------------------------------------------------------------------
(* handleAckEvent. *)
EventIs(h, pc) == ev[h].pc = pc

Step(h, pc) == ev' = [ev EXCEPT ![h].pc = pc]

Raises(row, a) == row.ack < a \/ (a < 0 /\ row.ack = 0 /\ row.status # "failed")

\* Mutant: the status follows the previous level.
AcknowledgedStale(row, a) == [row EXCEPT !.ack = Larger(@, a), !.status = StatusOf(row.ack)]

\* Mutant: the level is overwritten instead of raised.
AcknowledgedRaw(row, a) == [row EXCEPT !.ack = a, !.status = StatusOf(a)]

Acknowledged(row, a) == [row EXCEPT !.ack = Larger(@, a), !.status = StatusOf(a)]

(* UPDATE ... WHERE provider_message_id: on the row that carries the id.   *)
ApplyTo(h, r) ==
  IF rows[r].known /\ Raises(rows[r], ev[h].ack)
  THEN /\ rows' = [rows EXCEPT ![r] = Acknowledged(@, ev[h].ack)]
       /\ Step(h, "done")
  ELSE /\ Step(h, "exists")
       /\ UNCHANGED rows

AckUpdate(h) ==
  /\ EventIs(h, "update")
  /\ IF rows["own"].known THEN ApplyTo(h, "own")
     ELSE IF rows["echo"].known /\ EchoLocked THEN Step(h, "blocked") /\ UNCHANGED rows
     ELSE ApplyTo(h, "echo")
  /\ UNCHANGED <<early, run, stored, reported>>

(* The update waited for a lock on the echo.  It looks at that row again,  *)
(* and at no other: if the transaction deleted it, nothing is updated.     *)
AckUnblocked(h) ==
  /\ EventIs(h, "blocked")
  /\ ~EchoLocked
  /\ ApplyTo(h, "echo")
  /\ UNCHANGED <<early, run, stored, reported>>

AckExists(h) ==
  /\ EventIs(h, "exists")
  /\ Step(h, IF Exists THEN "done" ELSE "store")
  /\ UNCHANGED <<rows, early, run, stored, reported>>

\* Mutant: the last early receipt replaces the one before.
EarlyLast(old, a) == a

EarlyMerged(old, a) ==
  IF old = NoAck THEN a
  ELSE IF a > 0 THEN Larger(old, a)
  ELSE IF a <= old THEN a ELSE old

AckStore(h) ==
  /\ EventIs(h, "store")
  /\ early' = EarlyMerged(early, ev[h].ack)
  /\ stored' = IF run.pc \notin {"wire", "look", "merge", "post"} THEN stored
               ELSE IF ev[h].ack > 0 THEN stored \cup {ev[h].ack} ELSE {}
  /\ Step(h, "done")
  /\ UNCHANGED <<rows, run, reported>>

AckEvent(h) ==
  /\ h \in Handlers /\ EventIs(h, "idle")
  /\ \E a \in Acks :
       /\ ev' = [ev EXCEPT ![h] = At("update", a, "own")]
       /\ reported' = reported \cup {a}
  /\ UNCHANGED <<rows, early, run, stored>>

-----------------------------------------------------------------------------
(* handleIncomingMessage for a message of our own: it is stored unless a   *)
(* row carries its id, and then handled as an ack of the level it carries. *)
EchoEvent(h) ==
  /\ h \in Handlers /\ EventIs(h, "idle")
  /\ \E a \in Acks :
       ev' = [ev EXCEPT ![h] = At("look", a, "own")]
  /\ UNCHANGED <<rows, early, run, stored, reported>>

AfterEcho(h) == IF ev[h].ack = 0 THEN "done" ELSE "update"

EchoLook(h) ==
  /\ EventIs(h, "look")
  /\ Step(h, IF Exists THEN AfterEcho(h) ELSE "insert")
  /\ UNCHANGED <<rows, early, run, stored, reported>>

EchoRow(a) ==
  [known |-> TRUE, ack |-> Larger(0, a), status |-> StatusOf(Larger(0, a))]

EchoInsert(h) ==
  /\ EventIs(h, "insert")
  /\ rows' = IF Exists THEN rows ELSE [rows EXCEPT !["echo"] = EchoRow(ev[h].ack)]
  /\ Step(h, AfterEcho(h))
  /\ UNCHANGED <<early, run, stored, reported>>

(* handleRevokedMessage: finds the row, then marks that row by its id.     *)
RevokeEvent(h) ==
  /\ h \in Handlers /\ EventIs(h, "idle")
  /\ \E r \in Rows :
       /\ rows[r].known
       /\ ev' = [ev EXCEPT ![h] = At("revoke", 0, r)]
  /\ UNCHANGED <<rows, early, run, stored, reported>>

RevokeMark(h) ==
  /\ EventIs(h, "revoke")
  /\ ev[h].row = "echo" => ~EchoLocked
  /\ rows' = IF rows[ev[h].row].known
             THEN [rows EXCEPT ![ev[h].row].status = "deleted"] ELSE rows
  /\ Step(h, "done")
  /\ UNCHANGED <<early, run, stored, reported>>

-----------------------------------------------------------------------------
(* dispatchMessage once the provider has been called. *)
Answer ==
  /\ run.pc = "wire"
  /\ \/ \E a \in Levels : run' = [run EXCEPT !.pc = "look", !.ack = a, !.got = TRUE]
     \/ run' = [run EXCEPT !.pc = "fail"]
  /\ UNCHANGED <<rows, early, ev, stored, reported>>

\* Mutant: the level the echo has reached is left behind.
MergedAckResult(result) == result

MergedAck(result) ==
  IF rows["echo"].known THEN Larger(result, rows["echo"].ack) ELSE result

ConfirmLook ==
  /\ run.pc = "look"
  /\ run' = [run EXCEPT !.pc = "merge", !.ack = MergedAck(@), !.saw = rows["echo"].known]
  /\ UNCHANGED <<rows, early, ev, stored, reported>>

Confirmed(a) == [known |-> TRUE, ack |-> a, status |-> StatusOf(a)]

(* The echo it saw is deleted, its own row takes the id.  An echo inserted *)
(* since then makes the unique index refuse the update.                    *)
ConfirmMerge ==
  /\ run.pc = "merge"
  /\ IF rows["echo"].known /\ ~run.saw
     THEN /\ run' = [run EXCEPT !.pc = "fail"]
          /\ UNCHANGED rows
     ELSE /\ rows' = [r \in Rows |-> IF r = "own" THEN Confirmed(run.ack)
                                    ELSE Unknown(rows[r].status)]
          /\ run' = [run EXCEPT !.pc = "post"]
  /\ UNCHANGED <<early, ev, stored, reported>>

ConfirmPost ==
  /\ run.pc = "post"
  /\ early' = NoAck
  /\ IF early = NoAck
     THEN /\ run' = [run EXCEPT !.pc = "done"]
          /\ UNCHANGED ev
     ELSE /\ run' = [run EXCEPT !.pc = "apply"]
          /\ ev' = [ev EXCEPT ![Early] = At("update", early, "own")]
  /\ UNCHANGED <<rows, stored, reported>>

ConfirmApplied ==
  /\ run.pc = "apply"
  /\ EventIs(Early, "done")
  /\ run' = [run EXCEPT !.pc = "done"]
  /\ UNCHANGED <<rows, early, ev, stored, reported>>

(* A failing statement rolls its transaction back and lands in the catch.  *)
StatementFails ==
  /\ run.pc \in {"look", "merge", "post"}
  /\ run' = [run EXCEPT !.pc = "fail"]
  /\ UNCHANGED <<rows, early, ev, stored, reported>>

MarkUncertain ==
  /\ run.pc = "fail"
  /\ rows' = [rows EXCEPT !["own"].status = "uncertain"]
  /\ run' = [run EXCEPT !.pc = "failed"]
  /\ UNCHANGED <<early, ev, stored, reported>>

-----------------------------------------------------------------------------
Dispatcher ==
  \/ Answer \/ ConfirmLook \/ ConfirmMerge \/ ConfirmPost \/ ConfirmApplied
  \/ StatementFails \/ MarkUncertain

Event(h) ==
  \/ AckEvent(h) \/ AckUpdate(h) \/ AckUnblocked(h) \/ AckExists(h) \/ AckStore(h)
  \/ EchoEvent(h) \/ EchoLook(h) \/ EchoInsert(h) \/ RevokeEvent(h) \/ RevokeMark(h)

Next == Dispatcher \/ \E h \in Callers : Event(h)

Spec == Init /\ [][Next]_vars

-----------------------------------------------------------------------------
(* The level the inbox has for the message, in whichever row it lives.     *)
LevelIn(r) == IF rows[r].known THEN rows[r].ack ELSE 0
Level == Larger(LevelIn("own"), LevelIn("echo"))

(* What the merge relies on: only one row carries the id, the message's    *)
(* own row only once its run has merged, and the echo the run has locked   *)
(* is still there, at a level the run has taken over.                      *)
MergeInv ==
  /\ rows["own"].known => ~rows["echo"].known /\ run.pc \notin {"wire", "look", "merge"}
  /\ EchoLocked => rows["echo"].known /\ run.ack >= rows["echo"].ack

(* A receipt the customer's phone gave is never taken back, neither by     *)
(* acks that arrive out of order nor when the echo is merged away.         *)
LevelNeverFalls == [][Level' >= Level]_vars

(* Ticks and level agree: a row shown sending, sent, delivered or read has *)
(* the ack that says so.                                                   *)
StatusMatchesAck ==
  \A r \in Rows :
    rows[r].known /\ rows[r].status \in {"sending", "sent", "delivered", "read"}
      => rows[r].status = StatusOf(rows[r].ack)

(* Receipts that arrived before the send was confirmed are applied by the  *)
(* time its run ends, all of them, unless a later receipt of level 0 or an *)
(* error replaced them.                                                    *)
EarlyAckApplied ==
  run.pc = "done" => \A a \in stored : rows["own"].ack >= a

(* What becomes of the early receipts: early_receipts holds the highest of *)
(* them until the run collects them; then the call dispatchMessage makes   *)
(* itself carries that level to the message's own row, which has the id by *)
(* then and keeps it.                                                      *)
Covers(a) == \A s \in stored : a >= s

EarlyInv ==
  /\ run.pc \in {"wire", "look", "merge", "post"} => Covers(early)
  /\ run.pc \in {"post", "apply", "done"} => rows["own"].known
  /\ run.pc = "apply" =>
       \/ EventIs(Early, "update") /\ Covers(ev[Early].ack)
       \/ ev[Early].pc \in {"exists", "done"} /\ Covers(rows["own"].ack)
  /\ run.pc = "done" => Covers(rows["own"].ack)

Quiet ==
  /\ run.pc \in {"done", "failed"}
  /\ \A h \in Callers : ev[h].pc \in {"idle", "done"}

(* When all handlers are done, a confirmed message shows the highest level *)
(* an ack reported.                                                        *)
ReportedAckShown ==
  Quiet /\ run.pc = "done" => \A a \in reported : rows["own"].ack >= a
=============================================================================
