-------------------------- MODULE OutboundDispatch --------------------------
(***************************************************************************)
(* The transactional outbox: how one API process turns an accepted message *)
(* into a call on the WhatsApp browser (services/queue/messageQueue.js,    *)
(* with sendTextMessage and deleteMessage of services/messageService.js    *)
(* and the session life cycle it depends on).                              *)
(*                                                                         *)
(* A message is its row id, the outbox serial number.  The actors are the  *)
(* request handlers, the publisher that copies due rows into the BullMQ    *)
(* queue every two seconds, the worker slots that run dispatchMessage,     *)
(* the session manager, and a process that may crash between any two       *)
(* database statements.  Acknowledgement levels above 1, echoes and early  *)
(* receipts are the subject of module ReceiptReconciliation; campaign      *)
(* pacing is the subject of module CampaignPump.                           *)
(***************************************************************************)
EXTENDS Integers, FiniteSets

CONSTANTS
  Messages,    \* ids of outgoing messages, in outbox order
  Sessions,    \* WhatsApp numbers
  SessionOf,   \* the number each message leaves from
  Restored,    \* numbers the server brings back by itself (restore_on_start)
  Slots,       \* concurrent jobs of the BullMQ worker (5 in the code)
  ResultAcks,  \* acks a confirmed provider call may return: 1 stands for 1..3
  Deletable,   \* messages an agent may delete for everyone
  BatchLimit,  \* rows one publisher tick selects (100 in the code)
  MaxSends,    \* bound: provider calls that reach the phone, per message
  Possible,    \* bound: kinds of upset that happen, each of them once
  MaxUpsets,   \* bound: how many of them happen in one behaviour
  NoMessage

Upsets == {"crash", "shutdown", "fault", "stall", "loss", "drop"}

ASSUME ConstantsAssumption ==
  /\ Messages \subseteq Nat
  /\ SessionOf \in [Messages -> Sessions]
  /\ Restored \subseteq Sessions
  /\ ResultAcks \subseteq {0, 1}
  /\ Deletable \subseteq Messages
  /\ Slots \cap {"none", "waiting"} = {}
  /\ NoMessage \notin Messages
  /\ {BatchLimit, MaxSends, MaxUpsets} \subseteq Nat
  /\ Possible \subseteq Upsets

VARIABLES
  up,        \* the process is running
  status,    \* messages.status
  outbox,    \* outbox_events.status
  recorded,  \* messages.provider_message_id IS NOT NULL
  ack,       \* messages.ack, 1 for every positive level
  aged,      \* dispatching rows whose updated_at is older than two minutes
  job,       \* BullMQ job of a message: absent, waiting, or held by a slot
  pub,       \* the running publishOutbox call
  run,       \* the dispatchMessage call of each slot
  sess,      \* provider.sessions entry of each number
  lease,     \* whatsapp_sessions.lease_until > now()
  del,       \* progress of deleteMessage(forEveryone)
  retracted, \* messages WhatsApp agreed to delete on the customer's phone
  sends,     \* history: copies of the message that reached WhatsApp
  upsets     \* the kinds of upset that have happened

dbVars == <<status, outbox, recorded, ack, aged>>
queueVars == <<job, pub>>
sessVars == <<sess, lease>>
delVars == <<del, retracted>>
vars == <<up, dbVars, queueVars, run, sessVars, delVars, sends, upsets>>

-----------------------------------------------------------------------------
Statuses == {"none", "sending", "dispatching", "sent", "failed", "uncertain", "deleted"}
OutboxStatuses == {"none", "pending", "queued", "dispatching", "processed", "uncertain"}

(* The positions of dispatchMessage between two of its awaits.  A slot in  *)
(* InProvider has committed its claim and may still call the provider or   *)
(* record its outcome in the message row.                                  *)
InProvider == {"send", "onwire", "confirm", "post", "failMsg"}
RunPcs == {"idle", "claim", "locked", "failBox"} \cup InProvider

Idle == [pc |-> "idle", msg |-> NoMessage, got |-> 0, why |-> "none"]
NoPublish == [pc |-> "idle", batch |-> {}, cur |-> NoMessage]

RunTypeOK ==
  /\ run \in [Slots -> [pc : RunPcs, msg : Messages \cup {NoMessage},
                        got : {0, 1}, why : {"none", "offline", "uncertain"}]]
  /\ \A w \in Slots : run[w].pc # "idle" => run[w].msg \in Messages

TypeOK ==
  /\ up \in BOOLEAN
  /\ status \in [Messages -> Statuses]
  /\ outbox \in [Messages -> OutboxStatuses]
  /\ recorded \in [Messages -> BOOLEAN]
  /\ ack \in [Messages -> {0, 1}]
  /\ aged \subseteq Messages
  /\ job \in [Messages -> {"none", "waiting"} \cup Slots]
  /\ pub \in [pc : {"idle", "add", "mark"}, batch : SUBSET Messages,
              cur : Messages \cup {NoMessage}]
  /\ pub.pc = "mark" => pub.cur \in Messages
  /\ RunTypeOK
  /\ sess \in [Sessions -> {"off", "starting", "live", "dead"}]
  /\ lease \in [Sessions -> BOOLEAN]
  /\ del \in [Messages -> {"no", "retract", "mark", "done"}]
  /\ retracted \subseteq Messages
  /\ sends \in [Messages -> Nat]
  /\ upsets \subseteq Upsets

Init ==
  /\ up = TRUE
  /\ status = [m \in Messages |-> "none"]
  /\ outbox = [m \in Messages |-> "none"]
  /\ recorded = [m \in Messages |-> FALSE]
  /\ ack = [m \in Messages |-> 0]
  /\ aged = {}
  /\ job = [m \in Messages |-> "none"]
  /\ pub = NoPublish
  /\ run = [w \in Slots |-> Idle]
  /\ sess = [s \in Sessions |-> "off"]
  /\ lease = [s \in Sessions |-> FALSE]
  /\ del = [m \in Messages |-> "no"]
  /\ retracted = {}
  /\ sends = [m \in Messages |-> 0]
  /\ upsets = {}

-----------------------------------------------------------------------------
(* sendTextMessage: the message and its outbox row in one transaction.  A  *)
(* repeated idempotency key finds the row and changes nothing.  Serial     *)
(* numbers are handed out in order.                                        *)
Enqueue(m) ==
  /\ up
  /\ status[m] = "none"
  /\ \A n \in Messages : n < m => status[n] # "none"
  /\ status' = [status EXCEPT ![m] = "sending"]
  /\ outbox' = [outbox EXCEPT ![m] = "pending"]
  /\ UNCHANGED <<up, recorded, ack, aged, queueVars, run, sessVars, delVars, sends, upsets>>

-----------------------------------------------------------------------------
(* recoverInterruptedDispatches: a dispatch two minutes old whose number   *)
(* nobody leases has an unknown outcome.                                   *)
Orphaned(m) ==
  /\ status[m] = "dispatching"
  /\ m \in aged
  /\ ~lease[SessionOf[m]]

RecoveredStatus ==
  [m \in Messages |-> IF Orphaned(m) THEN "uncertain" ELSE status[m]]

RecoveredOutbox ==
  [m \in Messages |->
     IF RecoveredStatus[m] = "uncertain" /\ outbox[m] = "dispatching"
     THEN "uncertain" ELSE outbox[m]]

Recover ==
  /\ status' = RecoveredStatus
  /\ outbox' = RecoveredOutbox

(* publishOutbox.  A tick runs the recovery and then selects due rows,     *)
(* lowest serial first, up to the limit.  due is the set of rows whose     *)
(* retry_at has passed.                                                    *)
\* Mutant: a row once queued is never selected again.
PublishablePending(m) == outbox[m] = "pending"

Publishable(m) == outbox[m] \in {"pending", "queued"}

Lowest(S, n) == {m \in S : Cardinality({k \in S : k < m}) < n}

HasClient(s) == sess[s] \in {"live", "dead"}

PublishTick(due) ==
  /\ up
  /\ pub.pc = "idle"
  /\ Recover
  /\ LET batch == Lowest({m \in due : Publishable(m)}, BatchLimit)
     IN  pub' = IF batch = {} THEN NoPublish
                ELSE [NoPublish EXCEPT !.pc = "add", !.batch = batch]
  /\ UNCHANGED <<up, recorded, ack, aged, job, run, sessVars, delVars, sends, upsets>>

(* One iteration: skip a number with no client, else queue.add, which does *)
(* nothing when a job with this id exists.                                 *)
NextRow(m) ==
  /\ pub.pc = "add"
  /\ m \in pub.batch
  /\ \A n \in pub.batch : m <= n

AfterRow(m) ==
  IF pub.batch = {m} THEN NoPublish
  ELSE [NoPublish EXCEPT !.pc = "add", !.batch = pub.batch \ {m}]

PublishAdd(m) ==
  /\ up
  /\ NextRow(m)
  /\ IF HasClient(SessionOf[m])
     THEN /\ job' = [job EXCEPT ![m] = IF @ = "none" THEN "waiting" ELSE @]
          /\ pub' = [pub EXCEPT !.pc = "mark", !.cur = m]
     ELSE /\ pub' = AfterRow(m)
          /\ UNCHANGED job
  /\ UNCHANGED <<up, dbVars, run, sessVars, delVars, sends, upsets>>

Markable(m) == Publishable(m)

PublishMark ==
  /\ up
  /\ pub.pc = "mark"
  /\ LET m == pub.cur
     IN  /\ outbox' = IF Markable(m) THEN [outbox EXCEPT ![m] = "queued"] ELSE outbox
         /\ pub' = AfterRow(m)
  /\ UNCHANGED <<up, status, recorded, ack, aged, job, run, sessVars, delVars, sends, upsets>>

-----------------------------------------------------------------------------
(* dispatchMessage, one action per database statement or provider call.    *)
FinishJob(w) ==
  job' = [m \in Messages |-> IF job[m] = w THEN "none" ELSE job[m]]

StartJob(w, m) ==
  /\ up
  /\ run[w].pc = "idle"
  /\ job[m] = "waiting"
  /\ job' = [job EXCEPT ![m] = w]
  /\ run' = [run EXCEPT ![w] = [Idle EXCEPT !.pc = "claim", !.msg = m]]
  /\ UNCHANGED <<up, dbVars, pub, sessVars, delVars, sends, upsets>>

At(w, pc) == run[w].pc = pc

Goto(w, pc) == run' = [run EXCEPT ![w].pc = pc]

EndRun(w) ==
  /\ run' = [run EXCEPT ![w] = Idle]
  /\ FinishJob(w)

(* The claim: an advisory try-lock per number, refused while another slot  *)
(* holds it or while a message of the number is still being dispatched.    *)
SameSession(m, n) == SessionOf[m] = SessionOf[n]

\* Mutant: the claim does not look for a message in flight.
NumberBusyLockOnly(w) ==
  \E v \in Slots : At(v, "locked") /\ SameSession(run[v].msg, run[w].msg)

NumberBusy(w) ==
  \/ \E v \in Slots : At(v, "locked") /\ SameSession(run[v].msg, run[w].msg)
  \/ \E n \in Messages : status[n] = "dispatching" /\ SameSession(n, run[w].msg)

ClaimRefused(w) ==
  /\ At(w, "claim")
  /\ NumberBusy(w)
  /\ EndRun(w)
  /\ UNCHANGED <<up, dbVars, pub, sessVars, delVars, sends, upsets>>

ClaimLock(w) ==
  /\ At(w, "claim")
  /\ ~NumberBusy(w)
  /\ Goto(w, "locked")
  /\ UNCHANGED <<up, dbVars, queueVars, sessVars, delVars, sends, upsets>>

\* Mutant: the claim takes a message whatever its status.
ClaimableAlways(m) == TRUE

Claimable(m) == status[m] = "sending"

ClaimCommit(w) ==
  /\ At(w, "locked")
  /\ LET m == run[w].msg
     IN  IF Claimable(m)
         THEN /\ status' = [status EXCEPT ![m] = "dispatching"]
              /\ outbox' = [outbox EXCEPT ![m] = "dispatching"]
              /\ aged' = aged \ {m}
              /\ Goto(w, "send")
              /\ UNCHANGED job
         ELSE /\ EndRun(w)
              /\ UNCHANGED <<status, outbox, aged>>
  /\ UNCHANGED <<up, recorded, ack, pub, sessVars, delVars, sends, upsets>>

(* The provider call.  Without a client it throws SESSION_OFFLINE; with a  *)
(* live one the message is on its way; an error before that, or a client   *)
(* whose browser is gone, leaves the outcome uncertain.                    *)
Fail(w, why) == run' = [run EXCEPT ![w].pc = "failMsg", ![w].why = why]

SendOffline(w) ==
  /\ At(w, "send")
  /\ ~HasClient(SessionOf[run[w].msg])
  /\ Fail(w, "offline")
  /\ UNCHANGED <<up, dbVars, queueVars, sessVars, delVars, sends, upsets>>

Send(w) ==
  /\ At(w, "send")
  /\ sess[SessionOf[run[w].msg]] = "live"
  /\ sends[run[w].msg] < MaxSends
  /\ sends' = [sends EXCEPT ![run[w].msg] = @ + 1]
  /\ Goto(w, "onwire")
  /\ UNCHANGED <<up, dbVars, queueVars, sessVars, delVars, upsets>>

SendError(w) ==
  /\ At(w, "send")
  /\ HasClient(SessionOf[run[w].msg])
  /\ Fail(w, "uncertain")
  /\ UNCHANGED <<up, dbVars, queueVars, sessVars, delVars, sends, upsets>>

(* The call answers with a provider id and an ack, or it errors, times out *)
(* or names no message.                                                    *)
Result(w) ==
  /\ At(w, "onwire")
  /\ \/ \E a \in ResultAcks : run' = [run EXCEPT ![w].pc = "confirm", ![w].got = a]
     \/ Fail(w, "uncertain")
  /\ UNCHANGED <<up, dbVars, queueVars, sessVars, delVars, sends, upsets>>

(* The confirming transaction writes by id, whatever the row says.         *)
Confirm(w) ==
  /\ At(w, "confirm")
  /\ LET m == run[w].msg
     IN  /\ recorded' = [recorded EXCEPT ![m] = TRUE]
         /\ ack' = [ack EXCEPT ![m] = run[w].got]
         /\ status' = [status EXCEPT ![m] = IF run[w].got = 1 THEN "sent" ELSE "sending"]
         /\ outbox' = [outbox EXCEPT ![m] = "processed"]
         /\ aged' = aged \ {m}
  /\ Goto(w, "post")
  /\ UNCHANGED <<up, queueVars, sessVars, delVars, sends, upsets>>

(* After the commit: the early receipt and the re-read, still inside try.  *)
Post(w) ==
  /\ At(w, "post")
  /\ EndRun(w)
  /\ UNCHANGED <<up, dbVars, pub, sessVars, delVars, sends, upsets>>

\* Mutant: every failure goes back to the queue.
FailStatusResend(why) == "sending"

\* Mutant: the reason is stored as the status.
FailStatusReason(why) == why

FailStatus(why) == IF why = "offline" THEN "sending" ELSE "uncertain"

(* The catch block: two unconditional updates, one for each table.         *)
FailMsg(w) ==
  /\ At(w, "failMsg")
  /\ LET m == run[w].msg
     IN  /\ status' = [status EXCEPT ![m] = FailStatus(run[w].why)]
         /\ aged' = aged \ {m}
  /\ Goto(w, "failBox")
  /\ UNCHANGED <<up, outbox, recorded, ack, queueVars, sessVars, delVars, sends, upsets>>

FailBox(w) ==
  /\ At(w, "failBox")
  /\ outbox' = [outbox EXCEPT ![run[w].msg] =
                  IF run[w].why = "offline" THEN "pending" ELSE "uncertain"]
  /\ EndRun(w)
  /\ UNCHANGED <<up, status, recorded, ack, aged, pub, sessVars, delVars, sends, upsets>>

Dispatch(w) ==
  \/ ClaimRefused(w) \/ ClaimLock(w) \/ ClaimCommit(w)
  \/ SendOffline(w) \/ Send(w) \/ SendError(w) \/ Result(w)
  \/ Confirm(w) \/ Post(w) \/ FailMsg(w) \/ FailBox(w)

-----------------------------------------------------------------------------
(* A failed database statement: after the claim it is an error like the    *)
(* provider's, in the catch block it ends the job, in the publisher it     *)
(* ends the tick.                                                          *)
Spend(upset) ==
  /\ upset \in Possible \ upsets
  /\ Cardinality(upsets) < MaxUpsets
  /\ upsets' = upsets \cup {upset}

StatementFails(w) ==
  /\ Spend("fault")
  /\ \/ /\ At(w, "confirm") \/ At(w, "post")
        /\ Fail(w, "uncertain")
        /\ UNCHANGED job
     \/ /\ At(w, "failMsg") \/ At(w, "failBox")
        /\ EndRun(w)
  /\ UNCHANGED <<up, dbVars, pub, sessVars, delVars, sends>>

TickFails ==
  /\ pub.pc # "idle"
  /\ Spend("fault")
  /\ pub' = NoPublish
  /\ UNCHANGED <<up, dbVars, job, run, sessVars, delVars, sends>>

(* BullMQ: a job whose slot stopped renewing it goes back to the queue     *)
(* while the old run is still in progress; a Redis restart drops the jobs. *)
Stall(m) ==
  /\ job[m] \in Slots
  /\ Spend("stall")
  /\ job' = [job EXCEPT ![m] = "waiting"]
  /\ UNCHANGED <<up, dbVars, pub, run, sessVars, delVars, sends>>

RedisLoss ==
  /\ Spend("loss")
  /\ job' = [m \in Messages |-> "none"]
  /\ pub' = NoPublish
  /\ UNCHANGED <<up, dbVars, run, sessVars, delVars, sends>>

(* A dispatching row turns two minutes old, also while its run goes on: an *)
(* attachment has no timeout.                                              *)
Age(m) ==
  /\ status[m] = "dispatching"
  /\ m \notin aged
  /\ aged' = aged \cup {m}
  /\ UNCHANGED <<up, status, outbox, recorded, ack, queueVars, run, sessVars, delVars,
                 sends, upsets>>

-----------------------------------------------------------------------------
(* handleAckEvent for a row that carries the provider id: a positive ack   *)
(* moves it on, a negative one marks a message nobody acknowledged failed. *)
AckPositive(m) ==
  /\ up
  /\ recorded[m] /\ ack[m] = 0
  /\ ack' = [ack EXCEPT ![m] = 1]
  /\ status' = [status EXCEPT ![m] = "sent"]
  /\ aged' = aged \ {m}
  /\ UNCHANGED <<up, outbox, recorded, queueVars, run, sessVars, delVars, sends, upsets>>

AckNegative(m) ==
  /\ up
  /\ recorded[m] /\ ack[m] = 0 /\ status[m] # "failed"
  /\ status' = [status EXCEPT ![m] = "failed"]
  /\ aged' = aged \ {m}
  /\ UNCHANGED <<up, outbox, recorded, ack, queueVars, run, sessVars, delVars, sends, upsets>>

-----------------------------------------------------------------------------
(* deleteMessage(forEveryone): it reads the row, asks WhatsApp only if the *)
(* row carries a provider id, and then overwrites the row.                 *)
DeleteRead(m) ==
  /\ up
  /\ m \in Deletable /\ del[m] = "no" /\ status[m] # "none"
  /\ del' = [del EXCEPT ![m] = IF recorded[m] THEN "retract" ELSE "mark"]
  /\ UNCHANGED <<up, dbVars, queueVars, run, sessVars, retracted, sends, upsets>>

DeleteRetract(m) ==
  /\ del[m] = "retract"
  /\ \/ /\ sess[SessionOf[m]] = "live"
        /\ retracted' = retracted \cup {m}
        /\ del' = [del EXCEPT ![m] = "mark"]
     \/ /\ del' = [del EXCEPT ![m] = "no"]
        /\ UNCHANGED retracted
  /\ UNCHANGED <<up, dbVars, queueVars, run, sessVars, sends, upsets>>

DeleteMark(m) ==
  /\ del[m] = "mark"
  /\ del' = [del EXCEPT ![m] = "done"]
  /\ status' = [status EXCEPT ![m] = "deleted"]
  /\ aged' = aged \ {m}
  /\ UNCHANGED <<up, outbox, recorded, ack, queueVars, run, sessVars, retracted, sends, upsets>>

-----------------------------------------------------------------------------
(* A number comes up (startTenantSession takes the lease and starts the    *)
(* browser), drops (the browser dies: onStatus clears the lease but the    *)
(* client object stays) or is closed.  A lease no live process renews runs *)
(* out.                                                                    *)
SessionStart(s) ==
  /\ up
  /\ sess[s] \in {"off", "dead"} /\ ~lease[s]
  /\ sess' = [sess EXCEPT ![s] = "starting"]
  /\ lease' = [lease EXCEPT ![s] = TRUE]
  /\ UNCHANGED <<up, dbVars, queueVars, run, delVars, sends, upsets>>

SessionConnect(s) ==
  /\ sess[s] = "starting"
  /\ sess' = [sess EXCEPT ![s] = "live"]
  /\ UNCHANGED <<up, dbVars, queueVars, run, lease, delVars, sends, upsets>>

SessionDown(s) ==
  /\ sess[s] \in {"starting", "live"}
  /\ Spend("drop")
  /\ \/ sess[s] = "live" /\ sess' = [sess EXCEPT ![s] = "dead"]
     \/ sess' = [sess EXCEPT ![s] = "off"]
  /\ lease' = [lease EXCEPT ![s] = FALSE]
  /\ UNCHANGED <<up, dbVars, queueVars, run, delVars, sends>>

LeaseExpire(s) ==
  /\ lease[s] /\ sess[s] \in {"off", "dead"}
  /\ lease' = [lease EXCEPT ![s] = FALSE]
  /\ UNCHANGED <<up, dbVars, queueVars, run, sess, delVars, sends, upsets>>

-----------------------------------------------------------------------------
(* A crash loses everything in memory; BullMQ finds the abandoned jobs     *)
(* again.  A shutdown waits for the running jobs and gives the leases up.  *)
Crash ==
  /\ up
  /\ Spend("crash")
  /\ up' = FALSE
  /\ run' = [w \in Slots |-> Idle]
  /\ pub' = NoPublish
  /\ job' = [m \in Messages |-> IF job[m] \in Slots THEN "waiting" ELSE job[m]]
  /\ sess' = [s \in Sessions |-> "off"]
  /\ del' = [m \in Messages |-> IF del[m] = "done" THEN "done" ELSE "no"]
  /\ UNCHANGED <<dbVars, lease, retracted, sends>>

Shutdown ==
  /\ up
  /\ Spend("shutdown")
  /\ \A w \in Slots : At(w, "idle")
  /\ up' = FALSE
  /\ pub' = NoPublish
  /\ sess' = [s \in Sessions |-> "off"]
  /\ lease' = [s \in Sessions |-> FALSE]
  /\ del' = [m \in Messages |-> IF del[m] = "done" THEN "done" ELSE "no"]
  /\ UNCHANGED <<dbVars, job, run, retracted, sends>>

(* initMessageQueue runs the recovery before anything else.                *)
Restart ==
  /\ ~up
  /\ up' = TRUE
  /\ Recover
  /\ UNCHANGED <<recorded, ack, aged, queueVars, run, sessVars, delVars, sends, upsets>>

-----------------------------------------------------------------------------
Publisher ==
  \/ \E due \in SUBSET Messages : PublishTick(due)
  \/ \E m \in Messages : PublishAdd(m)
  \/ PublishMark

Workers ==
  \E w \in Slots :
    \/ Dispatch(w)
    \/ \E m \in Messages : StartJob(w, m)

Requests ==
  \E m \in Messages :
    \/ Enqueue(m) \/ AckPositive(m) \/ AckNegative(m)
    \/ DeleteRead(m) \/ DeleteRetract(m) \/ DeleteMark(m)

Numbers ==
  \E s \in Sessions :
    SessionStart(s) \/ SessionConnect(s) \/ SessionDown(s) \/ LeaseExpire(s)

Environment ==
  \/ \E w \in Slots : StatementFails(w)
  \/ \E m \in Messages : Stall(m) \/ Age(m)
  \/ TickFails \/ RedisLoss \/ Crash \/ Shutdown \/ Restart

Next == Publisher \/ Workers \/ Requests \/ Numbers \/ Environment

Spec == Init /\ [][Next]_vars

(* The timers fire (ticks every two seconds, recovery of numbers every     *)
(* thirty, leases and ages are clocks, a retry_at passes), a statement or  *)
(* a provider call returns, BullMQ hands jobs out in order.                *)
Fairness ==
  /\ WF_vars(PublishMark) /\ WF_vars(Restart)
  /\ \A m \in Messages :
       /\ SF_vars(\E due \in SUBSET Messages : m \in due /\ PublishTick(due))
       /\ WF_vars(PublishAdd(m))
       /\ WF_vars(Age(m))
       /\ SF_vars(\E w \in Slots : StartJob(w, m))
  /\ \A w \in Slots : WF_vars(Dispatch(w))
  /\ \A s \in Sessions : WF_vars(LeaseExpire(s))
  /\ \A s \in Restored :
       /\ WF_vars(SessionStart(s))
       /\ WF_vars(SessionConnect(s))

FairSpec == Spec /\ Fairness

-----------------------------------------------------------------------------
(* The customer gets no message twice, whatever crashes, failed statements *)
(* and doubly held jobs the dispatcher goes through.  True when every      *)
(* confirmed call carries a positive ack.                                  *)
AtMostOnce == \A m \in Messages : sends[m] <= 1

(* A number never has two messages between claim and outcome: the         *)
(* advisory lock and the in-flight check serialise the slots.              *)
DispatchExclusive ==
  \A m, n \in Messages :
    status[m] = "dispatching" /\ status[n] = "dispatching" /\ SameSession(m, n) => m = n

(* A message the inbox shows as "sending" has not reached WhatsApp.  The    *)
(* claim takes exactly these, so whatever replays the outbox, a tick, a    *)
(* stalled job or a restart, repeats no send.                              *)
SendingIsUnsent == \A m \in Messages : status[m] = "sending" => sends[m] = 0

(* What makes both inductive.  A run in InProvider owns its message: a     *)
(* "sending" message has no owner, two runs never own the same one, and    *)
(* an owner that has not called WhatsApp yet, or learned that it is not    *)
(* connected, owns a message nobody sent.                                  *)
Owns(w, m) == run[w].msg = m /\ run[w].pc \in InProvider

NotSentYet(w) == At(w, "send") \/ (At(w, "failMsg") /\ run[w].why = "offline")

SendsInv ==
  /\ \A m \in Messages :
       status[m] \in {"none", "sending"} => sends[m] = 0 /\ \A w \in Slots : ~Owns(w, m)
  /\ \A m \in Messages, v, w \in Slots : Owns(v, m) /\ Owns(w, m) => v = w
  /\ \A w \in Slots : NotSentYet(w) => sends[run[w].msg] = 0
  /\ \A w \in Slots : At(w, "confirm") => run[w].got = 1
  /\ AtMostOnce

(* The slot that holds the lock of a number is the only one, and it holds  *)
(* it over a number with nothing in flight.                                *)
LockInv ==
  /\ DispatchExclusive
  /\ \A v, w \in Slots :
       At(v, "locked") /\ At(w, "locked") /\ SameSession(run[v].msg, run[w].msg) => v = w
  /\ \A w \in Slots, n \in Messages :
       At(w, "locked") /\ SameSession(n, run[w].msg) => status[n] # "dispatching"

(* A dispatch that a crash interrupted does not stay in flight for ever.   *)
InterruptedDispatchResolves ==
  \A m \in Messages : status[m] = "dispatching" ~> status[m] # "dispatching"

(* A message whose number stays connected does not wait for ever: WhatsApp *)
(* takes it, or its outcome is shown.                                      *)
EventuallyHanded ==
  \A m \in Messages :
    <>[](sess[SessionOf[m]] = "live")
      => (status[m] = "sending" ~> recorded[m] \/ status[m] \in {"failed", "uncertain", "deleted"})
-----------------------------------------------------------------------------
(* The life of a message as MessageLife tells it: a row status is what the *)
(* inbox shows, a message in hand has a run between claim and outcome.     *)
Shown(st) ==
  CASE st = "none" -> "none"
    [] st = "sending" -> "waiting"
    [] st = "dispatching" -> "inFlight"
    [] OTHER -> "outcome"

Life == INSTANCE MessageLife WITH
  shown <- [m \in Messages |-> Shown(status[m])],
  hand <- {m \in Messages : \E w \in Slots : Owns(w, m)},
  copies <- sends

(* The dispatcher, with its publisher, job queue, leases, recovery and     *)
(* crashes, does nothing to a message that the simple life of a message    *)
(* does not allow (messageQueue.js:15-190).                                *)
ImplementsLife == Life!Spec
=============================================================================
