------------------------------ MODULE Avatars ------------------------------
(***************************************************************************)
(* Profile pictures (avatarService): looked up when somebody looks, kept,  *)
(* and asked for gently.  One server, one number.  A question to WhatsApp  *)
(* that takes too long is given up; the question itself goes on.           *)
(***************************************************************************)
EXTENDS Naturals, Sequences, FiniteSets

CONSTANTS
  Chats,
  QueueMax,   \* LIMITS.queueMax
  MaxLooks    \* bound: pictures looked at

VARIABLES
  kept,     \* profile_pictures of each chat
  load,     \* inflight: where each lookup is
  tail,     \* the lane: lookups that wait, the first of them asking
  waiting,  \* lane.waiting
  open,     \* questions WhatsApp has not answered, per chat
  looks

vars == <<kept, load, tail, waiting, open, looks>>

Rows == {"absent", "ok", "oldOk", "none", "oldNone"}

Init ==
  /\ kept \in [Chats -> {"absent", "oldOk"}]
  /\ load = [c \in Chats |-> "idle"]
  /\ tail = <<>> /\ waiting = 0
  /\ open = [c \in Chats |-> 0]
  /\ looks = 0

-----------------------------------------------------------------------------
(* pictureFor: whoever looks meanwhile shares the lookup.                  *)
Look(c) ==
  /\ load[c] = "idle" /\ looks < MaxLooks /\ looks' = looks + 1
  /\ load' = [load EXCEPT ![c] = "read"]
  /\ UNCHANGED <<kept, tail, waiting, open>>

(* What is kept is fresh enough; or the lane is full, and what there is    *)
(* has to do; or the lookup lines up.                                      *)
Read(c) ==
  /\ load[c] = "read"
  /\ \/ /\ kept[c] \in {"ok", "none"}
        /\ load' = [load EXCEPT ![c] = "idle"] /\ UNCHANGED <<tail, waiting>>
     \/ /\ kept[c] \notin {"ok", "none"} /\ waiting >= QueueMax
        /\ load' = [load EXCEPT ![c] = "noAnswer"] /\ UNCHANGED <<tail, waiting>>
     \/ /\ kept[c] \notin {"ok", "none"} /\ waiting < QueueMax
        /\ load' = [load EXCEPT ![c] = "lane"]
        /\ tail' = Append(tail, c) /\ waiting' = waiting + 1
  /\ UNCHANGED <<kept, open, looks>>

(* The first in the lane asks, after a pause.                              *)
Asks(c) ==
  /\ load[c] = "lane" /\ tail /= <<>> /\ Head(tail) = c
  /\ load' = [load EXCEPT ![c] = "asking"]
  /\ open' = [open EXCEPT ![c] = @ + 1]
  /\ UNCHANGED <<kept, tail, waiting, looks>>

(* Mutant of LaneGoesOn: a question that is given up keeps its place.      *)
LaneGoesOnAnswered(c, how) ==
  IF how = "noAnswer" THEN UNCHANGED <<tail, waiting>>
  ELSE tail' = Tail(tail) /\ waiting' = waiting - 1

LaneGoesOn(c, how) == tail' = Tail(tail) /\ waiting' = waiting - 1

(* WhatsApp answers with an address, with "no picture", or fails.          *)
Answered(c, how) ==
  /\ load[c] = "asking" /\ how \in {"address", "nothing", "noAnswer"}
  /\ load' = [load EXCEPT ![c] = how]
  /\ open' = [open EXCEPT ![c] = @ - 1]
  /\ LaneGoesOn(c, how)
  /\ UNCHANGED <<kept, looks>>

(* providerMs: nobody waits for the answer any longer.                     *)
TooLate(c) ==
  /\ load[c] = "asking"
  /\ load' = [load EXCEPT ![c] = "noAnswer"]
  /\ LaneGoesOn(c, "noAnswer")
  /\ UNCHANGED <<kept, open, looks>>

(* The answer comes after all.                                             *)
LateAnswer(c) ==
  /\ open[c] > (IF load[c] = "asking" THEN 1 ELSE 0)
  /\ open' = [open EXCEPT ![c] = @ - 1]
  /\ UNCHANGED <<kept, load, tail, waiting, looks>>

-----------------------------------------------------------------------------
NoPicture(c) ==
  /\ load[c] = "nothing"
  /\ kept' = [kept EXCEPT ![c] = "none"]
  /\ load' = [load EXCEPT ![c] = "idle"]
  /\ UNCHANGED <<tail, waiting, open, looks>>

(* Without an answer the address of the last sync is tried, unless a       *)
(* picture is there; a download that fails leaves what there is.           *)
Download(c) ==
  /\ load[c] \in {"address", "noAnswer"}
  /\ load' = [load EXCEPT ![c] = "idle"]
  /\ kept' \in {kept} \union
       IF load[c] = "noAnswer" /\ kept[c] = "oldOk" THEN {} ELSE {[kept EXCEPT ![c] = "ok"]}
  /\ UNCHANGED <<tail, waiting, open, looks>>

(* freshMs and missingMs.                                                  *)
Ages(c) ==
  /\ kept[c] \in {"ok", "none"} /\ looks < MaxLooks
  /\ kept' = [kept EXCEPT ![c] = IF @ = "ok" THEN "oldOk" ELSE "oldNone"]
  /\ UNCHANGED <<load, tail, waiting, open, looks>>

-----------------------------------------------------------------------------
Step(c) ==
  \/ Read(c) \/ Asks(c) \/ TooLate(c) \/ NoPicture(c) \/ Download(c)
  \/ \E how \in {"address", "nothing", "noAnswer"} : Answered(c, how)

Next == \E c \in Chats : Look(c) \/ Step(c) \/ LateAnswer(c) \/ Ages(c)

(* The process goes on with what is ready, and its timers fire.            *)
Fairness == \A c \in Chats : WF_vars(Step(c))

Spec == Init /\ [][Next]_vars /\ Fairness

-----------------------------------------------------------------------------
TypeOK ==
  /\ kept \in [Chats -> Rows]
  /\ load \in [Chats -> {"idle", "read", "lane", "asking", "address", "nothing", "noAnswer"}]
  /\ tail \in Seq(Chats) /\ waiting \in 0..QueueMax /\ open \in [Chats -> Nat]

(* Every lookup comes to an end, whether WhatsApp answers or not: a        *)
(* question that hangs does not hold up those behind it in the lane.       *)
LookupsEnd == \A c \in Chats : load[c] /= "idle" ~> load[c] = "idle"

(* One request at a time per number (avatarService.js:13).                 *)
OneRequestAtATime ==
  \A c, d \in Chats : open[c] > 0 /\ open[d] > 0 => c = d /\ open[c] = 1
=============================================================================
