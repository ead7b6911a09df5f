---------------------------- MODULE WaitingList ----------------------------
(***************************************************************************)
(* One chat on the list of people waiting, and Autopilot, which works      *)
(* through that list on every server: it clears thank-yous and sends saved *)
(* replies, and a teammate can take either back (autopilotService).  Both  *)
(* rules are switched on; the daily limit and the reasons to hold back     *)
(* that do not change here are left out.                                   *)
(***************************************************************************)
EXTENDS Naturals, Sequences, FiniteSets

CONSTANTS
  Servers,      \* processes that run the jobs
  MaxMessages,  \* bound: what the customer writes
  MaxActs,      \* bound: what the customer's wish and the team do to the chat
  MaxCrashes    \* bound

VARIABLES
  said,       \* the customer's messages: "thanks" or "question"
  awaiting,   \* awaiting_since: the message that started the wait, or 0
  asked,      \* needs_human_since is set
  owned,      \* a teammate owns the chat
  recent,     \* a person answered within the quiet time
  clock,      \* stamps for created_at
  person,     \* stamp of the last answer by a person, 0 when there is none
  acts,       \* what the team did so far
  log,        \* autopilot_log, a row per customer message
  sent,       \* Riwo's reply per customer message: where it is, whether its
              \* outcome was unknown at some time and whether it was deleted
              \* without asking WhatsApp then, and if the customer sees it
  pilot,      \* what each server's Autopilot is at
  undo,       \* a teammate's request to take an action back
  answered,   \* history: messages said when a person last answered
  crashes

chat == <<said, awaiting, asked, owned, recent, clock, person, acts, answered>>
auto == <<log, sent, pilot, undo>>
vars == <<chat, auto, crashes>>

Messages == 1..MaxMessages
NoLog == [outcome |-> "none", prior |-> 0, at |-> 0]
NoReply == [way |-> "none", unsure |-> FALSE, blind |-> FALSE, shown |-> FALSE]
NoUndo == [pc |-> "idle", of |-> 0]
NoWork == [pc |-> "idle", of |-> 0, prior |-> 0, asked |-> FALSE, owned |-> FALSE]

Init ==
  /\ said = <<>> /\ awaiting = 0
  /\ asked = FALSE /\ owned = FALSE /\ recent = FALSE
  /\ clock = 1 /\ person = 0 /\ acts = 0 /\ answered = 0
  /\ log = [m \in Messages |-> NoLog]
  /\ sent = [m \in Messages |-> NoReply]
  /\ pilot = [s \in Servers |-> NoWork]
  /\ undo = NoUndo
  /\ crashes = 0

Latest == Len(said)

-----------------------------------------------------------------------------
(* The customer and the team.                                              *)

Writes(kind) ==
  /\ Latest < MaxMessages
  /\ said' = Append(said, kind)
  /\ awaiting' = IF awaiting = 0 THEN Latest + 1 ELSE awaiting
  /\ UNCHANGED <<asked, owned, recent, clock, person, acts, answered, auto, crashes>>

Acts == acts < MaxActs /\ acts' = acts + 1

AsksForPerson ==
  /\ Latest > 0 /\ ~asked /\ Acts
  /\ asked' = TRUE
  /\ UNCHANGED <<said, awaiting, owned, recent, clock, person, answered, auto, crashes>>

Answers ==
  /\ Latest > 0 /\ Acts
  /\ awaiting' = 0 /\ asked' = FALSE /\ recent' = TRUE
  /\ person' = clock /\ clock' = clock + 1
  /\ answered' = Latest
  /\ UNCHANGED <<said, owned, auto, crashes>>

Assigned ==
  /\ owned' = ~owned /\ Acts
  /\ UNCHANGED <<said, awaiting, asked, recent, clock, person, answered, auto, crashes>>

QuietPasses ==
  /\ recent /\ recent' = FALSE
  /\ UNCHANGED <<said, awaiting, asked, owned, clock, person, acts, answered, auto, crashes>>

Team == (\E k \in {"thanks", "question"} : Writes(k)) \/ AsksForPerson \/ Answers \/ Assigned \/ QuietPasses

-----------------------------------------------------------------------------
(* Autopilot: the candidate, the claim, then one of the two rules.         *)

Step(s, pc) == pilot' = [pilot EXCEPT ![s].pc = pc]

Looks(s) ==
  /\ pilot[s].pc = "idle"
  /\ awaiting /= 0
  /\ log[Latest].outcome = "none"
  /\ pilot' = [pilot EXCEPT ![s] = [pc |-> "claim", of |-> Latest, prior |-> awaiting,
                                    asked |-> asked, owned |-> owned]]
  /\ UNCHANGED <<chat, log, sent, undo, crashes>>

(* The row's unique key lets one server act on a message.                  *)
Claims(s) ==
  LET m == pilot[s].of IN
  /\ pilot[s].pc = "claim"
  /\ IF log[m].outcome /= "none"
     THEN Step(s, "idle") /\ UNCHANGED <<log, clock>>
     ELSE /\ log' = [log EXCEPT ![m] = [outcome |-> "working", prior |-> pilot[s].prior, at |-> clock]]
          /\ clock' = clock + 1
          /\ Step(s, IF said[m] = "thanks" THEN "clear" ELSE "hold")
  /\ UNCHANGED <<said, awaiting, asked, owned, recent, person, acts, answered, sent, undo, crashes>>

(* Only the wait that was read is ended.                                   *)
Clears(s) ==
  /\ pilot[s].pc = "clear"
  /\ awaiting' = IF awaiting = pilot[s].prior THEN 0 ELSE awaiting
  /\ Step(s, "cleared")
  /\ UNCHANGED <<said, asked, owned, recent, clock, person, acts, answered, log, sent, undo, crashes>>

(* holdBack: who owns the chat is known from the candidate, the rest is    *)
(* asked of the database.                                                  *)
HeldBack(s) ==
  pilot[s].owned \/ pilot[s].asked \/ recent \/ \E m \in Messages : log[m].outcome = "sent"

Holds(s) ==
  /\ pilot[s].pc = "hold"
  /\ Step(s, IF HeldBack(s) THEN "skipped" ELSE "choose")
  /\ UNCHANGED <<chat, log, sent, undo, crashes>>

(* The model is asked, which takes seconds.                                *)
Chooses(s) ==
  /\ pilot[s].pc = "choose"
  /\ \E next \in {"send", "skipped"} : Step(s, next)
  /\ UNCHANGED <<chat, log, sent, undo, crashes>>

(* sendTextMessage ends the wait, but not the request for a person.        *)
Sends(s) ==
  LET m == pilot[s].of IN
  /\ pilot[s].pc = "send"
  /\ sent' = [sent EXCEPT ![m].way = IF @ = "none" THEN "box" ELSE @]
  /\ awaiting' = IF sent[m].way = "none" THEN 0 ELSE awaiting
  /\ Step(s, "sent")
  /\ UNCHANGED <<said, asked, owned, recent, clock, person, acts, answered, log, undo, crashes>>

Finishes(s) ==
  /\ pilot[s].pc \in {"cleared", "skipped", "sent"}
  /\ log' = [log EXCEPT ![pilot[s].of].outcome = pilot[s].pc]
  /\ pilot' = [pilot EXCEPT ![s] = NoWork]
  /\ UNCHANGED <<chat, sent, undo, crashes>>

Autopilot(s) ==
  Looks(s) \/ Claims(s) \/ Clears(s) \/ Holds(s) \/ Chooses(s) \/ Sends(s) \/ Finishes(s)

(* The outbox takes the reply to WhatsApp.  The call is answered: the      *)
(* reply is out, the number is offline and the reply waits again, or the   *)
(* call failed and nobody knows ("lost").  A call that hangs is given up   *)
(* by recoverInterruptedDispatches ("late"), and its answer still counts.  *)
(* A reply without an acknowledgement is the subject of OutboundDispatch.  *)
Becomes(m, way, unsure, shown) ==
  sent' = [sent EXCEPT ![m] = [way |-> way, unsure |-> unsure, blind |-> sent[m].blind, shown |-> shown]]

Leaves(m) ==
  LET way == sent[m].way
      unsure == sent[m].unsure
  IN
  /\ \/ way = "box" /\ Becomes(m, "wire", unsure, FALSE)
     \/ way = "wire" /\ Becomes(m, "late", TRUE, FALSE)
     \/ way \in {"wire", "late"} /\ Becomes(m, "out", unsure, TRUE)
     \/ way \in {"wire", "late"} /\ Becomes(m, "box", unsure, FALSE)
     \/ way \in {"wire", "late"} /\ \E shown \in BOOLEAN : Becomes(m, "lost", TRUE, shown)
  /\ UNCHANGED <<chat, log, pilot, undo, crashes>>

-----------------------------------------------------------------------------
(* undo: a teammate takes an action back.                                  *)

Wanted(m) ==
  /\ undo.pc = "idle"
  /\ log[m].outcome \in {"sent", "cleared"}
  /\ undo' = [pc |-> IF log[m].outcome = "sent" THEN "check" ELSE "back", of |-> m]
  /\ UNCHANGED <<chat, log, sent, pilot, crashes>>

(* Mutant of StillLeaving: the reply is deleted wherever it is.            *)
StillLeavingNever(m) == FALSE

(* A reply that has not left yet would still go out after being deleted.   *)
StillLeaving(m) == sent[m].way \in {"box", "wire"}

Checks ==
  /\ undo.pc = "check"
  /\ undo' = IF StillLeaving(undo.of) THEN NoUndo ELSE [undo EXCEPT !.pc = "delete"]
  /\ UNCHANGED <<chat, log, sent, pilot, crashes>>

(* deleteMessage for everyone, which WhatsApp may refuse.  It is asked     *)
(* only when the message has an id, that is, once the reply is out; the    *)
(* row is marked as deleted in any case, so that a reply that waits again  *)
(* does not leave.                                                         *)
Deleted(reply) ==
  [way |-> IF reply.way = "box" THEN "gone" ELSE reply.way,
   unsure |-> reply.unsure,
   blind |-> reply.unsure /\ reply.way /= "out",
   shown |-> reply.shown /\ reply.way /= "out"]

Deletes ==
  /\ undo.pc = "delete"
  /\ \/ /\ sent' = [sent EXCEPT ![undo.of] = Deleted(sent[undo.of])]
        /\ undo' = [undo EXCEPT !.pc = "back"]
     \/ undo' = NoUndo /\ UNCHANGED sent
  /\ UNCHANGED <<chat, log, pilot, crashes>>

(* Back on the list, unless a person has answered since the action.        *)
PutsBack ==
  /\ undo.pc = "back"
  /\ awaiting' = IF person > log[undo.of].at \/ awaiting /= 0 THEN awaiting ELSE log[undo.of].prior
  /\ undo' = [undo EXCEPT !.pc = "mark"]
  /\ UNCHANGED <<said, asked, owned, recent, clock, person, acts, answered, log, sent, pilot, crashes>>

Marks ==
  /\ undo.pc = "mark"
  /\ log' = [log EXCEPT ![undo.of].outcome = "undone"]
  /\ undo' = NoUndo
  /\ UNCHANGED <<chat, sent, pilot, crashes>>

Undo == (\E m \in Messages : Wanted(m)) \/ Checks \/ Deletes \/ PutsBack \/ Marks


Crash(s) ==
  /\ crashes < MaxCrashes /\ crashes' = crashes + 1
  /\ pilot[s].pc /= "idle"
  /\ pilot' = [pilot EXCEPT ![s] = NoWork]
  /\ UNCHANGED <<chat, log, sent, undo>>

Next ==
  \/ Team
  \/ \E s \in Servers : Autopilot(s) \/ Crash(s)
  \/ \E m \in Messages : Leaves(m)
  \/ Undo

Spec == Init /\ [][Next]_vars

-----------------------------------------------------------------------------
(* What was acted on was said, and a reply answers a question.             *)
TypeOK ==
  /\ awaiting \in 0..Latest /\ answered \in 0..Latest
  /\ \A m \in Messages : log[m].outcome /= "none" => m <= Latest /\ log[m].at \in 1..clock
  /\ \A m \in Messages : sent[m].way /= "none" => log[m].outcome /= "none" /\ said[m] = "question"

(* A reply that was taken back is not on the customer's phone, unless its  *)
(* outcome was unknown: then the undo takes it for one that is not being   *)
(* sent any more, WhatsApp cannot be asked to delete it, and it is called  *)
(* taken back although the customer may have it (autopilotService.undo,    *)
(* deleteMessage).  Whatever crosses the undo otherwise, a call in flight, *)
(* an offline number or an answer that comes late, the promise is kept.    *)
TakenBack ==
  \A m \in Messages : log[m].outcome = "undone" => ~sent[m].shown \/ sent[m].blind

(* Nothing is sent to a customer whom a person answered after he wrote     *)
(* last, "however long the model took to think" (personGuard).             *)
NotTalkedOver ==
  [][\A m \in Messages : sent[m].way = "none" /\ sent'[m].way = "box" => answered < Latest]_vars
=============================================================================
