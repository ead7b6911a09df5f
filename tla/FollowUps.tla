----------------------------- MODULE FollowUps -----------------------------
(***************************************************************************)
(* One follow-up and the job that reminds about it on every server: a      *)
(* warning before it is due, a reminder when it is, and a notice to the    *)
(* managers when it stays overdue (pumpLeadReminders, escalateOverdueTasks,*)
(* patchTask in leadService).  A pass lists the row, claims it by setting  *)
(* the notice's own timestamp, then tells.                                 *)
(***************************************************************************)
EXTENDS Naturals

CONSTANTS
  Servers,     \* processes that run the jobs
  People,      \* teammates it can be given to
  MaxTime,     \* bound: the clock
  MaxChanges,  \* bound: what people change
  MaxCrashes   \* bound

VARIABLES
  clock,
  task,      \* due_at, the person, done_at, and the notices claimed
  leadOpen,  \* there is no lead, or it is open
  server,    \* what each server read, and how far it is
  version,   \* history: number of times and persons set so far
  told,      \* history: how often each notice was sent
  reminded,  \* history: the version the last reminder was sent for
  changes,
  crashes

vars == <<clock, task, leadOpen, server, version, told, reminded, changes, crashes>>

Kinds == {"upcoming", "due", "overdue"}
Idle == [pc |-> "idle"]

Init ==
  /\ clock = 0
  /\ \E due \in 1..MaxTime, who \in People :
       task = [due |-> due, who |-> who, done |-> FALSE, claimed |-> {}]
  /\ leadOpen = TRUE
  /\ server = [s \in Servers |-> Idle]
  /\ version = 1
  /\ told = [k \in Kinds |-> 0] /\ reminded = 0
  /\ changes = 0 /\ crashes = 0

Tick ==
  /\ clock < MaxTime /\ clock' = clock + 1
  /\ UNCHANGED <<task, leadOpen, server, version, told, reminded, changes, crashes>>

-----------------------------------------------------------------------------
(* The three lists.  A unit of time stands for the quarter of an hour a    *)
(* warning comes ahead, and for the hours before an escalation.            *)

Due(kind) ==
  CASE kind = "upcoming" -> task.due = clock + 1
    [] kind = "due"      -> task.due <= clock
    [] OTHER             -> task.due < clock

Listed(kind) == ~task.done /\ leadOpen /\ kind \notin task.claimed /\ Due(kind)

Lists(s, kind) ==
  /\ server[s] = Idle
  /\ Listed(kind)
  /\ server' = [server EXCEPT ![s] = [pc |-> "claim", kind |-> kind, version |-> version]]
  /\ UNCHANGED <<clock, task, leadOpen, version, told, reminded, changes, crashes>>

(* Mutant of Claimable: what was listed is told, whoever claimed it.       *)
ClaimableAlways(kind) == TRUE

(* The claim asks only whether the notice's timestamp is still empty.      *)
Claimable(kind) == kind \notin task.claimed

Claims(s) ==
  /\ server[s].pc = "claim"
  /\ IF Claimable(server[s].kind)
     THEN /\ task' = [task EXCEPT !.claimed = @ \cup {server[s].kind}]
          /\ server' = [server EXCEPT ![s].pc = "tell"]
     ELSE server' = [server EXCEPT ![s] = Idle] /\ UNCHANGED task
  /\ UNCHANGED <<clock, leadOpen, version, told, reminded, changes, crashes>>

(* What is sent is what the list returned.                                 *)
Tells(s) ==
  /\ server[s].pc = "tell"
  /\ told' = [told EXCEPT ![server[s].kind] = @ + 1]
  /\ reminded' = IF server[s].kind = "due" THEN server[s].version ELSE reminded
  /\ server' = [server EXCEPT ![s] = Idle]
  /\ UNCHANGED <<clock, task, leadOpen, version, changes, crashes>>

Crashes(s) ==
  /\ server[s] /= Idle /\ crashes < MaxCrashes
  /\ crashes' = crashes + 1
  /\ server' = [server EXCEPT ![s] = Idle]
  /\ UNCHANGED <<clock, task, leadOpen, version, told, reminded, changes>>

-----------------------------------------------------------------------------
Changes == changes < MaxChanges /\ changes' = changes + 1

(* patchTask: a new time, or another person, empties the three timestamps. *)
Reset(t) == [t EXCEPT !.claimed = {}]

Moves(due) ==
  /\ task.due /= due /\ Changes /\ version' = version + 1
  /\ task' = Reset([task EXCEPT !.due = due])
  /\ UNCHANGED <<clock, leadOpen, server, told, reminded, crashes>>

Gives(who) ==
  /\ task.who /= who /\ Changes /\ version' = version + 1
  /\ task' = Reset([task EXCEPT !.who = who])
  /\ UNCHANGED <<clock, leadOpen, server, told, reminded, crashes>>

Ticks(done) ==
  /\ Changes
  /\ task' = [task EXCEPT !.done = done]
  /\ UNCHANGED <<clock, leadOpen, server, version, told, reminded, crashes>>

LeadMoves ==
  /\ Changes /\ leadOpen' = ~leadOpen
  /\ UNCHANGED <<clock, task, server, version, told, reminded, crashes>>

Job(s) == (\E k \in Kinds : Lists(s, k)) \/ Claims(s) \/ Tells(s)

Next ==
  \/ Tick
  \/ \E s \in Servers : Job(s) \/ Crashes(s)
  \/ \E due \in 0..MaxTime : Moves(due)
  \/ \E who \in People : Gives(who)
  \/ \E done \in BOOLEAN : Ticks(done)
  \/ LeadMoves

(* The job runs every few seconds on every server, and time passes.        *)
Spec == Init /\ [][Next]_vars /\ WF_vars(Tick) /\ \A s \in Servers : WF_vars(Job(s))

-----------------------------------------------------------------------------
TypeOK ==
  /\ clock \in 0..MaxTime
  /\ task.due \in 0..MaxTime /\ task.who \in People /\ task.done \in BOOLEAN
  /\ task.claimed \subseteq Kinds
  /\ leadOpen \in BOOLEAN
  /\ \A s \in Servers : server[s].pc \in {"idle", "claim", "tell"}
  /\ version \in 1..MaxChanges + 1 /\ changes \in 0..MaxChanges /\ crashes \in 0..MaxCrashes

(* However many servers list it and whenever people change it, there is at *)
(* most one notice of a kind for every time and person that was set.       *)
RemindedOnce == \A k \in Kinds : told[k] <= version

(* A follow-up that is due does not stay on the list: it is claimed, or    *)
(* people finish, move or close it.                                        *)
DueIsTaken == Listed("due") ~> ~Listed("due")

(* A new time reminds again: once nobody changes the follow-up any more    *)
(* and its time has come, its reminder for that time has been sent.        *)
NewTimeReminds ==
  <>[](~task.done /\ leadOpen /\ Due("due"))
    => <>(reminded = version)
=============================================================================
