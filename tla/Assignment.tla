----------------------------- MODULE Assignment -----------------------------
(***************************************************************************)
(* New chats given to the team automatically (assignmentService), while    *)
(* the team assigns and closes chats and goes away itself.  Every server   *)
(* serves the first messages of new chats; the choice is a transaction     *)
(* that locks the settings, the assignment comes after it.  Every member   *)
(* below is in the rotation and on the chosen team, every number is        *)
(* covered and the hours are open: only enabled and available change.      *)
(***************************************************************************)
EXTENDS Naturals, FiniteSets, FiniteSetsExt

CONSTANTS
  Members,    \* user ids, ordered: 1, 2, ...
  Chats,      \* chats whose first message arrives
  Servers,    \* processes that run the automation job
  MaxOpen,    \* max_open; 0 stands for no limit
  MaxActs     \* bound: what the team does

VARIABLES
  chats,      \* owner, whether it is closed, and the stage of its first message
  leadOwner,  \* the owner of the open lead of each chat's contact, or 0
  available,  \* memberships.available
  enabled,
  mode,       \* "round_robin" or "least_busy"
  last,       \* last_assigned_user_id, 0 for none
  server,     \* what each server is at
  turns,      \* history: who was chosen by the rotation, how often
  byTeam,     \* history: chats a person has assigned
  acts

vars == <<chats, leadOwner, available, enabled, mode, last, server, turns, byTeam, acts>>

Unassigned == 0
Owners == Members \cup {Unassigned}
Free == [pc |-> "free"]

Init ==
  /\ chats = [c \in Chats |-> [owner |-> Unassigned, closed |-> FALSE, first |-> "none"]]
  /\ leadOwner \in [Chats -> {Unassigned, Min(Members)}]
  /\ available = [m \in Members |-> TRUE]
  /\ enabled = TRUE /\ mode \in {"round_robin", "least_busy"} /\ last = Unassigned
  /\ server = [s \in Servers |-> Free]
  /\ turns = [m \in Members |-> 0]
  /\ byTeam = {} /\ acts = 0

-----------------------------------------------------------------------------
(* pick: who gets the chat.                                                *)

OpenChats(m) == Cardinality({c \in Chats : chats[c].owner = m /\ ~chats[c].closed})
Room == {m \in Members : available[m] /\ (MaxOpen = 0 \/ OpenChats(m) < MaxOpen)}

(* Mutant of Next1: the rotation always begins with the first.             *)
Next1First(people) == Min(people)

(* The rotation goes on after whoever was chosen last, and wraps round.    *)
Next1(people) ==
  LET later == {m \in people : m > last} IN Min(IF later = {} THEN people ELSE later)

LeastBusy(people) == {m \in people : \A o \in people : OpenChats(m) <= OpenChats(o)}

Pick == Next1(IF mode = "least_busy" THEN LeastBusy(Room) ELSE Room)

(* A returning customer goes to the owner of their lead, whatever the      *)
(* rotation and the limit say, if that person is available.                *)
Returning(c) == leadOwner[c] /= Unassigned /\ available[leadOwner[c]]

-----------------------------------------------------------------------------
Arrives(c) ==
  /\ chats[c].first = "none"
  /\ chats' = [chats EXCEPT ![c].first = "waits"]
  /\ UNCHANGED <<leadOwner, available, enabled, mode, last, server, turns, byTeam, acts>>

(* The chat is read when its event is served; an assigned one is left out. *)
Serves(s, c) ==
  /\ server[s] = Free
  /\ chats[c].first = "waits"
  /\ IF chats[c].owner /= Unassigned
     THEN chats' = [chats EXCEPT ![c].first = "served"] /\ UNCHANGED server
     ELSE chats' = chats /\ server' = [server EXCEPT ![s] = [pc |-> "choose", chat |-> c]]
  /\ UNCHANGED <<leadOwner, available, enabled, mode, last, turns, byTeam, acts>>

(* The transaction on the settings.                                        *)
Chooses(s) ==
  LET c == server[s].chat
      returns == Returning(c) IN
  /\ server[s].pc = "choose"
  /\ IF ~enabled \/ (~returns /\ Room = {})
     THEN /\ server' = [server EXCEPT ![s] = [pc |-> "done", chat |-> c]]
          /\ UNCHANGED <<last, turns>>
     ELSE LET who == IF returns THEN leadOwner[c] ELSE Pick IN
          /\ server' = [server EXCEPT ![s] = [pc |-> "assign", chat |-> c, who |-> who]]
          /\ last' = IF returns THEN last ELSE who
          /\ turns' = IF returns THEN turns ELSE [turns EXCEPT ![who] = @ + 1]
  /\ UNCHANGED <<chats, leadOwner, available, enabled, mode, byTeam, acts>>

(* Mutant of StillFree: the choice is applied, whoever has the chat by now.*)
StillFreeAlways(c) == TRUE

(* assignConversation with onlyIfUnassigned, then syncLeadOwner.           *)
StillFree(c) == chats[c].owner = Unassigned

Gives(s) ==
  LET c == server[s].chat IN
  /\ server[s].pc = "assign"
  /\ IF StillFree(c)
     THEN /\ chats' = [chats EXCEPT ![c].owner = server[s].who]
          /\ server' = [server EXCEPT ![s] = [pc |-> "follow", chat |-> c, who |-> @.who]]
     ELSE /\ server' = [server EXCEPT ![s] = [pc |-> "done", chat |-> c]]
          /\ UNCHANGED chats
  /\ UNCHANGED <<leadOwner, available, enabled, mode, last, turns, byTeam, acts>>

Follows(s) ==
  LET c == server[s].chat IN
  /\ server[s].pc = "follow"
  /\ leadOwner' = [leadOwner EXCEPT ![c] = IF @ = Unassigned THEN @ ELSE server[s].who]
  /\ server' = [server EXCEPT ![s] = [pc |-> "done", chat |-> c]]
  /\ UNCHANGED <<chats, available, enabled, mode, last, turns, byTeam, acts>>

(* The event is marked as served; the rules that run between are elsewhere.*)
Finishes(s) ==
  /\ server[s].pc = "done"
  /\ chats' = [chats EXCEPT ![server[s].chat].first = "served"]
  /\ server' = [server EXCEPT ![s] = Free]
  /\ UNCHANGED <<leadOwner, available, enabled, mode, last, turns, byTeam, acts>>

(* The event stays pending, so another server serves it again.             *)
Crashes(s) ==
  /\ server[s] /= Free /\ acts < MaxActs
  /\ acts' = acts + 1
  /\ server' = [server EXCEPT ![s] = Free]
  /\ UNCHANGED <<chats, leadOwner, available, enabled, mode, last, turns, byTeam>>

-----------------------------------------------------------------------------
Acts == acts < MaxActs /\ acts' = acts + 1

(* PATCH of the chat: assign or unassign, or close it.                     *)
Assigns(c, m) ==
  /\ chats[c].first /= "none" /\ Acts
  /\ chats' = [chats EXCEPT ![c].owner = m]
  /\ leadOwner' = [leadOwner EXCEPT ![c] = IF @ = Unassigned THEN @ ELSE m]
  /\ byTeam' = IF m = Unassigned THEN byTeam \ {c} ELSE byTeam \cup {c}
  /\ UNCHANGED <<available, enabled, mode, last, server, turns>>

Closes(c) ==
  /\ chats[c].first /= "none" /\ ~chats[c].closed /\ Acts
  /\ chats' = [chats EXCEPT ![c].closed = TRUE]
  /\ UNCHANGED <<leadOwner, available, enabled, mode, last, server, turns, byTeam>>

GoesAway(m) ==
  /\ available[m] /\ Acts
  /\ available' = [available EXCEPT ![m] = FALSE]
  /\ UNCHANGED <<chats, leadOwner, enabled, mode, last, server, turns, byTeam>>

SwitchesOff ==
  /\ enabled /\ Acts
  /\ enabled' = FALSE
  /\ UNCHANGED <<chats, leadOwner, available, mode, last, server, turns, byTeam>>

Next ==
  \/ \E c \in Chats : Arrives(c) \/ Closes(c) \/ \E m \in Owners : Assigns(c, m)
  \/ \E s \in Servers : \/ \E c \in Chats : Serves(s, c)
                        \/ Chooses(s) \/ Gives(s) \/ Follows(s) \/ Finishes(s) \/ Crashes(s)
  \/ \E m \in Members : GoesAway(m)
  \/ SwitchesOff

Spec == Init /\ [][Next]_vars

-----------------------------------------------------------------------------
TypeOK ==
  /\ chats \in [Chats -> [owner : Owners, closed : BOOLEAN, first : {"none", "waits", "served"}]]
  /\ leadOwner \in [Chats -> Owners]
  /\ available \in [Members -> BOOLEAN] /\ enabled \in BOOLEAN
  /\ mode \in {"round_robin", "least_busy"}
  /\ last \in Owners
  /\ \A s \in Servers : server[s].pc \in {"free", "choose", "assign", "follow", "done"}
  /\ turns \in [Members -> Nat] /\ byTeam \subseteq Chats /\ acts \in 0..MaxActs

(* A chat a person has assigned is never given to someone else by the      *)
(* rule, whoever was chosen for it before.                                 *)
TeamDecides ==
  [][\A s \in Servers, c \in byTeam :
       server[s].pc = "assign" /\ server'[s].pc \in {"follow", "done"}
         => chats'[c].owner = chats[c].owner]_vars

(* While everyone stays available and has room, turns go round evenly,     *)
(* whatever the servers do at once.                                        *)
TurnsAreEven ==
  (mode = "round_robin" /\ MaxOpen = 0 /\ \A m \in Members : available[m])
    => \A m, o \in Members : turns[m] <= turns[o] + 1
=============================================================================
