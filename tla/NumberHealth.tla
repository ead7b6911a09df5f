---------------------------- MODULE NumberHealth ----------------------------
(***************************************************************************)
(* Who is told that a WhatsApp number is in trouble (numberHealth): every  *)
(* server asks the numbers it runs whether they are there, judges all      *)
(* numbers, and tells the owner and the managers of what lasts, once per   *)
(* cooldown (notificationService).                                         *)
(***************************************************************************)
EXTENDS Naturals, FiniteSets

CONSTANTS
  Servers,
  Runner,     \* the server that runs the number
  Threshold,  \* THRESHOLDS.unresponsiveAfter
  Managers,   \* owners and admins of the company
  Owner,      \* the number's owner
  MaxTurns,   \* bound: how often the number turns
  MaxCrashes  \* bound

VARIABLES
  number,   \* up: CONNECTED; long: down for half an hour; mute: does not answer;
            \* wrong: sends of the hour go wrong; stuck: a message waits for ten minutes
  misses,   \* heartbeat_failures, counted up to Threshold
  told,     \* notifications of each problem younger than the cooldown: who got how many
  work,     \* each server's round
  turns, crashes

vars == <<number, misses, told, work, turns, crashes>>

Codes == {"down", "unresponsive", "failing", "stuck"}
People == Managers \union {Owner}
Idle == [pc |-> "idle", todo |-> {}]

Init ==
  /\ number = [up |-> TRUE, long |-> FALSE, mute |-> FALSE, wrong |-> FALSE, stuck |-> FALSE]
  /\ misses = 0
  /\ told = [c \in Codes |-> [p \in People |-> 0]]
  /\ work = [s \in Servers |-> Idle]
  /\ turns = 0 /\ crashes = 0

-----------------------------------------------------------------------------
(* What becomes of the number.                                             *)
Turns ==
  /\ turns < MaxTurns /\ turns' = turns + 1
  /\ \/ number' = [number EXCEPT !.up = ~@, !.long = FALSE]
     \/ number' = [number EXCEPT !.mute = ~@]
     \/ number' = [number EXCEPT !.wrong = ~@]
     \/ number' = [number EXCEPT !.stuck = ~@]
  /\ UNCHANGED <<misses, told, work, crashes>>

(* A number that is down is down for half an hour.                         *)
Lasts ==
  /\ ~number.up /\ ~number.long /\ number' = [number EXCEPT !.long = TRUE]
  /\ UNCHANGED <<misses, told, work, turns, crashes>>

(* The cooldown of a problem is over.                                      *)
Cools(c) ==
  /\ told[c] /= [p \in People |-> 0]
  /\ told' = [told EXCEPT ![c] = [p \in People |-> 0]]
  /\ UNCHANGED <<number, misses, work, turns, crashes>>

-----------------------------------------------------------------------------
OneMore == IF misses < Threshold THEN misses + 1 ELSE misses

(* Mutant of Counted: what this server does not ask counts as there.       *)
CountedElsewhere(s) == IF s = Runner /\ number.up /\ number.mute THEN OneMore ELSE 0

(* The misses in a row: a number that is down, or runs elsewhere, is not   *)
(* asked.                                                                  *)
Counted(s) ==
  CASE ~(s = Runner /\ number.up) -> misses
    [] number.mute                -> OneMore
    [] OTHER                      -> 0

(* pumpNumberHealth: one round at a time on a server.  pingSessions asks   *)
(* the numbers this server runs, when they are connected.                  *)
Ping(s) ==
  /\ work[s].pc = "idle"
  /\ misses' = Counted(s)
  /\ work' = [work EXCEPT ![s].pc = "judge"]
  /\ UNCHANGED <<number, told, turns, crashes>>

(* judge: the problems somebody is told of.                                *)
Problems ==
  {c \in Codes :
     CASE c = "down"         -> ~number.up /\ number.long
       [] c = "unresponsive" -> number.up /\ misses >= Threshold
       [] c = "failing"      -> number.wrong
       [] c = "stuck"        -> number.stuck}

(* alertOnProblems reads every number's health.                            *)
Judge(s) ==
  /\ work[s].pc = "judge"
  /\ work' = [work EXCEPT ![s] = [pc |-> IF Problems = {} THEN "idle" ELSE "look", todo |-> Problems]]
  /\ UNCHANGED <<number, misses, told, turns, crashes>>

(* Mutant of Recent: nobody looks.                                         *)
RecentNever(c) == FALSE

Recent(c) == \E p \in People : told[c][p] > 0

(* The next problem: was somebody told within the cooldown?                *)
Look(s) ==
  LET rest(c) == work[s].todo \ {c} IN
  /\ work[s].pc = "look"
  /\ \E c \in work[s].todo :
       work' = [work EXCEPT ![s] =
                  IF ~Recent(c) THEN [pc |-> c, todo |-> rest(c)]
                  ELSE [pc |-> IF rest(c) = {} THEN "idle" ELSE "look", todo |-> rest(c)]]
  /\ UNCHANGED <<number, misses, told, turns, crashes>>

(* createNotifications: one row for each person, the owner once.           *)
Tell(s) ==
  LET c == work[s].pc IN
  /\ c \in Codes
  /\ told' = [told EXCEPT ![c] = [p \in People |-> @[p] + 1]]
  /\ work' = [work EXCEPT ![s].pc = IF work[s].todo = {} THEN "idle" ELSE "look"]
  /\ UNCHANGED <<number, misses, turns, crashes>>

Crash(s) ==
  /\ crashes < MaxCrashes /\ crashes' = crashes + 1
  /\ work[s].pc /= "idle" /\ work' = [work EXCEPT ![s] = Idle]
  /\ UNCHANGED <<number, misses, told, turns>>

Round(s) == Ping(s) \/ Judge(s) \/ Look(s) \/ Tell(s)

Next ==
  \/ Turns \/ Lasts \/ \E c \in Codes : Cools(c)
  \/ \E s \in Servers : Round(s) \/ Crash(s)

(* A timer runs the rounds of every server.                                *)
Fairness == \A s \in Servers : WF_vars(Round(s))

Spec == Init /\ [][Next]_vars /\ Fairness

-----------------------------------------------------------------------------
TypeOK ==
  /\ misses \in 0..Threshold
  /\ told \in [Codes -> [People -> Nat]]
  /\ \A s \in Servers : work[s].pc \in {"idle", "judge", "look"} \union Codes /\ work[s].todo \subseteq Codes

(* Nobody is told of one problem more often in a cooldown than there are   *)
(* servers: each looks before it tells, but two may look at once.          *)
ToldPerServer == \A c \in Codes, p \in People : told[c][p] <= Cardinality(Servers)

(* Once per cooldown (numberHealth.js:158).                                *)
OncePerCooldown == \A c \in Codes, p \in People : told[c][p] <= 1

(* What is wrong with the number, whatever the servers know of it.         *)
Wrong(c) ==
  CASE c = "down"         -> ~number.up /\ number.long
    [] c = "unresponsive" -> number.up /\ number.mute
    [] c = "failing"      -> number.wrong
    [] c = "stuck"        -> number.stuck

(* Trouble that stays is trouble that somebody was told of, and is told of *)
(* again whenever the cooldown is over.                                    *)
TroubleIsTold == \A c \in Codes : []<>(~Wrong(c) \/ Recent(c))
=============================================================================
