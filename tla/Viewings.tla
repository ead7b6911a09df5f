----------------------------- MODULE Viewings -----------------------------
(***************************************************************************)
(* Viewings of the real-estate solution: an agent shows a property to a    *)
(* lead for a stretch of time (solutions/real-estate/viewings).  A booking *)
(* and a move lock the three for the length of the transaction; ending or  *)
(* confirming a viewing locks only its row.  With each viewing goes a      *)
(* reminder, a follow-up of the job in FollowUps, one unit before it       *)
(* starts; the claims of that job are single steps here.                   *)
(***************************************************************************)
EXTENDS Naturals, FiniteSets

CONSTANTS
  Ids,        \* viewings that may be made
  Agents, Properties, Prospects,
  Keys,       \* idempotency keys
  NoKey,
  Requests,   \* requests being served at the same time
  MaxTime,    \* bound: the clock, and the last moment of a viewing
  MaxAsks     \* bound: requests in all

ASSUME ViewingsAssumption ==
  /\ NoKey \notin Ids \cup Keys
  /\ {MaxTime, MaxAsks} \subseteq Nat

VARIABLES
  clock,
  viewings,
  reminders,  \* done_at and the claimed notices of each viewing's reminder
  doing,      \* what each request is at, and what it read
  reminded,   \* history: the start each viewing's last reminder was for
  warned,     \* history: the start its last warning ahead was for
  asks

vars == <<clock, viewings, reminders, doing, reminded, warned, asks>>

Times == 1..MaxTime
Targets == {"confirmed", "completed", "cancelled", "no_show"}
Active == {"scheduled", "confirmed"}
Transitions(status) ==
  CASE status = "scheduled" -> Targets
    [] status = "confirmed" -> Targets \ {"confirmed"}
    [] OTHER -> {}

NoViewing == [status |-> "none"]
Idle == [pc |-> "idle"]
Stretches == {s \in Times \X Times : s[1] < s[2]}

Init ==
  /\ clock = 0
  /\ viewings = [v \in Ids |-> NoViewing]
  /\ reminders = [v \in Ids |-> [done |-> FALSE, claimed |-> {}]]
  /\ doing = [r \in Requests |-> Idle]
  /\ reminded = [v \in Ids |-> 0] /\ warned = [v \in Ids |-> 0]
  /\ asks = 0

Made == {v \in Ids : viewings[v].status /= "none"}
ActiveViewings == {v \in Made : viewings[v].status \in Active}
RemindAt(v) == viewings[v].from - 1

Tick ==
  /\ clock < MaxTime /\ clock' = clock + 1
  /\ UNCHANGED <<viewings, reminders, doing, reminded, warned, asks>>

Asks(r, work) ==
  /\ doing[r] = Idle
  /\ asks < MaxAsks /\ asks' = asks + 1
  /\ doing' = [doing EXCEPT ![r] = work]
  /\ UNCHANGED <<clock, viewings, reminders, reminded, warned>>

Goes(r, pc) == doing' = [doing EXCEPT ![r].pc = pc]
Ends(r) == doing' = [doing EXCEPT ![r] = Idle]

-----------------------------------------------------------------------------
(* createViewing and rescheduleViewing: read, lock, check, write.          *)

(* Half-open stretches: one may begin the moment another ends.             *)
Overlap(a, b) == a.from < b.to /\ b.from < a.to
Shared(a, b) == a.agent = b.agent \/ a.property = b.property \/ a.prospect = b.prospect

Books(r) ==
  \E agent \in Agents, property \in Properties, prospect \in Prospects,
     s \in Stretches, key \in Keys \cup {NoKey} :
    /\ s[1] > clock
    /\ Asks(r, [pc |-> "lock", moves |-> NoKey, from |-> s[1], to |-> s[2], key |-> key,
                agent |-> agent, property |-> property, prospect |-> prospect])

Moves(r) ==
  \E v \in ActiveViewings, s \in Stretches :
    /\ s[1] > clock
    /\ Asks(r, [pc |-> "lock", moves |-> v, from |-> s[1], to |-> s[2], key |-> viewings[v].key,
                agent |-> viewings[v].agent, property |-> viewings[v].property,
                prospect |-> viewings[v].prospect])

(* Mutant of Locked: bookings run beside each other.                       *)
LockedNever(work) == FALSE

(* The advisory locks are taken in one fixed order, so no two wait for     *)
(* each other: taking all three at once loses nothing.                     *)
Locked(work) ==
  \E q \in Requests : doing[q].pc \in {"check", "write"} /\ Shared(doing[q], work)

Locks(r) ==
  /\ doing[r].pc = "lock" /\ ~Locked(doing[r])
  /\ Goes(r, "check")
  /\ UNCHANGED <<clock, viewings, reminders, reminded, warned, asks>>

Conflicts(work) ==
  {v \in ActiveViewings \ {work.moves} : Overlap(viewings[v], work) /\ Shared(viewings[v], work)}

(* A request tried again with its key finds the viewing it made; a move is *)
(* given up when the viewing has ended meanwhile.                          *)
Prior(work) == work.key /= NoKey /\ \E v \in Made : viewings[v].key = work.key
Gone(work) == viewings[work.moves].status \notin Active

Checks(r) ==
  LET work == doing[r] IN
  /\ work.pc = "check"
  /\ IF \/ work.moves = NoKey /\ Prior(work)
        \/ work.moves /= NoKey /\ Gone(work)
        \/ Conflicts(work) /= {}
     THEN Ends(r) ELSE Goes(r, "write")
  /\ UNCHANGED <<clock, viewings, reminders, reminded, warned, asks>>

(* The unique index refuses a key another booking has just used.           *)
Inserts(r) ==
  LET work == doing[r] IN
  /\ work.pc = "write" /\ work.moves = NoKey
  /\ IF Prior(work)
     THEN UNCHANGED viewings
     ELSE \E v \in Ids \ Made :
            viewings' = [viewings EXCEPT ![v] =
              [status |-> "scheduled", from |-> work.from, to |-> work.to, key |-> work.key,
               agent |-> work.agent, property |-> work.property, prospect |-> work.prospect]]
  /\ Ends(r)
  /\ UNCHANGED <<clock, reminders, reminded, warned, asks>>

(* Mutant of AskedAgain: only done_at is emptied.                          *)
AskedAgainOnly(reminder) == [reminder EXCEPT !.done = FALSE]

(* The reminder is asked for again: not told, not escalated, not done. The *)
(* timestamp of the warning ahead stays as it is.                          *)
AskedAgain(reminder) == [reminder EXCEPT !.done = FALSE, !.claimed = @ \ {"due"}]

Rewrites(r) ==
  LET work == doing[r]
      v == work.moves IN
  /\ work.pc = "write" /\ v /= NoKey
  /\ viewings' = [viewings EXCEPT ![v].status = "scheduled", ![v].from = work.from, ![v].to = work.to]
  /\ reminders' = [reminders EXCEPT ![v] = AskedAgain(@)]
  /\ Ends(r)
  /\ UNCHANGED <<clock, reminded, warned, asks>>

-----------------------------------------------------------------------------
(* change: confirm, complete, cancel, no-show.                             *)

FindsToChange(r) ==
  \E v \in Made, target \in Targets :
    /\ target \in Transitions(viewings[v].status)
    /\ target \in {"completed", "no_show"} => viewings[v].from <= clock
    /\ Asks(r, [pc |-> "change", of |-> v, target |-> target])

(* Mutant of MayStill: what the request read is written.                   *)
MayStillAlways(v, target) == TRUE

(* The status is asked again under the row's lock, the start is not.       *)
MayStill(v, target) == target \in Transitions(viewings[v].status)
RowLocked(v) == \E q \in Requests : doing[q].pc = "write" /\ doing[q].moves = v

Changes(r) ==
  LET v == doing[r].of
      target == doing[r].target IN
  /\ doing[r].pc = "change" /\ ~RowLocked(v)
  /\ IF MayStill(v, target)
     THEN /\ viewings' = [viewings EXCEPT ![v].status = target]
          /\ reminders' = IF target = "confirmed" THEN reminders
                          ELSE [reminders EXCEPT ![v].done = TRUE]
     ELSE UNCHANGED <<viewings, reminders>>
  /\ Ends(r)
  /\ UNCHANGED <<clock, reminded, warned, asks>>

-----------------------------------------------------------------------------
Told(v, notice) ==
  /\ v \in Made /\ ~reminders[v].done /\ notice \notin reminders[v].claimed
  /\ reminders' = [reminders EXCEPT ![v].claimed = @ \cup {notice}]
  /\ UNCHANGED <<clock, viewings, doing, asks>>

Warns(v) ==
  /\ Told(v, "upcoming") /\ RemindAt(v) = clock + 1
  /\ warned' = [warned EXCEPT ![v] = viewings[v].from] /\ UNCHANGED reminded

Reminds(v) ==
  /\ Told(v, "due") /\ RemindAt(v) <= clock
  /\ reminded' = [reminded EXCEPT ![v] = viewings[v].from] /\ UNCHANGED warned

Next ==
  \/ Tick
  \/ \E r \in Requests :
       Books(r) \/ Moves(r) \/ Locks(r) \/ Checks(r) \/ Inserts(r) \/ Rewrites(r)
         \/ FindsToChange(r) \/ Changes(r)
  \/ \E v \in Ids : Warns(v) \/ Reminds(v)

Spec == Init /\ [][Next]_vars

-----------------------------------------------------------------------------
Bookings ==
  [status : Targets \cup Active, from : Times, to : Times, key : Keys \cup {NoKey},
   agent : Agents, property : Properties, prospect : Prospects]
Works ==
  [pc : {"lock", "check", "write"}, moves : Ids \cup {NoKey}, from : Times, to : Times,
   key : Keys \cup {NoKey}, agent : Agents, property : Properties, prospect : Prospects]
ChangeWorks == [pc : {"change"}, of : Ids, target : Targets]

TypeOK ==
  /\ clock \in 0..MaxTime /\ asks \in 0..MaxAsks
  /\ viewings \in [Ids -> Bookings \cup {NoViewing}]
  /\ reminders \in [Ids -> [done : BOOLEAN, claimed : SUBSET {"upcoming", "due"}]]
  /\ doing \in [Requests -> Works \cup ChangeWorks \cup {Idle}]
  /\ reminded \in [Ids -> 0..MaxTime] /\ warned \in [Ids -> 0..MaxTime]

(* "Two people booking at once must not both succeed": no agent, property  *)
(* or lead is in two viewings at the same time, however bookings and moves *)
(* interleave.                                                             *)
NeverTwiceAtOnce ==
  \A v, w \in ActiveViewings :
    v /= w => ~(Overlap(viewings[v], viewings[w]) /\ Shared(viewings[v], viewings[w]))

(* Why: a request that has checked holds the locks of the three until it   *)
(* writes, no other request that holds one of them is past its check, and  *)
(* what it found free is still free.                                       *)
Holding(r) == doing[r].pc \in {"check", "write"}

LockInv ==
  \A q, r \in Requests : q /= r /\ Holding(q) /\ Holding(r) => ~Shared(doing[q], doing[r])

MoveInv ==
  \A r \in Requests : doing[r].pc \in {"lock", "check", "write"} /\ doing[r].moves /= NoKey =>
    LET v == viewings[doing[r].moves] IN
    /\ v.status /= "none"
    /\ v.agent = doing[r].agent /\ v.property = doing[r].property
    /\ v.prospect = doing[r].prospect

WriteInv ==
  \A r \in Requests : doing[r].pc = "write" =>
    /\ Conflicts(doing[r]) = {}
    /\ doing[r].moves /= NoKey => ~Gone(doing[r])

(* Completed, cancelled and no-show are final, whoever else is pressing.   *)
EndedStays ==
  [][\A v \in Made \ ActiveViewings : viewings'[v] = viewings[v]]_vars

(* A viewing that was moved is reminded of again, for the new time.        *)
RemindedAnew ==
  \A v \in ActiveViewings : RemindAt(v) <= clock /\ "due" \in reminders[v].claimed
                              => reminded[v] = viewings[v].from

(* "Asked for again from scratch: not yet told": and so is the warning     *)
(* ahead of it.                                                            *)
WarnedAnew ==
  \A v \in ActiveViewings : RemindAt(v) = clock + 1 /\ "upcoming" \in reminders[v].claimed
                              => warned[v] = viewings[v].from
=============================================================================
