---------------------------- MODULE Preparation ----------------------------
(***************************************************************************)
(* Riwo gets a waiting chat ready while nobody looks: every server looks   *)
(* for chats whose latest message has not been prepared, takes the chat    *)
(* for that message, asks the model and keeps its answer (aiPrepService).  *)
(* One chat; the summary and the draft are what the chat had when asked.   *)
(***************************************************************************)
EXTENDS Naturals

CONSTANTS
  Servers,      \* processes that run the job
  MaxMessages,  \* bound: what the customer writes
  MaxFaults     \* bound: failed models, slow jobs, crashes

VARIABLES
  latest,   \* the customer's latest message, 0 when there is none
  waits,    \* awaiting_since is set
  insight,  \* the chat's row of ai_insights
  prep,     \* what each server is at
  faults

vars == <<latest, waits, insight, prep, faults>>

NoPrep == [pc |-> "idle", of |-> 0, seen |-> 0]

Init ==
  /\ latest = 0 /\ waits = FALSE
  /\ insight = [of |-> 0, status |-> "none", seen |-> 0, old |-> FALSE]
  /\ prep = [s \in Servers |-> NoPrep]
  /\ faults = 0

Writes ==
  /\ latest < MaxMessages
  /\ latest' = latest + 1 /\ waits' = TRUE
  /\ UNCHANGED <<insight, prep, faults>>

Answered ==
  /\ waits /\ waits' = FALSE
  /\ UNCHANGED <<latest, insight, prep, faults>>

-----------------------------------------------------------------------------
(* candidates: never prepared; prepared for another message, unless a      *)
(* server is at it; or failed for this one.                                *)
Unprepared ==
  \/ insight.of = 0
  \/ insight.of /= latest /\ (insight.status /= "working" \/ insight.old)
  \/ insight.of = latest /\ insight.status = "failed"

Finds(s) ==
  /\ prep[s].pc = "idle"
  /\ waits
  /\ Unprepared
  /\ prep' = [prep EXCEPT ![s] = [pc |-> "claim", of |-> latest, seen |-> 0]]
  /\ UNCHANGED <<latest, waits, insight, faults>>

(* The claim asks again, of the message that was read.                     *)
MayTake(m) ==
  \/ insight.of /= m
  \/ insight.status = "failed"
  \/ insight.status = "working" /\ insight.old

Takes(s) ==
  LET m == prep[s].of IN
  /\ prep[s].pc = "claim"
  /\ IF MayTake(m)
     THEN /\ insight' = [insight EXCEPT !.of = m, !.status = "working", !.old = FALSE]
          /\ prep' = [prep EXCEPT ![s].pc = "think"]
     ELSE prep' = [prep EXCEPT ![s] = NoPrep] /\ UNCHANGED insight
  /\ UNCHANGED <<latest, waits, faults>>

(* The chat is read now; the answer comes later, or not at all.            *)
Thinks(s) ==
  /\ prep[s].pc = "think"
  /\ \/ prep' = [prep EXCEPT ![s].pc = "ready", ![s].seen = latest] /\ UNCHANGED faults
     \/ /\ faults < MaxFaults /\ faults' = faults + 1
        /\ prep' = [prep EXCEPT ![s].pc = "failed"]
  /\ UNCHANGED <<latest, waits, insight>>

(* Mutant of StillFor: whoever answers last is kept.                       *)
StillForAny(m) == TRUE

(* What was prepared for another message is out of date.                   *)
StillFor(m) == insight.of = m

Keeps(s) ==
  /\ prep[s].pc \in {"ready", "failed"}
  /\ insight' = IF StillFor(prep[s].of)
                THEN [insight EXCEPT !.status = prep[s].pc, !.old = FALSE,
                        !.seen = IF prep[s].pc = "ready" THEN prep[s].seen ELSE @]
                ELSE insight
  /\ prep' = [prep EXCEPT ![s] = NoPrep]
  /\ UNCHANGED <<latest, waits, faults>>

(* A preparation that has worked for two minutes may be taken over.        *)
GrowsOld ==
  /\ insight.status = "working" /\ ~insight.old
  /\ faults < MaxFaults /\ faults' = faults + 1
  /\ insight' = [insight EXCEPT !.old = TRUE]
  /\ UNCHANGED <<latest, waits, prep>>

Crash(s) ==
  /\ faults < MaxFaults /\ faults' = faults + 1
  /\ prep[s] /= NoPrep
  /\ prep' = [prep EXCEPT ![s] = NoPrep]
  /\ UNCHANGED <<latest, waits, insight>>

Job(s) == Finds(s) \/ Takes(s) \/ Thinks(s) \/ Keeps(s)

Next ==
  \/ Writes \/ Answered \/ GrowsOld
  \/ \E s \in Servers : Job(s) \/ Crash(s)

Spec == Init /\ [][Next]_vars

-----------------------------------------------------------------------------
(* A row is for a message that was written, and a server at work has one.  *)
TypeOK ==
  /\ insight.of \in 0..latest /\ insight.seen \in 0..latest
  /\ insight.status /= "none" => insight.of > 0
  /\ \A s \in Servers : prep[s].pc /= "idle" => prep[s].of \in 1..latest

(* A draft shown as ready for a message was made from a chat that had that *)
(* message, whichever server's answer comes last (prepareOne: "then this   *)
(* is already out of date").                                               *)
InsightIsCurrent == insight.status = "ready" => insight.seen >= insight.of
=============================================================================
