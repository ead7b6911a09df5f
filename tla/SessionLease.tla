----------------------------- MODULE SessionLease -----------------------------
(***************************************************************************)
(* Who runs the browser of a WhatsApp number (services/sessionService.js   *)
(* over the session table of services/whatsapp/WhatsAppProvider.js).       *)
(*                                                                         *)
(* The row of the number carries a lease: the worker that holds it and     *)
(* until when.  A worker that starts the number takes the lease, renews it *)
(* by a timer, and gives it up when the number is closed or its browser    *)
(* ends.  Starts, closes, the timer and the browser's status events are    *)
(* asynchronous calls of one process, interleaved at every await; each     *)
(* launch of a browser is an attempt with a life of its own.               *)
(*                                                                         *)
(* One number is modelled; it has been paired.                             *)
(***************************************************************************)
EXTENDS Integers, TLAPS

CONSTANTS
  Workers,    \* API processes
  Calls,      \* requests and recoveries under way at the same time
  Attempts,   \* bound: browser launches, in order
  LateEvents, \* status events of an ended browser may be handled after a new start
  Overlap,    \* starts and closes of the number may overlap in one worker
  Bound,      \* bound: how often each kind of event happens
  Nobody

Limited == {"crash", "drop", "close", "fault", "stall"}

VARIABLES
  row,     \* whatsapp_sessions: worker_id, lease_until > now(), restore_on_start
  up,      \* processes that run
  owned,   \* workers whose renewal timer for the number is set
  renew,   \* workers whose renewal statement is on its way
  entry,   \* provider.sessions of each worker: the attempt, 0 without one
  att,     \* the attempts
  call,    \* the calls of startTenantSession and closeTenantSession
  budget   \* how often each kind of event has happened

vars == <<row, up, owned, renew, entry, att, call, budget>>

Phases == {"none", "booting", "live", "gone"}
\* what became of the end of the browser: to be reported, raised, half or fully handled
Events == {"none", "due", "raised", "saved", "handled"}
CallPcs == {"idle", "kill", "forget", "release", "row", "tx", "launch"}
CallSlots == Calls \cup Workers

AttemptType == [at : Workers \cup {Nobody}, phase : Phases, event : Events,
                failed : {"no", "release", "row"}]
CallType == [at : Workers \cup {Nobody}, pc : CallPcs, keep : BOOLEAN, write : BOOLEAN,
             go : BOOLEAN]

TypeOK ==
  /\ row \in [holder : Workers \cup {Nobody}, leased : BOOLEAN, restore : BOOLEAN]
  /\ {up, owned, renew} \subseteq SUBSET Workers
  /\ entry \in [Workers -> Attempts \cup {0}]
  /\ att \in [Attempts -> AttemptType]
  /\ call \in [CallSlots -> CallType]
  /\ budget \in [Limited -> Nat]

NoCall == [at |-> Nobody, pc |-> "idle", keep |-> FALSE, write |-> FALSE, go |-> FALSE]
NoAttempt == [at |-> Nobody, phase |-> "none", event |-> "none", failed |-> "no"]

Init ==
  /\ row = [holder |-> Nobody, leased |-> FALSE, restore |-> TRUE]
  /\ up = Workers /\ owned = {} /\ renew = {}
  /\ entry = [w \in Workers |-> 0]
  /\ att = [a \in Attempts |-> NoAttempt]
  /\ call = [c \in CallSlots |-> NoCall]
  /\ budget = [e \in Limited |-> 0]

Spend(e) ==
  /\ budget[e] < Bound[e]
  /\ budget' = [budget EXCEPT ![e] = @ + 1]

Browser(a) == att[a].phase \in {"booting", "live"}

Current(a) == entry[att[a].at] = a

(* provider.getSession(...).status is one of the four that count as up.    *)
EntryIsUp(w) == entry[w] # 0 /\ att[entry[w]].event \in {"none", "due"}

HeldByOther(w) == row.holder \notin {w, Nobody} /\ row.leased

\* Mutant: the ended browser is left in a state no handler knows.
EndedClosed(a) == [att[a] EXCEPT !.phase = "closed", !.event = "due"]

Ended(a) == [att[a] EXCEPT !.phase = "gone", !.event = "due"]

(* Every browser of the worker that still uses the profile is stopped.     *)
Released(w) ==
  [a \in Attempts |-> IF att[a].at = w /\ Browser(a) THEN Ended(a) ELSE att[a]]

-----------------------------------------------------------------------------
(* closeTenantSession: refused while another worker holds the lease; then  *)
(* the timer goes, the browser is closed, the entry removed, the profile   *)
(* released, and the row written unless another worker has it by then.     *)
\* Mutant: the row is given up but the browser is not closed.
CloseRowOnly(w, keep, go) == [at |-> w, pc |-> "row", keep |-> keep, write |-> TRUE, go |-> go]

CloseCall(w, keep, go) == [at |-> w, pc |-> "kill", keep |-> keep, write |-> TRUE, go |-> go]

BeginClose(c, w, keep, go) ==
  /\ call' = [call EXCEPT ![c] = CloseCall(w, keep, go)]
  /\ owned' = owned \ {w}

(* Assumption of some runs: a worker starts or closes the number when it   *)
(* is done with the last start or close.  The code has no such queue.      *)
Alone(w) == \A c \in CallSlots : call[c].at # w

Disconnect(c, w) ==
  /\ w \in up /\ call[c].pc = "idle"
  /\ Overlap \/ Alone(w)
  /\ ~HeldByOther(w)
  /\ Spend("close")
  /\ \E keep \in BOOLEAN : BeginClose(c, w, keep, FALSE)
  /\ UNCHANGED <<row, up, renew, entry, att>>

Goto(c, pc) == call' = [call EXCEPT ![c].pc = pc]

Kill(c) ==
  /\ call[c].pc = "kill"
  /\ LET e == entry[call[c].at]
     IN  att' = IF e # 0 /\ att[e].phase = "live" THEN [att EXCEPT ![e] = Ended(e)] ELSE att
  /\ Goto(c, "forget")
  /\ UNCHANGED <<row, up, owned, renew, entry, budget>>

Forget(c) ==
  /\ call[c].pc = "forget"
  /\ entry' = [entry EXCEPT ![call[c].at] = 0]
  /\ Goto(c, "release")
  /\ UNCHANGED <<row, up, owned, renew, att, budget>>

Release(c) ==
  /\ call[c].pc = "release"
  /\ att' = Released(call[c].at)
  /\ call' = [call EXCEPT ![c] = IF call[c].write THEN [@ EXCEPT !.pc = "row"] ELSE NoCall]
  /\ UNCHANGED <<row, up, owned, renew, entry, budget>>

MayWrite(w) == row.holder \in {w, Nobody}

CloseRow(c) ==
  /\ call[c].pc = "row"
  /\ LET w == call[c].at
     IN  row' = IF MayWrite(w)
                THEN [holder |-> Nobody, leased |-> FALSE, restore |-> call[c].keep] ELSE row
  /\ call' = [call EXCEPT ![c] = IF call[c].go THEN [@ EXCEPT !.pc = "tx"] ELSE NoCall]
  /\ UNCHANGED <<up, owned, renew, entry, att, budget>>

-----------------------------------------------------------------------------
(* startTenantSession.  A number that is up here is left alone; a timer    *)
(* without a working browser is closed first.                              *)
BeginStart(c, w) ==
  IF w \in owned /\ EntryIsUp(w) THEN UNCHANGED <<call, owned>>
  ELSE IF w \in owned THEN ~HeldByOther(w) /\ BeginClose(c, w, TRUE, TRUE)
  ELSE /\ call' = [call EXCEPT ![c] = [NoCall EXCEPT !.at = w, !.pc = "tx", !.go = TRUE]]
       /\ UNCHANGED owned

Request(c, w) ==
  /\ w \in up /\ call[c].pc = "idle"
  /\ Overlap \/ Alone(w)
  /\ BeginStart(c, w)
  /\ UNCHANGED <<row, up, renew, entry, att, budget>>

Recover(c, w) ==
  /\ w \in up /\ call[c].pc = "idle"
  /\ Overlap \/ Alone(w)
  /\ row.restore /\ ~row.leased
  /\ BeginStart(c, w)
  /\ UNCHANGED <<row, up, renew, entry, att, budget>>

(* Assumption of some runs: the worker starts the number again after its   *)
(* last browser has ended and the statements of its events are done.       *)
Settled(w) ==
  \A a \in Attempts :
    att[a].at = w => /\ att[a].event \in {"none", "handled"} /\ att[a].failed = "no"
                     /\ Browser(a) => Current(a)

\* Mutant: the transaction does not look at the lease.
RefusedNever(w) == FALSE

Refused(w) == HeldByOther(w)

StartTx(c) ==
  /\ call[c].pc = "tx"
  /\ LET w == call[c].at
     IN  /\ LateEvents \/ Settled(w)
         /\ IF Refused(w)
            THEN /\ call' = [call EXCEPT ![c] = NoCall]
                 /\ UNCHANGED row
            ELSE /\ row' = [row EXCEPT !.holder = w, !.leased = TRUE]
                 /\ Goto(c, "launch")
  /\ UNCHANGED <<up, owned, renew, entry, att, budget>>

(* A second start of the same worker ends here.  The provider leaves an    *)
(* entry alone that is up, also one that is being closed.                  *)
Launch(c) ==
  /\ call[c].pc = "launch"
  /\ LET w == call[c].at
     IN  /\ LateEvents \/ Settled(w)
         /\ owned' = owned \cup {w}
         /\ IF w \in owned \/ EntryIsUp(w)
            THEN UNCHANGED <<entry, att>>
            ELSE \E a \in Attempts :
                   /\ att[a].phase = "none"
                   /\ \A b \in Attempts : b < a => att[b].phase # "none"
                   /\ entry' = [entry EXCEPT ![w] = a]
                   /\ att' = [Released(w) EXCEPT ![a] = [NoAttempt EXCEPT !.at = w, !.phase = "booting"]]
  /\ call' = [call EXCEPT ![c] = NoCall]
  /\ UNCHANGED <<row, up, renew, budget>>

-----------------------------------------------------------------------------
(* provider.startSession goes on: create() ends, and unless the entry is   *)
(* another attempt's by now, the number is connected or has failed.        *)
Connect(a) ==
  /\ att[a].phase = "booting"
  /\ IF Current(a)
     THEN /\ att' = [att EXCEPT ![a].phase = "live"]
          /\ row' = IF row.holder = att[a].at THEN [row EXCEPT !.restore = TRUE] ELSE row
     ELSE /\ att' = [att EXCEPT ![a] = Ended(a)]
          /\ UNCHANGED row
  /\ UNCHANGED <<up, owned, renew, entry, call, budget>>

StartFails(a) ==
  /\ att[a].phase = "booting"
  /\ Spend("drop")
  /\ IF Current(a)
     THEN /\ att' = [att EXCEPT ![a].phase = "gone", ![a].failed = "release"]
          /\ owned' = owned \ {att[a].at}
          /\ entry' = [entry EXCEPT ![att[a].at] = 0]
     ELSE /\ att' = [att EXCEPT ![a].phase = "gone"]
          /\ UNCHANGED <<owned, entry>>
  /\ UNCHANGED <<row, up, renew, call>>

FailRelease(a) ==
  /\ att[a].failed = "release"
  /\ att' = [Released(att[a].at) EXCEPT ![a].failed = "row"]
  /\ UNCHANGED <<row, up, owned, renew, entry, call, budget>>

FailRow(a) ==
  /\ att[a].failed = "row"
  /\ att' = [att EXCEPT ![a].failed = "no"]
  /\ row' = IF row.holder = att[a].at THEN [row EXCEPT !.holder = Nobody, !.leased = FALSE] ELSE row
  /\ UNCHANGED <<up, owned, renew, entry, call, budget>>

(* The browser dies by itself; a closed one may report its end as well.    *)
Drop(a) ==
  /\ Browser(a) /\ Current(a)
  /\ Spend("drop")
  /\ att' = [att EXCEPT ![a] = [@ EXCEPT !.phase = "gone", !.event = "raised"]]
  /\ UNCHANGED <<row, up, owned, renew, entry, call>>

ReportEnd(a) ==
  /\ att[a].event = "due"
  /\ \E event \in {"raised", "none"} : att' = [att EXCEPT ![a].event = event]
  /\ UNCHANGED <<row, up, owned, renew, entry, call, budget>>

(* onStatus(DISCONNECTED): the status is saved, the timer goes, and a      *)
(* second statement gives the lease up if this worker has it.              *)
EventSave(a) ==
  /\ att[a].event = "raised"
  /\ att' = [att EXCEPT ![a].event = "saved"]
  /\ owned' = owned \ {att[a].at}
  /\ UNCHANGED <<row, up, renew, entry, call, budget>>

EventRelease(a) ==
  /\ att[a].event = "saved"
  /\ att' = [att EXCEPT ![a].event = "handled"]
  /\ row' = IF row.holder = att[a].at
            THEN [holder |-> Nobody, leased |-> FALSE, restore |-> TRUE] ELSE row
  /\ UNCHANGED <<up, owned, renew, entry, call, budget>>

-----------------------------------------------------------------------------
(* The timer, one per worker: a renewal that finds another holder closes   *)
(* the number; one that fails stops the browser and leaves the row alone.  *)
RenewFire(w) ==
  /\ w \in owned \ renew
  /\ renew' = renew \cup {w}
  /\ UNCHANGED <<row, up, owned, entry, att, call, budget>>

StopOnly(w) == [CloseCall(w, FALSE, FALSE) EXCEPT !.write = FALSE]

RenewRow(w) ==
  /\ w \in renew
  /\ call[w].pc = "idle"
  /\ Overlap \/ Alone(w)
  /\ renew' = renew \ {w}
  /\ IF row.holder = w
     THEN /\ row' = [row EXCEPT !.leased = TRUE]
          /\ UNCHANGED <<call, owned>>
     ELSE /\ owned' = owned \ {w}
          /\ call' = [call EXCEPT ![w] = IF HeldByOther(w) THEN StopOnly(w)
                                         ELSE CloseCall(w, TRUE, FALSE)]
          /\ UNCHANGED row
  /\ UNCHANGED <<up, entry, att, budget>>

RenewFails(w) ==
  /\ w \in renew
  /\ call[w].pc = "idle"
  /\ Overlap \/ Alone(w)
  /\ Spend("fault")
  /\ renew' = renew \ {w}
  /\ owned' = owned \ {w}
  /\ call' = [call EXCEPT ![w] = StopOnly(w)]
  /\ UNCHANGED <<row, up, entry, att>>

(* The lease outlives the renewal interval and the calls its holder has    *)
(* under way; it runs out when neither is left, or when the holder stands  *)
(* still for longer than the lease.                                        *)
Occupied(w) == w \in owned \/ \E c \in CallSlots : call[c].at = w

LeaseExpires ==
  /\ row.leased
  /\ row' = [row EXCEPT !.leased = FALSE]
  /\ IF Occupied(row.holder) THEN Spend("stall") ELSE UNCHANGED budget
  /\ UNCHANGED <<up, owned, renew, entry, att, call>>

Crash(w) ==
  /\ w \in up
  /\ Spend("crash")
  /\ up' = up \ {w}
  /\ owned' = owned \ {w}
  /\ renew' = renew \ {w}
  /\ entry' = [entry EXCEPT ![w] = 0]
  /\ att' = [a \in Attempts |->
               IF att[a].at = w THEN [NoAttempt EXCEPT !.phase = "gone"] ELSE att[a]]
  /\ call' = [c \in CallSlots |-> IF call[c].at = w THEN NoCall ELSE call[c]]
  /\ UNCHANGED row

Restart(w) ==
  /\ w \notin up
  /\ up' = up \cup {w}
  /\ UNCHANGED <<row, owned, renew, entry, att, call, budget>>

-----------------------------------------------------------------------------
CallStep(c) ==
  Kill(c) \/ Forget(c) \/ Release(c) \/ CloseRow(c) \/ StartTx(c) \/ Launch(c)

AttemptStep(a) ==
  Connect(a) \/ FailRelease(a) \/ FailRow(a) \/ ReportEnd(a) \/ EventSave(a) \/ EventRelease(a)

Next ==
  \/ \E c \in CallSlots : CallStep(c)
  \/ \E c \in Calls, w \in Workers : Request(c, w) \/ Recover(c, w) \/ Disconnect(c, w)
  \/ \E a \in Attempts : AttemptStep(a) \/ StartFails(a) \/ Drop(a)
  \/ \E w \in Workers : RenewFire(w) \/ RenewRow(w) \/ RenewFails(w) \/ Crash(w) \/ Restart(w)
  \/ LeaseExpires

Spec == Init /\ [][Next]_vars

-----------------------------------------------------------------------------
(* A number is never open in the browsers of two workers at the same time. *)
SingleBrowser ==
  \A a, b \in Attempts : Browser(a) /\ Browser(b) => att[a].at = att[b].at

(* A worker that runs the number's browser holds the lease, or is about to *)
(* find out that it does not: its timer is set, or the browser is being    *)
(* closed.                                                                 *)
Closing == {"kill", "forget", "release"}

BrowserIsWatched ==
  \A a \in Attempts :
    Browser(a) =>
      \/ att[a].at \in owned \/ ~Current(a)
      \/ \E c \in CallSlots : call[c].at = att[a].at /\ call[c].pc \in Closing

-----------------------------------------------------------------------------
(* Proofs.  LastEndIsDone: while a worker has a browser, nothing is left   *)
(* to be done for its other attempts.  The rest needs that the calls of a  *)
(* worker do not overlap.  LaunchIsLeased: who is about to launch has the  *)
(* lease, and nothing under way gives it up.  BrowserIsLeased: so does who *)
(* has a browser.                                                          *)
Calm(a) == att[a].event \in {"none", "handled"} /\ att[a].failed = "no"

LastEndIsDone ==
  /\ \A a \in Attempts : Browser(a) => att[a].at \in Workers /\ att[a].event = "none"
  /\ \A a, b \in Attempts :
       Browser(b) /\ att[a].at = att[b].at => Calm(a) /\ (Browser(a) => a = b)

IdleIsNobodys ==
  \A c \in CallSlots : call[c].pc = "idle" <=> call[c].at = Nobody

CallsAreAlone ==
  \A c, d \in CallSlots : call[c].at = call[d].at /\ call[c].at # Nobody => c = d

ForgottenIsReleased ==
  \A a \in Attempts :
    Browser(a) /\ ~Current(a) =>
      \E c \in CallSlots : call[c].at = att[a].at /\ call[c].pc = "release"

ClosedIsGone ==
  \A c \in CallSlots, a \in Attempts :
    call[c].pc \in {"row", "tx", "launch"} /\ call[c].at = att[a].at => ~Browser(a)

LaunchIsLeased ==
  \A c \in CallSlots :
    call[c].pc = "launch" =>
      /\ row.holder = call[c].at /\ row.leased
      /\ \A a \in Attempts : att[a].at = call[c].at => Calm(a)

BrowserIsLeased ==
  \A a \in Attempts : Browser(a) => row.holder = att[a].at /\ row.leased

WatchInv == TypeOK /\ IdleIsNobodys /\ LastEndIsDone /\ BrowserIsWatched

AloneInv ==
  WatchInv /\ CallsAreAlone /\ ForgottenIsReleased /\ ClosedIsGone /\ LaunchIsLeased /\ BrowserIsLeased

Sane == Attempts \subseteq Nat \ {0} /\ Nobody \notin Workers

-----------------------------------------------------------------------------
(* Where an action leaves a browser or its end is carried one step on, no  *)
(* attempt begins.                                                         *)
Fading ==
  /\ att' \in [Attempts -> AttemptType]
  /\ \A a \in Attempts :
       /\ att'[a].at = att[a].at
       /\ Browser(a)' => Browser(a) /\ att'[a].event = att[a].event /\ att'[a].failed = att[a].failed
       /\ \/ att'[a].event = att[a].event /\ att'[a].failed = att[a].failed
          \/ Browser(a) /\ ~Browser(a)'
          \/ ~Calm(a)

LEMMA FadingKeeps ==
  ASSUME LastEndIsDone, Fading
  PROVE  LastEndIsDone'
<1>1. \A a \in Attempts : Browser(a)' => att'[a].at \in Workers /\ att'[a].event = "none"
  BY DEF LastEndIsDone, Fading
<1>2. ASSUME NEW a \in Attempts, NEW b \in Attempts, Browser(b)', att'[a].at = att'[b].at
      PROVE  Calm(a)' /\ (Browser(a)' => a = b)
  <2>1. Browser(b) /\ att[a].at = att[b].at
    BY <1>2 DEF Fading
  <2>2. Calm(a) /\ (Browser(a) => a = b)
    BY <2>1 DEF LastEndIsDone
  <2>3. att'[a].event = att[a].event /\ att'[a].failed = att[a].failed
    BY <1>2, <2>2 DEF Fading
  <2> QED BY <1>2, <2>2, <2>3 DEF Fading, Calm
<1> QED BY <1>1, <1>2 DEF LastEndIsDone

LEMMA StillFades ==
  ASSUME TypeOK, UNCHANGED att
  PROVE  Fading
BY DEF TypeOK, Fading, Browser

LEMMA SetsAttempt ==
  ASSUME TypeOK, NEW a \in Attempts, NEW x \in AttemptType, att' = [att EXCEPT ![a] = x]
  PROVE  /\ att' \in [Attempts -> AttemptType] /\ att'[a] = x
         /\ \A b \in Attempts \ {a} : att'[b] = att[b]
BY DEF TypeOK

(* One attempt goes a step on.                                             *)
LEMMA OneFades ==
  ASSUME TypeOK, NEW a \in Attempts, NEW x \in AttemptType, att' = [att EXCEPT ![a] = x],
         x.at = att[a].at,
         x.phase \in {"booting", "live"} =>
           Browser(a) /\ x.event = att[a].event /\ x.failed = att[a].failed,
         \/ x.event = att[a].event /\ x.failed = att[a].failed
         \/ Browser(a) /\ x.phase \notin {"booting", "live"}
         \/ ~Calm(a)
  PROVE  Fading
<1>1. /\ att' \in [Attempts -> AttemptType] /\ att'[a] = x
      /\ \A b \in Attempts \ {a} : att'[b] = att[b]
  BY SetsAttempt
<1> QED BY <1>1 DEF Fading, Browser

LEMMA EndedFacts ==
  ASSUME TypeOK, NEW a \in Attempts
  PROVE  /\ Ended(a) \in AttemptType /\ Ended(a).at = att[a].at
         /\ Ended(a).phase = "gone" /\ Ended(a).event = "due" /\ Ended(a).failed = att[a].failed
<1>1. att[a] \in AttemptType
  BY DEF TypeOK
<1> QED BY <1>1 DEF Ended, AttemptType, Phases, Events

LEMMA ReleasedFacts ==
  ASSUME TypeOK, NEW w, att' = Released(w)
  PROVE  Fading /\ \A a \in Attempts : att[a].at = w => ~Browser(a)'
<1>1. att' = [a \in Attempts |-> IF att[a].at = w /\ Browser(a) THEN Ended(a) ELSE att[a]]
  BY DEF Released
<1>2. \A a \in Attempts : att[a] \in AttemptType
  BY DEF TypeOK
<1>3. att' \in [Attempts -> AttemptType]
  BY <1>1, <1>2, EndedFacts
<1>4. ASSUME NEW a \in Attempts
      PROVE  /\ att'[a].at = att[a].at
             /\ Browser(a)' => Browser(a) /\ att'[a] = att[a] /\ att[a].at # w
             /\ att'[a] = att[a] \/ (Browser(a) /\ ~Browser(a)')
  <2>1. CASE att[a].at = w /\ Browser(a)
    <3>1. att'[a] = Ended(a)
      BY <1>1, <2>1
    <3> QED BY <2>1, <3>1, EndedFacts DEF Browser
  <2>2. CASE ~(att[a].at = w /\ Browser(a))
    <3>1. att'[a] = att[a]
      BY <1>1, <2>2
    <3> QED BY <2>2, <3>1 DEF Browser
  <2> QED BY <2>1, <2>2
<1> QED BY <1>3, <1>4 DEF Fading

-----------------------------------------------------------------------------
(* What the actions do to the calls.                                       *)
LEMMA SetsCall ==
  ASSUME TypeOK, NEW c \in CallSlots, NEW x \in CallType, call' = [call EXCEPT ![c] = x]
  PROVE  /\ call' \in [CallSlots -> CallType] /\ call'[c] = x
         /\ \A d \in CallSlots \ {c} : call'[d] = call[d]
BY DEF TypeOK

LEMMA GoesTo ==
  ASSUME TypeOK, NEW c \in CallSlots, NEW pc \in CallPcs, Goto(c, pc)
  PROVE  /\ call' \in [CallSlots -> CallType]
         /\ call'[c].pc = pc /\ call'[c].at = call[c].at
         /\ \A d \in CallSlots \ {c} : call'[d] = call[d]
<1>1. call[c] \in CallType /\ call' = [call EXCEPT ![c] = [call[c] EXCEPT !.pc = pc]]
  BY DEF TypeOK, Goto
<1>2. [call[c] EXCEPT !.pc = pc] \in CallType
  BY <1>1 DEF CallType
<1> QED BY <1>1, <1>2, SetsCall DEF CallType

LEMMA NoCallFacts ==
  NoCall \in CallType /\ NoCall.at = Nobody /\ NoCall.pc = "idle"
BY DEF NoCall, CallType, CallPcs

(* A close begins: the timer goes, and the call watches the browser.       *)
LEMMA CloseFacts ==
  ASSUME NEW w \in Workers, NEW keep \in BOOLEAN, NEW go \in BOOLEAN
  PROVE  /\ CloseCall(w, keep, go) \in CallType
         /\ CloseCall(w, keep, go).at = w /\ CloseCall(w, keep, go).pc = "kill"
BY DEF CloseCall, CallType, CallPcs

(* A browser stays watched if its timer stays or a close has begun, and if *)
(* a close that ends its work leaves no browser.                           *)
LEMMA FadingStep ==
  ASSUME WatchInv, Fading, TypeOK', IdleIsNobodys',
         \A a \in Attempts : Browser(a)' /\ Current(a)' => Current(a),
         \A a \in Attempts : Browser(a)' /\ att[a].at \in owned =>
           \/ att[a].at \in owned'
           \/ \E c \in CallSlots : call'[c].at = att[a].at /\ call'[c].pc \in Closing,
         \A c \in CallSlots : call[c].pc \in Closing =>
           \/ call'[c].at = call[c].at /\ call'[c].pc \in Closing
           \/ \A a \in Attempts : att[a].at = call[c].at => ~Browser(a)'
  PROVE  WatchInv'
<1> SUFFICES ASSUME NEW a \in Attempts, Browser(a)', Current(a)', att'[a].at \notin owned'
             PROVE  \E c \in CallSlots : call'[c].at = att'[a].at /\ call'[c].pc \in Closing
  BY FadingKeeps DEF WatchInv, BrowserIsWatched
<1>1. Browser(a) /\ Current(a) /\ att'[a].at = att[a].at
  BY DEF Fading
<1>2. CASE att[a].at \in owned
  BY <1>1, <1>2
<1>3. CASE att[a].at \notin owned
  <2>1. PICK c \in CallSlots : call[c].at = att[a].at /\ call[c].pc \in Closing
    BY <1>1, <1>3 DEF WatchInv, BrowserIsWatched
  <2>2. call'[c].at = call[c].at /\ call'[c].pc \in Closing
    BY <1>1, <2>1
  <2> QED BY <1>1, <2>1, <2>2
<1> QED BY <1>2, <1>3

-----------------------------------------------------------------------------
(* WatchInv: the steps of the calls.                                       *)
LEMMA BeginCloseKeeps ==
  ASSUME Sane, WatchInv, NEW c \in CallSlots, NEW w \in Workers, NEW x \in CallType,
         call[c].pc = "idle", call' = [call EXCEPT ![c] = x], x.at = w, x.pc = "kill",
         owned' = owned \ {w}, UNCHANGED <<row, up, entry, att>>,
         renew' \subseteq renew, budget' \in [Limited -> Nat]
  PROVE  WatchInv'
<1>1. TypeOK /\ Fading
  BY StillFades DEF WatchInv
<1>2. /\ call' \in [CallSlots -> CallType] /\ call'[c] = x
      /\ \A d \in CallSlots \ {c} : call'[d] = call[d]
  BY <1>1, SetsCall
<1>3. TypeOK' /\ IdleIsNobodys'
  BY <1>1, <1>2 DEF TypeOK, Sane, WatchInv, IdleIsNobodys
<1>4. \A a \in Attempts : Current(a)' <=> Current(a)
  BY DEF Current
<1>5. \A d \in CallSlots : call[d].pc \in Closing => call'[d] = call[d]
  BY <1>2 DEF Closing
<1>6. \A a \in Attempts :
        att[a].at \in owned => \/ att[a].at \in owned'
                               \/ att[a].at = call'[c].at /\ call'[c].pc \in Closing
  BY <1>2 DEF Closing
<1> QED BY <1>1, <1>3, <1>4, <1>5, <1>6, FadingStep

LEMMA DisconnectKeeps ==
  ASSUME Sane, WatchInv, NEW c \in CallSlots, NEW w \in Workers, Disconnect(c, w)
  PROVE  WatchInv'
<1>1. PICK keep \in BOOLEAN : BeginClose(c, w, keep, FALSE)
  BY DEF Disconnect
<1>2. budget' \in [Limited -> Nat]
  BY DEF WatchInv, TypeOK, Disconnect, Spend, Limited
<1>3. /\ call' = [call EXCEPT ![c] = CloseCall(w, keep, FALSE)] /\ owned' = owned \ {w}
      /\ call[c].pc = "idle" /\ UNCHANGED <<row, up, renew, entry, att>>
  BY <1>1 DEF Disconnect, BeginClose
<1>4. /\ CloseCall(w, keep, FALSE) \in CallType
      /\ CloseCall(w, keep, FALSE).at = w /\ CloseCall(w, keep, FALSE).pc = "kill"
  BY DEF CloseCall, CallType, CallPcs
<1> QED BY <1>2, <1>3, <1>4, BeginCloseKeeps

(* A start either does nothing, or closes first, or comes to its           *)
(* transaction.                                                            *)
LEMMA BeginStartKeeps ==
  ASSUME Sane, WatchInv, NEW c \in CallSlots, NEW w \in Workers, call[c].pc = "idle",
         BeginStart(c, w), UNCHANGED <<row, up, renew, entry, att, budget>>
  PROVE  WatchInv'
<1>1. TypeOK /\ Fading
  BY StillFades DEF WatchInv
<1>2. CASE UNCHANGED <<call, owned>>
  BY <1>2 DEF WatchInv, TypeOK, IdleIsNobodys, LastEndIsDone, BrowserIsWatched, Browser, Current, Calm
<1>3. CASE BeginClose(c, w, TRUE, TRUE)
  <2>1. /\ call' = [call EXCEPT ![c] = CloseCall(w, TRUE, TRUE)] /\ owned' = owned \ {w}
        /\ budget' \in [Limited -> Nat]
    BY <1>1, <1>3 DEF TypeOK, BeginClose
  <2> QED BY <2>1, BeginCloseKeeps, CloseFacts
<1>4. CASE /\ call' = [call EXCEPT ![c] = [NoCall EXCEPT !.at = w, !.pc = "tx", !.go = TRUE]]
           /\ UNCHANGED owned
  <2> DEFINE x == [NoCall EXCEPT !.at = w, !.pc = "tx", !.go = TRUE]
  <2>1. x \in CallType /\ x.at = w /\ x.pc = "tx"
    BY DEF NoCall, CallType, CallPcs
  <2>2. /\ call' \in [CallSlots -> CallType] /\ call'[c] = x
        /\ \A d \in CallSlots \ {c} : call'[d] = call[d]
    BY <1>1, <1>4, <2>1, SetsCall
  <2> HIDE DEF x
  <2>3. TypeOK' /\ IdleIsNobodys'
    BY <1>1, <1>4, <2>1, <2>2 DEF TypeOK, Sane, WatchInv, IdleIsNobodys
  <2>4. \A a \in Attempts : Current(a)' <=> Current(a)
    BY DEF Current
  <2>5. \A d \in CallSlots : call[d].pc \in Closing => call'[d] = call[d]
    BY <2>2 DEF Closing
  <2> QED BY <1>1, <1>4, <2>3, <2>4, <2>5, FadingStep
<1> QED BY <1>2, <1>3, <1>4 DEF BeginStart

LEMMA KillFacts ==
  ASSUME WatchInv, NEW c \in CallSlots, Kill(c)
  PROVE  /\ Fading /\ UNCHANGED <<row, up, owned, renew, entry, budget>>
         /\ call' \in [CallSlots -> CallType] /\ call[c].pc = "kill" /\ call'[c].pc = "forget"
         /\ call'[c].at = call[c].at /\ \A d \in CallSlots \ {c} : call'[d] = call[d]
<1> DEFINE e == entry[call[c].at]
<1>1. TypeOK
  BY DEF WatchInv
<1>2. /\ call' \in [CallSlots -> CallType] /\ call[c].pc = "kill" /\ call'[c].pc = "forget"
      /\ call'[c].at = call[c].at /\ \A d \in CallSlots \ {c} : call'[d] = call[d]
  BY <1>1, GoesTo DEF Kill, CallPcs
<1>3. e \in Attempts \cup {0}
  BY <1>1, <1>2 DEF TypeOK, CallType, WatchInv, IdleIsNobodys
<1>4. CASE e \in Attempts /\ att[e].phase = "live"
  <2>1. att' = [att EXCEPT ![e] = Ended(e)] \/ att' = att
    BY DEF Kill
  <2>2. Browser(e)
    BY <1>4 DEF Browser
  <2>3. Fading
    BY <1>1, <1>4, <2>1, <2>2, OneFades, EndedFacts, StillFades
  <2> QED BY <1>2, <2>3 DEF Kill
<1>5. CASE ~(e \in Attempts /\ att[e].phase = "live")
  <2>1. Fading
    BY <1>1, <1>3, <1>5, StillFades DEF Kill
  <2> QED BY <1>2, <2>1 DEF Kill
<1> QED BY <1>4, <1>5

LEMMA KillKeeps ==
  ASSUME Sane, WatchInv, NEW c \in CallSlots, Kill(c)
  PROVE  WatchInv'
<1>1. TypeOK' /\ IdleIsNobodys'
  BY KillFacts DEF TypeOK, Fading, WatchInv, IdleIsNobodys
<1>2. \A a \in Attempts : Current(a)' <=> Current(a)
  BY KillFacts DEF Current, Fading
<1>3. \A d \in CallSlots : call[d].pc \in Closing => call'[d].at = call[d].at /\ call'[d].pc \in Closing
  BY KillFacts DEF Closing
<1> QED BY <1>1, <1>2, <1>3, KillFacts, FadingStep

LEMMA ForgetFacts ==
  ASSUME WatchInv, NEW c \in CallSlots, Forget(c)
  PROVE  /\ Fading /\ UNCHANGED <<row, up, owned, renew, att, budget>>
         /\ call' \in [CallSlots -> CallType] /\ call[c].pc = "forget" /\ call'[c].pc = "release"
         /\ call'[c].at = call[c].at /\ \A d \in CallSlots \ {c} : call'[d] = call[d]
<1>1. TypeOK /\ Fading
  BY StillFades DEF WatchInv, Forget
<1> QED BY <1>1, GoesTo DEF Forget, CallPcs

LEMMA ForgetKeeps ==
  ASSUME Sane, WatchInv, NEW c \in CallSlots, Forget(c)
  PROVE  WatchInv'
<1>1. TypeOK' /\ IdleIsNobodys'
  BY ForgetFacts DEF Forget, TypeOK, WatchInv, IdleIsNobodys
<1>2. \A a \in Attempts : Browser(a)' /\ Current(a)' => Current(a)
  <2> SUFFICES ASSUME NEW a \in Attempts, Browser(a)', Current(a)'
               PROVE  Current(a)
    OBVIOUS
  <2>1. att[a].at \in Workers /\ a # 0 /\ att' = att
    BY DEF Forget, WatchInv, LastEndIsDone, Browser, Sane
  <2> QED BY <2>1 DEF Forget, Current, WatchInv, TypeOK
<1>3. \A d \in CallSlots : call[d].pc \in Closing => call'[d].at = call[d].at /\ call'[d].pc \in Closing
  BY ForgetFacts DEF Closing
<1> QED BY <1>1, <1>2, <1>3, ForgetFacts, FadingStep

LEMMA ReleaseFacts ==
  ASSUME WatchInv, NEW c \in CallSlots, Release(c)
  PROVE  /\ Fading /\ UNCHANGED <<row, up, owned, renew, entry, budget>>
         /\ \A a \in Attempts : att[a].at = call[c].at => ~Browser(a)'
         /\ call' \in [CallSlots -> CallType] /\ call[c].pc = "release"
         /\ \/ call'[c].pc = "row" /\ call'[c].at = call[c].at
            \/ call'[c].pc = "idle" /\ call'[c].at = Nobody
         /\ \A d \in CallSlots \ {c} : call'[d] = call[d]
<1> DEFINE x == IF call[c].write THEN [call[c] EXCEPT !.pc = "row"] ELSE NoCall
<1>1. TypeOK /\ call[c] \in CallType /\ call[c].pc = "release"
  BY DEF WatchInv, TypeOK, Release
<1>2. Fading /\ \A a \in Attempts : att[a].at = call[c].at => ~Browser(a)'
  BY <1>1, ReleasedFacts DEF Release
<1>3. /\ x \in CallType
      /\ \/ x.pc = "row" /\ x.at = call[c].at
         \/ x.pc = "idle" /\ x.at = Nobody
  BY <1>1, NoCallFacts DEF CallType, CallPcs
<1>4. /\ call' \in [CallSlots -> CallType] /\ call'[c] = x
      /\ \A d \in CallSlots \ {c} : call'[d] = call[d]
  BY <1>1, <1>3, SetsCall DEF Release
<1> HIDE DEF x
<1> QED BY <1>1, <1>2, <1>3, <1>4 DEF Release

LEMMA ReleaseKeeps ==
  ASSUME Sane, WatchInv, NEW c \in CallSlots, Release(c)
  PROVE  WatchInv'
<1>1. TypeOK' /\ IdleIsNobodys'
  BY ReleaseFacts DEF TypeOK, Fading, WatchInv, IdleIsNobodys
<1>2. \A a \in Attempts : Current(a)' => Current(a)
  BY ReleaseFacts DEF Current, Fading
<1>3. \A d \in CallSlots \ {c} : call[d].pc \in Closing =>
        call'[d].at = call[d].at /\ call'[d].pc \in Closing
  BY ReleaseFacts
<1> QED BY <1>1, <1>2, <1>3, ReleaseFacts, FadingStep

LEMMA CloseRowFacts ==
  ASSUME WatchInv, NEW c \in CallSlots, CloseRow(c)
  PROVE  /\ Fading /\ UNCHANGED <<up, owned, renew, entry, att, budget>>
         /\ call' \in [CallSlots -> CallType] /\ call[c].pc = "row"
         /\ \/ call'[c].pc = "tx" /\ call'[c].at = call[c].at
            \/ call'[c].pc = "idle" /\ call'[c].at = Nobody
         /\ \A d \in CallSlots \ {c} : call'[d] = call[d]
<1> DEFINE x == IF call[c].go THEN [call[c] EXCEPT !.pc = "tx"] ELSE NoCall
<1>1. TypeOK /\ Fading /\ call[c] \in CallType /\ call[c].pc = "row"
  BY StillFades DEF WatchInv, TypeOK, CloseRow
<1>2. /\ x \in CallType
      /\ \/ x.pc = "tx" /\ x.at = call[c].at
         \/ x.pc = "idle" /\ x.at = Nobody
  BY <1>1, NoCallFacts DEF CallType, CallPcs
<1>3. /\ call' \in [CallSlots -> CallType] /\ call'[c] = x
      /\ \A d \in CallSlots \ {c} : call'[d] = call[d]
  BY <1>1, <1>2, SetsCall DEF CloseRow
<1> HIDE DEF x
<1> QED BY <1>1, <1>2, <1>3 DEF CloseRow

LEMMA CloseRowKeeps ==
  ASSUME Sane, WatchInv, NEW c \in CallSlots, CloseRow(c)
  PROVE  WatchInv'
<1>1. row' \in [holder : Workers \cup {Nobody}, leased : BOOLEAN, restore : BOOLEAN]
  BY DEF CloseRow, WatchInv, TypeOK, CallType
<1>2. TypeOK' /\ IdleIsNobodys'
  BY <1>1, CloseRowFacts DEF TypeOK, WatchInv, IdleIsNobodys
<1>3. \A d \in CallSlots : call[d].pc \in Closing => call'[d] = call[d]
  BY CloseRowFacts DEF Closing
<1> QED BY <1>2, <1>3, CloseRowFacts, FadingStep DEF Current

LEMMA StartTxFacts ==
  ASSUME WatchInv, NEW c \in CallSlots, StartTx(c)
  PROVE  /\ Fading /\ UNCHANGED <<up, owned, renew, entry, att, budget>>
         /\ call' \in [CallSlots -> CallType] /\ call[c].pc = "tx" /\ call[c].at \in Workers
         /\ \/ call'[c].pc = "launch" /\ call'[c].at = call[c].at /\ ~Refused(call[c].at)
               /\ row'.holder = call[c].at /\ row'.leased
            \/ call'[c].pc = "idle" /\ call'[c].at = Nobody /\ row' = row
         /\ \A d \in CallSlots \ {c} : call'[d] = call[d]
<1>1. TypeOK /\ Fading /\ call[c] \in CallType /\ call[c].pc = "tx" /\ call[c].at \in Workers
  BY StillFades DEF WatchInv, TypeOK, StartTx, CallType, IdleIsNobodys
<1>2. CASE Refused(call[c].at)
  BY <1>1, <1>2, SetsCall, NoCallFacts DEF StartTx
<1>3. CASE ~Refused(call[c].at)
  <2>1. Goto(c, "launch") /\ row' = [row EXCEPT !.holder = call[c].at, !.leased = TRUE]
    BY <1>3 DEF StartTx
  <2>2. row'.holder = call[c].at /\ row'.leased
    BY <1>1, <2>1 DEF TypeOK
  <2> QED BY <1>1, <1>3, <2>1, <2>2, GoesTo DEF CallPcs, StartTx
<1> QED BY <1>2, <1>3

LEMMA StartTxKeeps ==
  ASSUME Sane, WatchInv, NEW c \in CallSlots, StartTx(c)
  PROVE  WatchInv'
<1>1. row' \in [holder : Workers \cup {Nobody}, leased : BOOLEAN, restore : BOOLEAN]
  BY StartTxFacts DEF StartTx, WatchInv, TypeOK
<1>2. TypeOK' /\ IdleIsNobodys'
  BY <1>1, StartTxFacts DEF TypeOK, WatchInv, IdleIsNobodys
<1>3. \A d \in CallSlots : call[d].pc \in Closing => call'[d] = call[d]
  BY StartTxFacts DEF Closing
<1> QED BY <1>2, <1>3, StartTxFacts, FadingStep DEF Current

(* Before a launch the last browser of the worker has ended.               *)
LEMMA LaunchIsFirst ==
  ASSUME Sane, WatchInv, NEW w \in Workers, Settled(w), ~(w \in owned \/ EntryIsUp(w))
  PROVE  /\ \A a \in Attempts : att[a].at = w => Calm(a) /\ ~Browser(a)
         /\ Released(w) = att
<1>1. ASSUME NEW a \in Attempts, att[a].at = w
      PROVE  Calm(a) /\ ~Browser(a)
  <2>1. Calm(a) /\ (Browser(a) => Current(a))
    BY <1>1 DEF Settled, Calm
  <2>2. Browser(a) => att[entry[w]].event = "none" /\ entry[w] = a
    BY <1>1, <2>1 DEF WatchInv, LastEndIsDone, Current
  <2>3. a # 0
    BY DEF Sane
  <2> QED BY <2>1, <2>2, <2>3 DEF EntryIsUp
<1>2. Released(w) = att
  BY <1>1 DEF Released, WatchInv, TypeOK
<1> QED BY <1>1, <1>2

(* The call is over; a browser may have been launched for its worker.      *)
Launched(w, a) ==
  /\ att[a].phase = "none"
  /\ entry' = [entry EXCEPT ![w] = a]
  /\ att' = [att EXCEPT ![a] = [NoAttempt EXCEPT !.at = w, !.phase = "booting"]]

LEMMA LaunchCases ==
  ASSUME Sane, WatchInv, ~LateEvents, NEW c \in CallSlots, Launch(c)
  PROVE  /\ call[c].at \in Workers /\ call[c].pc = "launch"
         /\ owned' = owned \cup {call[c].at} /\ UNCHANGED <<row, up, renew, budget>>
         /\ call' \in [CallSlots -> CallType] /\ call'[c] = NoCall
         /\ \A d \in CallSlots \ {c} : call'[d] = call[d]
         /\ \/ UNCHANGED <<entry, att>>
            \/ /\ \A a \in Attempts : att[a].at = call[c].at => Calm(a) /\ ~Browser(a)
               /\ \E a \in Attempts : Launched(call[c].at, a)
<1>1. TypeOK /\ call[c].at \in Workers /\ call[c].pc = "launch"
  BY DEF WatchInv, TypeOK, Launch, CallType, IdleIsNobodys
<1>2. /\ call' \in [CallSlots -> CallType] /\ call'[c] = NoCall
      /\ \A d \in CallSlots \ {c} : call'[d] = call[d]
  BY <1>1, SetsCall, NoCallFacts DEF Launch
<1>3. CASE call[c].at \in owned \/ EntryIsUp(call[c].at)
  BY <1>1, <1>2, <1>3 DEF Launch
<1>4. CASE ~(call[c].at \in owned \/ EntryIsUp(call[c].at))
  <2>1. /\ \A a \in Attempts : att[a].at = call[c].at => Calm(a) /\ ~Browser(a)
        /\ Released(call[c].at) = att
    BY <1>1, <1>4, LaunchIsFirst DEF Launch
  <2> QED BY <1>1, <1>2, <1>4, <2>1 DEF Launch, Launched
<1> QED BY <1>3, <1>4

LEMMA LaunchedFacts ==
  ASSUME TypeOK, NEW w \in Workers, NEW a \in Attempts, Launched(w, a)
  PROVE  /\ att' \in [Attempts -> AttemptType]
         /\ att'[a].at = w /\ Browser(a)' /\ Calm(a)' /\ att'[a].event = "none"
         /\ \A b \in Attempts \ {a} : att'[b] = att[b]
         /\ entry' \in [Workers -> Attempts \cup {0}] /\ entry'[w] = a
         /\ \A v \in Workers \ {w} : entry'[v] = entry[v]
<1> DEFINE x == [NoAttempt EXCEPT !.at = w, !.phase = "booting"]
<1>1. x \in AttemptType /\ x.at = w /\ x.phase = "booting" /\ x.event = "none" /\ x.failed = "no"
  BY DEF NoAttempt, AttemptType, Phases, Events
<1>2. att' = [att EXCEPT ![a] = x]
  BY DEF Launched
<1> HIDE DEF x
<1>3. /\ att' \in [Attempts -> AttemptType] /\ att'[a] = x
      /\ \A b \in Attempts \ {a} : att'[b] = att[b]
  BY <1>1, <1>2, SetsAttempt
<1>4. /\ entry' \in [Workers -> Attempts \cup {0}] /\ entry'[w] = a
      /\ \A v \in Workers \ {w} : entry'[v] = entry[v]
  BY DEF Launched, TypeOK
<1> QED BY <1>1, <1>3, <1>4 DEF Browser, Calm

LEMMA LaunchKeeps ==
  ASSUME Sane, WatchInv, ~LateEvents, NEW c \in CallSlots, Launch(c)
  PROVE  WatchInv'
<1> DEFINE w == call[c].at
<1>1. TypeOK /\ w \in Workers /\ call[c].pc = "launch" /\ owned' = owned \cup {w}
      /\ call' \in [CallSlots -> CallType] /\ call'[c] = NoCall
      /\ (\A d \in CallSlots \ {c} : call'[d] = call[d]) /\ UNCHANGED <<row, up, renew, budget>>
  BY LaunchCases DEF WatchInv
<1>2. IdleIsNobodys'
  BY <1>1, NoCallFacts DEF WatchInv, IdleIsNobodys
<1>3. \A d \in CallSlots : call[d].pc \in Closing => call'[d] = call[d]
  BY <1>1 DEF Closing
<1>4. CASE UNCHANGED <<entry, att>>
  <2>1. Fading /\ TypeOK'
    BY <1>1, <1>4, StillFades DEF TypeOK
  <2> QED BY <1>1, <1>2, <1>3, <1>4, <2>1, FadingStep DEF Current
<1>5. ASSUME \A a \in Attempts : att[a].at = w => Calm(a) /\ ~Browser(a),
             NEW a \in Attempts, Launched(w, a)
      PROVE  WatchInv'
  <2>1. /\ att' \in [Attempts -> AttemptType]
        /\ att'[a].at = w /\ Browser(a)' /\ Calm(a)' /\ att'[a].event = "none"
        /\ \A b \in Attempts \ {a} : att'[b] = att[b]
        /\ entry' \in [Workers -> Attempts \cup {0}] /\ entry'[w] = a
        /\ \A v \in Workers \ {w} : entry'[v] = entry[v]
    BY <1>1, <1>5, LaunchedFacts
  <2>2. TypeOK'
    BY <1>1, <2>1 DEF TypeOK
  <2>3. \A b \in Attempts \ {a} :
          /\ Browser(b)' <=> Browser(b)
          /\ Calm(b)' <=> Calm(b)
    BY <2>1 DEF Browser, Calm
  <2>4. LastEndIsDone'
    BY <1>1, <1>5, <2>1, <2>3 DEF WatchInv, LastEndIsDone
  <2>5. BrowserIsWatched'
    <3> SUFFICES ASSUME NEW b \in Attempts, Browser(b)', Current(b)', att'[b].at \notin owned'
                 PROVE  \E d \in CallSlots : call'[d].at = att'[b].at /\ call'[d].pc \in Closing
      BY DEF BrowserIsWatched
    <3>1. b # a /\ att'[b] = att[b] /\ Browser(b) /\ att[b].at \notin owned
      BY <1>1, <2>1, <2>3
    <3>2. att[b].at \in Workers \ {w}
      BY <1>5, <3>1 DEF WatchInv, LastEndIsDone
    <3>3. Current(b)
      BY <2>1, <3>1, <3>2 DEF Current
    <3> QED BY <1>3, <3>1, <3>3 DEF WatchInv, BrowserIsWatched
  <2> QED BY <1>2, <2>2, <2>4, <2>5 DEF WatchInv
<1> QED BY <1>4, <1>5, LaunchCases

-----------------------------------------------------------------------------
(* WatchInv: the steps of the attempts.                                    *)
RowType == [holder : Workers \cup {Nobody}, leased : BOOLEAN, restore : BOOLEAN]

(* A step of an attempt that leaves timers, entries and calls alone.       *)
LEMMA AttemptStepKeeps ==
  ASSUME Sane, WatchInv, Fading, row' \in RowType, budget' \in [Limited -> Nat],
         UNCHANGED <<up, owned, renew, entry, call>>
  PROVE  WatchInv'
<1>1. TypeOK' /\ IdleIsNobodys'
  BY DEF WatchInv, TypeOK, IdleIsNobodys, Fading, RowType
<1>2. \A a \in Attempts : Current(a)' => Current(a)
  BY DEF Current, Fading
<1> QED BY <1>1, <1>2, FadingStep

LEMMA ConnectFades ==
  ASSUME TypeOK, NEW a \in Attempts, Connect(a)
  PROVE  Fading
<1> DEFINE x == [att[a] EXCEPT !.phase = "live"]
<1>1. att[a] \in AttemptType /\ Browser(a)
  BY DEF TypeOK, Connect, Browser
<1>2. x \in AttemptType /\ x.at = att[a].at /\ x.event = att[a].event /\ x.failed = att[a].failed
  BY <1>1 DEF AttemptType, Phases
<1>3. att' = [att EXCEPT ![a] = x] \/ att' = [att EXCEPT ![a] = Ended(a)]
  BY DEF Connect
<1> HIDE DEF x
<1> QED BY <1>1, <1>2, <1>3, OneFades, EndedFacts

LEMMA ConnectKeeps ==
  ASSUME Sane, WatchInv, NEW a \in Attempts, Connect(a)
  PROVE  WatchInv'
<1>1. row' \in RowType
  BY DEF Connect, WatchInv, TypeOK, RowType
<1> QED BY <1>1, ConnectFades, AttemptStepKeeps DEF Connect, WatchInv, TypeOK

LEMMA StartFailsFades ==
  ASSUME TypeOK, NEW a \in Attempts, StartFails(a)
  PROVE  Fading /\ ~Browser(a)' /\ Browser(a)
<1> DEFINE x == [att[a] EXCEPT !.phase = "gone", !.failed = "release"]
           y == [att[a] EXCEPT !.phase = "gone"]
<1>1. att[a] \in AttemptType /\ Browser(a)
  BY DEF TypeOK, StartFails, Browser
<1>2. /\ x \in AttemptType /\ x.at = att[a].at /\ x.phase = "gone"
      /\ y \in AttemptType /\ y.at = att[a].at /\ y.phase = "gone"
  BY <1>1 DEF AttemptType, Phases
<1>3. att' = [att EXCEPT ![a] = x] \/ att' = [att EXCEPT ![a] = y]
  BY <1>1 DEF StartFails, AttemptType, TypeOK
<1> HIDE DEF x, y
<1>4. att'[a] \in {x, y}
  BY <1>3 DEF TypeOK
<1> QED BY <1>1, <1>2, <1>3, <1>4, OneFades DEF Browser

LEMMA StartFailsKeeps ==
  ASSUME Sane, WatchInv, NEW a \in Attempts, StartFails(a)
  PROVE  WatchInv'
<1>1. TypeOK /\ Fading /\ ~Browser(a)' /\ Browser(a) /\ att[a].at \in Workers
  BY StartFailsFades DEF WatchInv, LastEndIsDone
<1>2. \/ owned' = owned \ {att[a].at} /\ entry' = [entry EXCEPT ![att[a].at] = 0]
      \/ UNCHANGED <<owned, entry>>
  BY DEF StartFails
<1>3. TypeOK' /\ IdleIsNobodys'
  BY <1>1, <1>2 DEF StartFails, Spend, Limited, TypeOK, Fading, WatchInv, IdleIsNobodys
<1>4. \A b \in Attempts : Browser(b)' => att[b].at # att[a].at
  BY <1>1 DEF Fading, WatchInv, LastEndIsDone
<1>5. \A b \in Attempts : Browser(b)' /\ Current(b)' => Current(b)
  BY <1>1, <1>2, <1>4 DEF Current, Fading, TypeOK, WatchInv, LastEndIsDone
<1>6. \A b \in Attempts : Browser(b)' /\ att[b].at \in owned => att[b].at \in owned'
  BY <1>2, <1>4
<1> QED BY <1>1, <1>3, <1>5, <1>6, FadingStep DEF StartFails

LEMMA FailReleaseFades ==
  ASSUME WatchInv, NEW a \in Attempts, FailRelease(a)
  PROVE  Fading
<1> DEFINE x == [att[a] EXCEPT !.failed = "row"]
<1>1. TypeOK /\ att[a] \in AttemptType /\ ~Calm(a)
  BY DEF WatchInv, TypeOK, FailRelease, Calm
<1>2. \A b \in Attempts : att[b].at = att[a].at => ~Browser(b)
  BY <1>1 DEF WatchInv, LastEndIsDone
<1>3. Released(att[a].at) = att
  BY <1>1, <1>2 DEF Released, TypeOK
<1>4. x \in AttemptType /\ x.at = att[a].at /\ x.phase = att[a].phase
  BY <1>1 DEF AttemptType
<1>5. att' = [att EXCEPT ![a] = x]
  BY <1>3 DEF FailRelease
<1> HIDE DEF x
<1> QED BY <1>1, <1>2, <1>4, <1>5, OneFades DEF Browser

LEMMA FailReleaseKeeps ==
  ASSUME Sane, WatchInv, NEW a \in Attempts, FailRelease(a)
  PROVE  WatchInv'
BY FailReleaseFades, AttemptStepKeeps DEF FailRelease, WatchInv, TypeOK, RowType

LEMMA FailRowFades ==
  ASSUME WatchInv, NEW a \in Attempts, FailRow(a)
  PROVE  Fading /\ ~Calm(a)
<1> DEFINE x == [att[a] EXCEPT !.failed = "no"]
<1>1. TypeOK /\ att[a] \in AttemptType /\ ~Calm(a) /\ ~Browser(a)
  BY DEF WatchInv, TypeOK, FailRow, Calm, LastEndIsDone
<1>2. x \in AttemptType /\ x.at = att[a].at /\ x.phase = att[a].phase
  BY <1>1 DEF AttemptType
<1>3. att' = [att EXCEPT ![a] = x]
  BY DEF FailRow
<1> HIDE DEF x
<1> QED BY <1>1, <1>2, <1>3, OneFades DEF Browser

LEMMA FailRowKeeps ==
  ASSUME Sane, WatchInv, NEW a \in Attempts, FailRow(a)
  PROVE  WatchInv'
<1>1. row' \in RowType
  BY DEF FailRow, WatchInv, TypeOK, RowType
<1> QED BY <1>1, FailRowFades, AttemptStepKeeps DEF FailRow, WatchInv, TypeOK

LEMMA DropFades ==
  ASSUME WatchInv, NEW a \in Attempts, Drop(a)
  PROVE  Fading
<1> DEFINE x == [att[a] EXCEPT !.phase = "gone", !.event = "raised"]
<1>1. TypeOK /\ att[a] \in AttemptType /\ Browser(a)
  BY DEF WatchInv, TypeOK, Drop
<1>2. x \in AttemptType /\ x.at = att[a].at /\ x.phase = "gone"
  BY <1>1 DEF AttemptType, Phases, Events
<1>3. att' = [att EXCEPT ![a] = x]
  BY DEF Drop
<1> HIDE DEF x
<1> QED BY <1>1, <1>2, <1>3, OneFades

LEMMA DropKeeps ==
  ASSUME Sane, WatchInv, NEW a \in Attempts, Drop(a)
  PROVE  WatchInv'
<1>1. budget' \in [Limited -> Nat]
  BY DEF Drop, Spend, Limited, WatchInv, TypeOK
<1> QED BY <1>1, DropFades, AttemptStepKeeps DEF Drop, WatchInv, TypeOK, RowType

(* The end of a browser is reported, saved, and gives the lease up.        *)
LEMMA EventFades ==
  ASSUME WatchInv, NEW a \in Attempts, NEW event \in Events, att[a].event \notin {"none", "handled"},
         att' = [att EXCEPT ![a].event = event]
  PROVE  Fading
<1> DEFINE x == [att[a] EXCEPT !.event = event]
<1>1. TypeOK /\ att[a] \in AttemptType /\ ~Calm(a) /\ ~Browser(a)
  BY DEF WatchInv, TypeOK, Calm, LastEndIsDone
<1>2. x \in AttemptType /\ x.at = att[a].at /\ x.phase = att[a].phase
  BY <1>1 DEF AttemptType
<1>3. att' = [att EXCEPT ![a] = x]
  OBVIOUS
<1> HIDE DEF x
<1> QED BY <1>1, <1>2, <1>3, OneFades DEF Browser

LEMMA ReportEndKeeps ==
  ASSUME Sane, WatchInv, NEW a \in Attempts, ReportEnd(a)
  PROVE  WatchInv'
<1>1. PICK event \in {"raised", "none"} : att' = [att EXCEPT ![a].event = event]
  BY DEF ReportEnd
<1>2. Fading
  BY <1>1, EventFades DEF ReportEnd, Events
<1> QED BY <1>2, AttemptStepKeeps DEF ReportEnd, WatchInv, TypeOK, RowType

LEMMA EventSaveKeeps ==
  ASSUME Sane, WatchInv, NEW a \in Attempts, EventSave(a)
  PROVE  WatchInv'
<1>1. TypeOK /\ Fading
  BY EventFades DEF WatchInv, EventSave, Events
<1>2. TypeOK' /\ IdleIsNobodys'
  BY <1>1 DEF EventSave, TypeOK, Fading, WatchInv, IdleIsNobodys
<1>3. \A b \in Attempts : Browser(b)' => att[b].at # att[a].at
  BY <1>1 DEF EventSave, Fading, WatchInv, LastEndIsDone, Calm
<1>4. \A b \in Attempts : Current(b)' => Current(b)
  BY <1>1 DEF Current, Fading, EventSave
<1> QED BY <1>1, <1>2, <1>3, <1>4, FadingStep DEF EventSave

LEMMA EventReleaseKeeps ==
  ASSUME Sane, WatchInv, NEW a \in Attempts, EventRelease(a)
  PROVE  WatchInv'
<1>1. Fading
  BY EventFades DEF EventRelease, Events
<1>2. row' \in RowType
  BY DEF EventRelease, WatchInv, TypeOK, RowType
<1> QED BY <1>1, <1>2, AttemptStepKeeps DEF EventRelease, WatchInv, TypeOK

-----------------------------------------------------------------------------
(* WatchInv: timers, leases and processes.                                 *)

(* Nothing about browsers and calls changes.                               *)
LEMMA AsideKeeps ==
  ASSUME WatchInv, TypeOK', UNCHANGED <<owned, entry, att, call>>
  PROVE  WatchInv'
<1>1. Fading
  BY StillFades DEF WatchInv
<1> QED BY <1>1, FadingStep DEF Current, WatchInv, IdleIsNobodys

LEMMA RenewRowKeeps ==
  ASSUME Sane, WatchInv, NEW w \in Workers, RenewRow(w)
  PROVE  WatchInv'
<1>1. CASE row.holder = w
  <2>1. TypeOK'
    BY <1>1 DEF RenewRow, WatchInv, TypeOK
  <2> QED BY <1>1, <2>1, AsideKeeps DEF RenewRow
<1>2. CASE row.holder # w
  <2>1. StopOnly(w) \in CallType /\ StopOnly(w).at = w /\ StopOnly(w).pc = "kill"
    BY DEF StopOnly, CloseCall, CallType, CallPcs
  <2>2. PICK x \in {StopOnly(w), CloseCall(w, TRUE, FALSE)} : call' = [call EXCEPT ![w] = x]
    BY <1>2 DEF RenewRow
  <2>3. /\ CloseCall(w, TRUE, FALSE) \in CallType
        /\ CloseCall(w, TRUE, FALSE).at = w /\ CloseCall(w, TRUE, FALSE).pc = "kill"
    BY DEF CloseCall, CallType, CallPcs
  <2>4. x \in CallType /\ x.at = w /\ x.pc = "kill" /\ w \in CallSlots
    BY <2>1, <2>3 DEF CallSlots
  <2>5. /\ call[w].pc = "idle" /\ owned' = owned \ {w} /\ renew' \subseteq renew
        /\ UNCHANGED <<row, up, entry, att>> /\ budget' \in [Limited -> Nat]
    BY <1>2 DEF RenewRow, WatchInv, TypeOK
  <2> QED BY <2>2, <2>4, <2>5, BeginCloseKeeps
<1> QED BY <1>1, <1>2

LEMMA RenewFailsKeeps ==
  ASSUME Sane, WatchInv, NEW w \in Workers, RenewFails(w)
  PROVE  WatchInv'
<1>1. StopOnly(w) \in CallType /\ StopOnly(w).at = w /\ StopOnly(w).pc = "kill" /\ w \in CallSlots
  BY DEF StopOnly, CloseCall, CallType, CallPcs, CallSlots
<1>2. /\ call[w].pc = "idle" /\ owned' = owned \ {w} /\ renew' \subseteq renew
      /\ UNCHANGED <<row, up, entry, att>> /\ budget' \in [Limited -> Nat]
      /\ call' = [call EXCEPT ![w] = StopOnly(w)]
  BY DEF RenewFails, WatchInv, TypeOK, Spend, Limited
<1> QED BY <1>1, <1>2, BeginCloseKeeps

LEMMA CrashFacts ==
  ASSUME Sane, TypeOK, NEW w \in Workers, Crash(w)
  PROVE  /\ att' \in [Attempts -> AttemptType] /\ call' \in [CallSlots -> CallType]
         /\ \A a \in Attempts :
              IF att[a].at = w THEN att'[a].at = Nobody /\ ~Browser(a)' /\ Calm(a)'
              ELSE att'[a] = att[a]
         /\ \A c \in CallSlots :
              IF call[c].at = w THEN call'[c] = NoCall ELSE call'[c] = call[c]
<1> DEFINE gone == [NoAttempt EXCEPT !.phase = "gone"]
<1>1. gone \in AttemptType /\ gone.at = Nobody /\ gone.phase = "gone" /\ gone.event = "none" /\ gone.failed = "no"
  BY DEF NoAttempt, AttemptType, Phases, Events
<1>2. att' = [a \in Attempts |-> IF att[a].at = w THEN gone ELSE att[a]]
  BY DEF Crash
<1> HIDE DEF gone
<1>3. \A a \in Attempts : att'[a] = IF att[a].at = w THEN gone ELSE att[a]
  BY <1>2
<1>4. att' \in [Attempts -> AttemptType]
  BY <1>1, <1>2 DEF TypeOK
<1>5. call' \in [CallSlots -> CallType]
  BY NoCallFacts DEF TypeOK, Crash
<1> QED BY <1>1, <1>3, <1>4, <1>5 DEF Crash, Browser, Calm

LEMMA CrashKeeps ==
  ASSUME Sane, WatchInv, NEW w \in Workers, Crash(w)
  PROVE  WatchInv'
<1>1. /\ TypeOK /\ att' \in [Attempts -> AttemptType] /\ call' \in [CallSlots -> CallType]
      /\ \A a \in Attempts :
           IF att[a].at = w THEN att'[a].at = Nobody /\ ~Browser(a)' /\ Calm(a)'
           ELSE att'[a] = att[a]
      /\ \A c \in CallSlots :
           IF call[c].at = w THEN call'[c] = NoCall ELSE call'[c] = call[c]
  BY CrashFacts DEF WatchInv
<1>2. TypeOK'
  BY <1>1 DEF Crash, TypeOK, Spend, Limited
<1>3. IdleIsNobodys'
  BY <1>1, NoCallFacts DEF WatchInv, IdleIsNobodys
<1>4. \A a \in Attempts : Browser(a)' =>
        /\ Browser(a) /\ att'[a] = att[a] /\ att[a].at \in Workers \ {w} /\ att[a].at # Nobody
        /\ Current(a)' <=> Current(a)
  BY <1>1, <1>2 DEF Browser, WatchInv, LastEndIsDone, Current, Crash, TypeOK, Sane
<1>5. LastEndIsDone'
  <2>1. ASSUME NEW a \in Attempts, NEW b \in Attempts, Browser(b)', att'[a].at = att'[b].at
        PROVE  Calm(a)' /\ (Browser(a)' => a = b)
    <3>1. att'[a] = att[a] /\ att[a].at = att[b].at
      BY <1>1, <1>4, <2>1
    <3> QED BY <1>4, <2>1, <3>1 DEF WatchInv, LastEndIsDone, Calm
  <2> QED BY <1>4, <2>1 DEF WatchInv, LastEndIsDone
<1>6. BrowserIsWatched'
  <2> SUFFICES ASSUME NEW a \in Attempts, Browser(a)', Current(a)', att'[a].at \notin owned'
               PROVE  \E c \in CallSlots : call'[c].at = att'[a].at /\ call'[c].pc \in Closing
    BY DEF BrowserIsWatched
  <2>1. att[a].at \notin owned
    BY <1>4 DEF Crash
  <2>2. PICK c \in CallSlots : call[c].at = att[a].at /\ call[c].pc \in Closing
    BY <1>4, <2>1 DEF WatchInv, BrowserIsWatched
  <2> QED BY <1>1, <1>4, <2>2
<1> QED BY <1>2, <1>3, <1>5, <1>6 DEF WatchInv

LEMMA InitWatched ==
  ASSUME Sane, Init
  PROVE  WatchInv
<1>1. NoAttempt \in AttemptType /\ NoAttempt.phase = "none" /\ NoCall \in CallType
  BY NoCallFacts DEF NoAttempt, AttemptType, Phases, Events
<1>2. TypeOK
  BY <1>1 DEF Init, TypeOK
<1>3. \A a \in Attempts : ~Browser(a)
  BY <1>1 DEF Init, Browser
<1>4. IdleIsNobodys
  BY NoCallFacts DEF Init, IdleIsNobodys
<1> QED BY <1>2, <1>3, <1>4 DEF WatchInv, LastEndIsDone, BrowserIsWatched

LEMMA NextWatched ==
  ASSUME Sane, ~LateEvents, WatchInv, [Next]_vars
  PROVE  WatchInv'
<1>1. ASSUME NEW c \in CallSlots, CallStep(c)
      PROVE  WatchInv'
  BY <1>1, KillKeeps, ForgetKeeps, ReleaseKeeps, CloseRowKeeps, StartTxKeeps, LaunchKeeps DEF CallStep
<1>2. ASSUME NEW c \in Calls, NEW w \in Workers, Request(c, w) \/ Recover(c, w) \/ Disconnect(c, w)
      PROVE  WatchInv'
  <2>1. c \in CallSlots
    BY DEF CallSlots
  <2>2. CASE Request(c, w) \/ Recover(c, w)
    BY <2>1, <2>2, BeginStartKeeps DEF Request, Recover
  <2> QED BY <1>2, <2>1, <2>2, DisconnectKeeps
<1>3. ASSUME NEW a \in Attempts, AttemptStep(a) \/ StartFails(a) \/ Drop(a)
      PROVE  WatchInv'
  BY <1>3, ConnectKeeps, FailReleaseKeeps, FailRowKeeps, ReportEndKeeps, EventSaveKeeps,
     EventReleaseKeeps, StartFailsKeeps, DropKeeps DEF AttemptStep
<1>4. ASSUME NEW w \in Workers, RenewFire(w) \/ Restart(w)
      PROVE  WatchInv'
  <2>1. TypeOK'
    BY <1>4 DEF RenewFire, Restart, WatchInv, TypeOK
  <2> QED BY <1>4, <2>1, AsideKeeps DEF RenewFire, Restart
<1>5. CASE LeaseExpires
  <2>1. budget' \in [Limited -> Nat]
    BY <1>5 DEF LeaseExpires, WatchInv, TypeOK, Spend, Limited
  <2>2. row' \in RowType
    BY <1>5 DEF LeaseExpires, WatchInv, TypeOK, RowType
  <2>3. TypeOK'
    BY <1>5, <2>1, <2>2 DEF LeaseExpires, WatchInv, TypeOK, RowType
  <2> QED BY <1>5, <2>3, AsideKeeps DEF LeaseExpires
<1>6. CASE UNCHANGED vars
  <2>1. TypeOK'
    BY <1>6 DEF vars, WatchInv, TypeOK
  <2> QED BY <1>6, <2>1, AsideKeeps DEF vars
<1> QED
  BY <1>1, <1>2, <1>3, <1>4, <1>5, <1>6, RenewRowKeeps, RenewFailsKeeps, CrashKeeps DEF Next

(* However starts, closes, renewals and failures overlap, in any number of *)
(* processes: a browser that is not being closed has its timer, which ends *)
(* it once another worker has the lease.  Provided no start overtakes the  *)
(* events of the worker's last browser.                                    *)
THEOREM BrowserIsWatchedHolds ==
  ASSUME Sane, ~LateEvents
  PROVE  Spec => [](TypeOK /\ BrowserIsWatched)
<1>1. Init => WatchInv
  BY InitWatched
<1>2. WatchInv /\ [Next]_vars => WatchInv'
  BY NextWatched
<1>3. WatchInv => TypeOK /\ BrowserIsWatched
  BY DEF WatchInv
<1> QED BY <1>1, <1>2, <1>3, PTL DEF Spec

-----------------------------------------------------------------------------
(* AloneInv: what a step that begins no attempt has to leave.              *)
Done == {"row", "tx", "launch"}

LEMMA AloneStep ==
  ASSUME AloneInv, WatchInv', Fading,
         \A c, d \in CallSlots : call'[c].at = call'[d].at /\ call'[c].at # Nobody => c = d,
         \A a \in Attempts : Browser(a)' /\ Current(a) =>
           \/ Current(a)'
           \/ \E c \in CallSlots : call'[c].at = att[a].at /\ call'[c].pc = "release",
         \A c \in CallSlots : call[c].pc = "release" =>
           \/ call'[c].at = call[c].at /\ call'[c].pc = "release"
           \/ \A a \in Attempts : att[a].at = call[c].at => ~Browser(a)',
         \A c \in CallSlots : call'[c].pc \in Done =>
           \/ call[c].pc \in Done /\ call'[c].at = call[c].at
           \/ \A a \in Attempts : att[a].at = call'[c].at => ~Browser(a)',
         \A c \in CallSlots : call'[c].pc = "launch" =>
           /\ row'.holder = call'[c].at /\ row'.leased
           /\ \/ call[c].pc = "launch" /\ call'[c].at = call[c].at
              \/ \A a \in Attempts : att[a].at = call'[c].at => Calm(a) /\ ~Browser(a),
         \A a \in Attempts : Browser(a)' => row'.holder = row.holder /\ row'.leased
  PROVE  AloneInv'
<1>1. \A a \in Attempts : att'[a].at = att[a].at /\ (Browser(a)' => Browser(a))
  BY DEF Fading
<1>2. CallsAreAlone'
  BY DEF CallsAreAlone
<1>3. ForgottenIsReleased'
  <2> SUFFICES ASSUME NEW a \in Attempts, Browser(a)', ~Current(a)'
               PROVE  \E c \in CallSlots : call'[c].at = att'[a].at /\ call'[c].pc = "release"
    BY DEF ForgottenIsReleased
  <2>1. CASE Current(a)
    BY <1>1, <2>1
  <2>2. CASE ~Current(a)
    <3>1. PICK c \in CallSlots : call[c].at = att[a].at /\ call[c].pc = "release"
      BY <1>1, <2>2 DEF AloneInv, ForgottenIsReleased
    <3>2. call'[c].at = call[c].at /\ call'[c].pc = "release"
      BY <3>1
    <3> QED BY <1>1, <3>1, <3>2
  <2> QED BY <2>1, <2>2
<1>4. ClosedIsGone'
  <2> SUFFICES ASSUME NEW c \in CallSlots, NEW a \in Attempts, call'[c].pc \in Done,
                      call'[c].at = att'[a].at, Browser(a)'
               PROVE  FALSE
    BY DEF ClosedIsGone, Done
  <2>1. call[c].pc \in Done /\ call'[c].at = call[c].at
    BY <1>1
  <2> QED BY <1>1, <2>1 DEF AloneInv, ClosedIsGone, Done
<1>5. LaunchIsLeased'
  <2> SUFFICES ASSUME NEW c \in CallSlots, call'[c].pc = "launch",
                      NEW a \in Attempts, att'[a].at = call'[c].at
               PROVE  Calm(a)'
    BY DEF LaunchIsLeased
  <2>1. Calm(a) /\ ~Browser(a)
    <3>1. CASE call[c].pc = "launch" /\ call'[c].at = call[c].at
      BY <1>1, <3>1 DEF AloneInv, LaunchIsLeased, ClosedIsGone
    <3> QED BY <1>1, <3>1
  <2> QED BY <2>1 DEF Fading, Calm
<1>6. BrowserIsLeased'
  BY <1>1 DEF AloneInv, BrowserIsLeased
<1> QED BY <1>2, <1>3, <1>4, <1>5, <1>6 DEF AloneInv

(* The same, of a step that leaves row and entries alone, ...              *)
LEMMA AloneCallStep ==
  ASSUME AloneInv, WatchInv', Fading, UNCHANGED <<row, entry>>,
         \A c, d \in CallSlots : call'[c].at = call'[d].at /\ call'[c].at # Nobody => c = d,
         \A c \in CallSlots : call[c].pc = "release" =>
           \/ call'[c].at = call[c].at /\ call'[c].pc = "release"
           \/ \A a \in Attempts : att[a].at = call[c].at => ~Browser(a)',
         \A c \in CallSlots : call'[c].pc \in Done =>
           \/ call'[c] = call[c]
           \/ call'[c].pc # "launch" /\ \A a \in Attempts : att[a].at = call'[c].at => ~Browser(a)'
  PROVE  AloneInv'
<1>1. \A a \in Attempts : Current(a)' <=> Current(a)
  BY DEF Fading, Current
<1>2. \A a \in Attempts : Browser(a)' => row'.holder = row.holder /\ row'.leased
  BY DEF Fading, AloneInv, BrowserIsLeased
<1>3. \A c \in CallSlots : call'[c].pc = "launch" =>
        row'.holder = call'[c].at /\ row'.leased /\ call'[c] = call[c]
  BY DEF AloneInv, LaunchIsLeased, Done
<1> QED BY <1>1, <1>2, <1>3, AloneStep

(* ... and of one that leaves the calls alone.                             *)
LEMMA AloneRowStep ==
  ASSUME AloneInv, WatchInv', Fading, UNCHANGED call,
         \A a \in Attempts : Browser(a)' /\ Current(a) => Current(a)',
         \A c \in CallSlots : call[c].pc = "launch" => row'.holder = row.holder /\ row'.leased,
         \A a \in Attempts : Browser(a)' => row'.holder = row.holder /\ row'.leased
  PROVE  AloneInv'
<1>1. \A c, d \in CallSlots : call'[c].at = call'[d].at /\ call'[c].at # Nobody => c = d
  BY DEF AloneInv, CallsAreAlone
<1>2. \A c \in CallSlots : call'[c].pc = "launch" => row'.holder = call'[c].at /\ row'.leased
  BY DEF AloneInv, LaunchIsLeased
<1> QED BY <1>1, <1>2, AloneStep

(* A worker without a call and without a timer has no browser.             *)
LEMMA AloneHasNone ==
  ASSUME AloneInv, NEW w \in Workers, Alone(w), NEW a \in Attempts, att[a].at = w, Browser(a)
  PROVE  w \in owned
BY DEF AloneInv, WatchInv, BrowserIsWatched, ForgottenIsReleased, Alone

-----------------------------------------------------------------------------
(* AloneInv: the steps of the calls.                                       *)
LEMMA BeginCloseAlone ==
  ASSUME AloneInv, WatchInv', NEW c \in CallSlots, NEW w \in Workers, NEW x \in CallType,
         Alone(w), call[c].pc = "idle", call' = [call EXCEPT ![c] = x], x.at = w, x.pc = "kill",
         UNCHANGED <<row, entry, att>>
  PROVE  AloneInv'
<1>1. TypeOK /\ Fading
  BY StillFades DEF AloneInv, WatchInv
<1>2. /\ call' \in [CallSlots -> CallType] /\ call'[c] = x
      /\ \A d \in CallSlots \ {c} : call'[d] = call[d]
  BY <1>1, SetsCall
<1>3. \A d, e \in CallSlots : call'[d].at = call'[e].at /\ call'[d].at # Nobody => d = e
  BY <1>2 DEF AloneInv, CallsAreAlone, Alone
<1>4. /\ \A d \in CallSlots : call[d].pc = "release" => call'[d] = call[d]
      /\ \A d \in CallSlots : call'[d].pc \in Done => call'[d] = call[d]
  BY <1>2 DEF Done
<1> QED BY <1>1, <1>3, <1>4, AloneCallStep

LEMMA DisconnectAlone ==
  ASSUME AloneInv, WatchInv', ~Overlap, NEW c \in CallSlots, NEW w \in Workers, Disconnect(c, w)
  PROVE  AloneInv'
<1>1. PICK keep \in BOOLEAN : BeginClose(c, w, keep, FALSE)
  BY DEF Disconnect
<1>2. /\ call' = [call EXCEPT ![c] = CloseCall(w, keep, FALSE)]
      /\ call[c].pc = "idle" /\ Alone(w) /\ UNCHANGED <<row, entry, att>>
  BY <1>1 DEF Disconnect, BeginClose
<1>3. /\ CloseCall(w, keep, FALSE) \in CallType
      /\ CloseCall(w, keep, FALSE).at = w /\ CloseCall(w, keep, FALSE).pc = "kill"
  BY DEF CloseCall, CallType, CallPcs
<1> QED BY <1>2, <1>3, BeginCloseAlone

LEMMA BeginStartAlone ==
  ASSUME AloneInv, WatchInv', NEW c \in CallSlots, NEW w \in Workers, Alone(w),
         call[c].pc = "idle", BeginStart(c, w), UNCHANGED <<row, entry, att>>
  PROVE  AloneInv'
<1>1. TypeOK /\ Fading
  BY StillFades DEF AloneInv, WatchInv
<1>2. CASE UNCHANGED <<call, owned>>
  BY <1>1, <1>2, AloneCallStep DEF AloneInv, CallsAreAlone
<1>3. CASE BeginClose(c, w, TRUE, TRUE)
  BY <1>3, BeginCloseAlone, CloseFacts DEF BeginClose
<1>4. CASE /\ w \notin owned
           /\ call' = [call EXCEPT ![c] = [NoCall EXCEPT !.at = w, !.pc = "tx", !.go = TRUE]]
  <2> DEFINE x == [NoCall EXCEPT !.at = w, !.pc = "tx", !.go = TRUE]
  <2>1. x \in CallType /\ x.at = w /\ x.pc = "tx"
    BY DEF NoCall, CallType, CallPcs
  <2>2. call'[c] = x /\ \A d \in CallSlots \ {c} : call'[d] = call[d]
    BY <1>1, <1>4, <2>1, SetsCall
  <2> HIDE DEF x
  <2>3. \A d, e \in CallSlots : call'[d].at = call'[e].at /\ call'[d].at # Nobody => d = e
    BY <2>1, <2>2 DEF AloneInv, CallsAreAlone, Alone
  <2>4. \A a \in Attempts : att[a].at = w => ~Browser(a)'
    BY <1>1, <1>4, AloneHasNone DEF Fading
  <2>5. \A d \in CallSlots : call[d].pc = "release" => call'[d] = call[d]
    BY <2>2
  <2> QED BY <1>1, <2>1, <2>2, <2>3, <2>4, <2>5, AloneCallStep
<1> QED BY <1>2, <1>3, <1>4 DEF BeginStart

(* The call of one slot goes on, or ends.                                  *)
LEMMA StaysAlone ==
  ASSUME AloneInv, NEW c \in CallSlots, call'[c].at \in {call[c].at, Nobody},
         \A d \in CallSlots \ {c} : call'[d] = call[d]
  PROVE  \A d, e \in CallSlots : call'[d].at = call'[e].at /\ call'[d].at # Nobody => d = e
BY DEF AloneInv, CallsAreAlone

LEMMA KillAlone ==
  ASSUME AloneInv, WatchInv', NEW c \in CallSlots, Kill(c)
  PROVE  AloneInv'
<1>1. /\ Fading /\ UNCHANGED <<row, entry>> /\ call'[c].pc = "forget" /\ call[c].pc = "kill"
      /\ call'[c].at = call[c].at /\ \A d \in CallSlots \ {c} : call'[d] = call[d]
  BY KillFacts DEF AloneInv
<1>2. /\ \A d \in CallSlots : call[d].pc = "release" => call'[d] = call[d]
      /\ \A d \in CallSlots : call'[d].pc \in Done => call'[d] = call[d]
  BY <1>1 DEF Done
<1> QED BY <1>1, <1>2, StaysAlone, AloneCallStep

LEMMA ForgetAlone ==
  ASSUME AloneInv, WatchInv', NEW c \in CallSlots, Forget(c)
  PROVE  AloneInv'
<1>1. /\ Fading /\ UNCHANGED <<row, att>> /\ call'[c].pc = "release" /\ call[c].pc = "forget"
      /\ call'[c].at = call[c].at /\ \A d \in CallSlots \ {c} : call'[d] = call[d]
  BY ForgetFacts DEF AloneInv
<1>2. /\ \A d \in CallSlots : call[d].pc = "release" => call'[d] = call[d]
      /\ \A d \in CallSlots : call'[d].pc \in Done => call'[d] = call[d] /\ call[d].pc \in Done
  BY <1>1 DEF Done
<1>3. \A a \in Attempts : Current(a) => Current(a)' \/ call'[c].at = att[a].at
  BY <1>1 DEF Forget, Current, AloneInv, WatchInv, TypeOK
<1>4. \A a \in Attempts : Browser(a)' => row.leased
  BY <1>1 DEF Fading, AloneInv, BrowserIsLeased
<1>5. \A d \in CallSlots : call'[d].pc = "launch" => call'[d] = call[d] /\ row.holder = call[d].at /\ row.leased
  BY <1>2 DEF Done, AloneInv, LaunchIsLeased
<1> QED BY <1>1, <1>2, <1>3, <1>4, <1>5, StaysAlone, AloneStep

LEMMA ReleaseAlone ==
  ASSUME AloneInv, WatchInv', NEW c \in CallSlots, Release(c)
  PROVE  AloneInv'
<1>1. /\ Fading /\ UNCHANGED <<row, entry>> /\ call[c].pc = "release"
      /\ \A a \in Attempts : att[a].at = call[c].at => ~Browser(a)'
      /\ \/ call'[c].pc = "row" /\ call'[c].at = call[c].at
         \/ call'[c].pc = "idle" /\ call'[c].at = Nobody
      /\ \A d \in CallSlots \ {c} : call'[d] = call[d]
  BY ReleaseFacts DEF AloneInv
<1>2. \A d \in CallSlots : call'[d].pc \in Done =>
        \/ call'[d] = call[d]
        \/ call'[d].pc # "launch" /\ \A a \in Attempts : att[a].at = call'[d].at => ~Browser(a)'
  BY <1>1 DEF Done
<1> QED BY <1>1, <1>2, StaysAlone, AloneCallStep

LEMMA CloseRowAlone ==
  ASSUME Sane, AloneInv, WatchInv', NEW c \in CallSlots, CloseRow(c)
  PROVE  AloneInv'
<1> DEFINE w == call[c].at
<1>1. /\ Fading /\ UNCHANGED <<entry, att>> /\ call[c].pc = "row"
      /\ \/ call'[c].pc = "tx" /\ call'[c].at = w
         \/ call'[c].pc = "idle" /\ call'[c].at = Nobody
      /\ \A d \in CallSlots \ {c} : call'[d] = call[d]
  BY CloseRowFacts DEF AloneInv
<1>2. w \in Workers
  BY <1>1 DEF AloneInv, WatchInv, TypeOK, CallType, IdleIsNobodys
<1>3. ASSUME NEW a \in Attempts, Browser(a)'
      PROVE  row' = row /\ row.leased
  <2>1. Browser(a) /\ att[a].at \in Workers /\ row.holder = att[a].at /\ row.leased
    BY <1>1, <1>3 DEF Fading, AloneInv, WatchInv, LastEndIsDone, BrowserIsLeased
  <2>2. att[a].at # w
    BY <1>1, <2>1 DEF AloneInv, ClosedIsGone
  <2> QED BY <2>1, <2>2 DEF CloseRow, MayWrite, Sane
<1>4. ASSUME NEW d \in CallSlots, call'[d].pc = "launch"
      PROVE  row' = row /\ row.leased /\ call'[d] = call[d] /\ row.holder = call[d].at
  <2>1. d # c /\ call'[d] = call[d] /\ call[d].pc = "launch"
    BY <1>1, <1>4
  <2>2. row.holder = call[d].at /\ row.leased /\ call[d].at # Nobody /\ call[d].at # w
    BY <1>2, <2>1 DEF AloneInv, WatchInv, IdleIsNobodys, LaunchIsLeased, CallsAreAlone, Sane
  <2> QED BY <2>1, <2>2 DEF CloseRow, MayWrite
<1>5. /\ \A d \in CallSlots : call[d].pc = "release" => call'[d] = call[d]
      /\ \A d \in CallSlots : call'[d].pc \in Done => call[d].pc \in Done /\ call'[d].at = call[d].at
  BY <1>1 DEF Done
<1>6. \A a \in Attempts : Current(a) => Current(a)'
  BY <1>1 DEF Current
<1> QED BY <1>1, <1>3, <1>4, <1>5, <1>6, StaysAlone, AloneStep

(* The lease of another worker is not taken.                               *)
LEMMA StartTxAlone ==
  ASSUME Sane, AloneInv, WatchInv', ~LateEvents, NEW c \in CallSlots, StartTx(c)
  PROVE  AloneInv'
<1> DEFINE w == call[c].at
<1>1. /\ Fading /\ UNCHANGED <<entry, att>> /\ call[c].pc = "tx" /\ w \in Workers
      /\ \/ call'[c].pc = "launch" /\ call'[c].at = w /\ ~Refused(w)
            /\ row'.holder = w /\ row'.leased
         \/ call'[c].pc = "idle" /\ call'[c].at = Nobody /\ row' = row
      /\ \A d \in CallSlots \ {c} : call'[d] = call[d]
  BY StartTxFacts DEF AloneInv
<1>2. \A a \in Attempts : att[a].at = w => Calm(a) /\ ~Browser(a)
  BY <1>1 DEF StartTx, Settled, Calm, AloneInv, ClosedIsGone
<1>3. ASSUME NEW v \in Workers \ {w}, row.holder = v, row.leased
      PROVE  row' = row
  BY <1>1, <1>3 DEF Refused, HeldByOther, Sane
<1>4. \A a \in Attempts : Browser(a)' => row'.holder = row.holder /\ row'.leased
  <2> SUFFICES ASSUME NEW a \in Attempts, Browser(a)'
               PROVE  row'.holder = row.holder /\ row'.leased
    OBVIOUS
  <2>1. Browser(a) /\ att[a].at \in Workers \ {w} /\ row.holder = att[a].at /\ row.leased
    BY <1>1, <1>2 DEF Fading, AloneInv, WatchInv, LastEndIsDone, BrowserIsLeased
  <2> QED BY <1>3, <2>1
<1>5. ASSUME NEW d \in CallSlots, call'[d].pc = "launch"
      PROVE  /\ row'.holder = call'[d].at /\ row'.leased
             /\ \/ call[d].pc = "launch" /\ call'[d].at = call[d].at
                \/ \A a \in Attempts : att[a].at = call'[d].at => Calm(a) /\ ~Browser(a)
  <2>1. CASE d = c
    BY <1>1, <1>2, <1>5, <2>1
  <2>2. CASE d # c
    <3>1. call'[d] = call[d] /\ row.holder = call[d].at /\ row.leased /\ call[d].pc = "launch"
      BY <1>1, <1>5, <2>2 DEF AloneInv, LaunchIsLeased
    <3>2. call[d].at \in Workers \ {w}
      BY <1>1, <2>2, <3>1 DEF AloneInv, WatchInv, TypeOK, CallType, IdleIsNobodys, CallsAreAlone
    <3> QED BY <1>3, <3>1, <3>2
  <2> QED BY <2>1, <2>2
<1>6. /\ \A d \in CallSlots : call[d].pc = "release" => call'[d] = call[d]
      /\ \A d \in CallSlots : call'[d].pc \in Done => call[d].pc \in Done /\ call'[d].at = call[d].at
  BY <1>1 DEF Done
<1>7. \A a \in Attempts : Current(a) => Current(a)'
  BY <1>1 DEF Current
<1> QED BY <1>1, <1>4, <1>5, <1>6, <1>7, StaysAlone, AloneStep

LEMMA LaunchAlone ==
  ASSUME Sane, AloneInv, WatchInv', ~LateEvents, NEW c \in CallSlots, Launch(c)
  PROVE  AloneInv'
<1> DEFINE w == call[c].at
<1>1. /\ TypeOK /\ w \in Workers /\ call[c].pc = "launch" /\ row' = row
      /\ row.holder = w /\ row.leased
      /\ call'[c].at = Nobody /\ call'[c].pc = "idle"
      /\ \A d \in CallSlots \ {c} : call'[d] = call[d]
  BY LaunchCases, NoCallFacts DEF AloneInv, WatchInv, LaunchIsLeased
<1>2. /\ \A d \in CallSlots : call[d].pc = "release" => call'[d] = call[d]
      /\ \A d \in CallSlots : call'[d].pc \in Done => call'[d] = call[d]
      /\ \A d, e \in CallSlots : call'[d].at = call'[e].at /\ call'[d].at # Nobody => d = e
  BY <1>1, StaysAlone DEF Done
<1>3. CASE UNCHANGED <<entry, att>>
  <2>1. Fading
    BY <1>1, <1>3, StillFades
  <2> QED BY <1>1, <1>2, <1>3, <2>1, AloneCallStep
<1>4. ASSUME NEW a \in Attempts, Launched(w, a)
      PROVE  AloneInv'
  <2>1. /\ att'[a].at = w /\ Browser(a)' /\ Calm(a)'
        /\ \A b \in Attempts \ {a} : att'[b] = att[b]
        /\ entry'[w] = a /\ \A v \in Workers \ {w} : entry'[v] = entry[v]
    BY <1>1, <1>4, LaunchedFacts
  <2>2. \A b \in Attempts \ {a} : (Browser(b)' <=> Browser(b)) /\ (Calm(b)' <=> Calm(b))
    BY <2>1 DEF Browser, Calm
  <2>3. \A d \in CallSlots : call'[d].at # w
    BY <1>1 DEF AloneInv, CallsAreAlone, Sane
  <2>4. CallsAreAlone'
    BY <1>2 DEF CallsAreAlone
  <2>5. ForgottenIsReleased'
    <3> SUFFICES ASSUME NEW b \in Attempts, Browser(b)', ~Current(b)'
                 PROVE  \E d \in CallSlots : call'[d].at = att'[b].at /\ call'[d].pc = "release"
      BY DEF ForgottenIsReleased
    <3>1. b # a /\ Browser(b) /\ att'[b] = att[b]
      BY <2>1, <2>2 DEF Current
    <3>2. att[b].at \in Workers \ {w}
      BY <1>1, <3>1 DEF AloneInv, ClosedIsGone, WatchInv, LastEndIsDone
    <3>3. ~Current(b)
      BY <2>1, <3>1, <3>2 DEF Current
    <3> QED BY <1>2, <3>1, <3>3 DEF AloneInv, ForgottenIsReleased
  <2>6. ClosedIsGone'
    BY <1>2, <2>1, <2>2, <2>3 DEF AloneInv, ClosedIsGone, Done
  <2>7. LaunchIsLeased'
    BY <1>1, <1>2, <2>1, <2>2, <2>3 DEF AloneInv, LaunchIsLeased, Done
  <2>8. BrowserIsLeased'
    BY <1>1, <2>1, <2>2 DEF AloneInv, BrowserIsLeased
  <2> QED BY <2>4, <2>5, <2>6, <2>7, <2>8 DEF AloneInv
<1> QED BY <1>3, <1>4, LaunchCases DEF AloneInv

-----------------------------------------------------------------------------
(* AloneInv: the steps of the attempts.                                    *)

(* Holder and lease of the row stay.                                       *)
LEMMA AttemptAlone ==
  ASSUME AloneInv, WatchInv', Fading, UNCHANGED <<entry, call>>,
         row'.holder = row.holder, row'.leased = row.leased
  PROVE  AloneInv'
<1>1. \A a \in Attempts : Current(a)' <=> Current(a)
  BY DEF Fading, Current
<1>2. /\ \A c \in CallSlots : call[c].pc = "launch" => row'.leased
      /\ \A a \in Attempts : Browser(a)' => row'.leased
  BY DEF Fading, AloneInv, LaunchIsLeased, BrowserIsLeased
<1> QED BY <1>1, <1>2, AloneRowStep

LEMMA ConnectAlone ==
  ASSUME AloneInv, WatchInv', NEW a \in Attempts, Connect(a)
  PROVE  AloneInv'
<1>1. row'.holder = row.holder /\ row'.leased = row.leased
  BY DEF Connect, AloneInv, WatchInv, TypeOK
<1> QED BY <1>1, ConnectFades, AttemptAlone DEF Connect, AloneInv, WatchInv

LEMMA StartFailsAlone ==
  ASSUME AloneInv, WatchInv', NEW a \in Attempts, StartFails(a)
  PROVE  AloneInv'
<1>1. TypeOK /\ Fading /\ ~Browser(a)' /\ Browser(a)
  BY StartFailsFades DEF AloneInv, WatchInv
<1>2. \A b \in Attempts : Browser(b)' => att[b].at # att[a].at
  BY <1>1 DEF Fading, AloneInv, WatchInv, LastEndIsDone
<1>3. ASSUME NEW b \in Attempts, Browser(b)', Current(b)
      PROVE  Current(b)'
  <2>1. att[b].at \in Workers /\ att'[b].at = att[b].at /\ att[b].at # att[a].at
    BY <1>1, <1>2, <1>3 DEF Fading, AloneInv, WatchInv, LastEndIsDone
  <2>2. entry'[att[b].at] = entry[att[b].at]
    BY <1>1, <2>1 DEF StartFails, TypeOK
  <2> QED BY <1>3, <2>1, <2>2 DEF Current
<1>4. /\ \A c \in CallSlots : call[c].pc = "launch" => row.leased
      /\ \A b \in Attempts : Browser(b)' => row.leased
  BY <1>1 DEF Fading, AloneInv, LaunchIsLeased, BrowserIsLeased
<1> QED BY <1>1, <1>3, <1>4, AloneRowStep DEF StartFails

(* The row is given up after the end of a browser: no other is there, and  *)
(* none about to be launched.                                              *)
LEMMA GivesUpAlone ==
  ASSUME AloneInv, WatchInv', NEW a \in Attempts, Fading, ~Calm(a), UNCHANGED <<entry, call>>,
         row.holder # att[a].at => row' = row
  PROVE  AloneInv'
<1>1. ASSUME NEW b \in Attempts, Browser(b)'
      PROVE  row' = row /\ row.leased
  BY <1>1 DEF Fading, AloneInv, WatchInv, LastEndIsDone, BrowserIsLeased
<1>2. ASSUME NEW c \in CallSlots, call[c].pc = "launch"
      PROVE  row' = row /\ row.leased
  BY <1>2 DEF AloneInv, LaunchIsLeased
<1>3. \A b \in Attempts : Current(b)' <=> Current(b)
  BY DEF Fading, Current
<1> QED BY <1>1, <1>2, <1>3, AloneRowStep

LEMMA AttemptStepAlone ==
  ASSUME AloneInv, WatchInv', NEW a \in Attempts, AttemptStep(a) \/ Drop(a)
  PROVE  AloneInv'
<1>1. WatchInv
  BY DEF AloneInv
<1>2. CASE FailRelease(a)
  BY <1>1, <1>2, FailReleaseFades, AttemptAlone DEF FailRelease
<1>3. CASE FailRow(a)
  BY <1>1, <1>3, FailRowFades, GivesUpAlone DEF FailRow
<1>4. CASE ReportEnd(a)
  <2>1. PICK event \in {"raised", "none"} : att' = [att EXCEPT ![a].event = event]
    BY <1>4 DEF ReportEnd
  <2>2. Fading
    BY <1>1, <1>4, <2>1, EventFades DEF ReportEnd, Events
  <2> QED BY <1>4, <2>2, AttemptAlone DEF ReportEnd
<1>5. CASE EventSave(a)
  <2>1. Fading
    BY <1>1, <1>5, EventFades DEF EventSave, Events
  <2> QED BY <1>5, <2>1, AttemptAlone DEF EventSave
<1>6. CASE EventRelease(a)
  <2>1. Fading /\ ~Calm(a)
    BY <1>1, <1>6, EventFades DEF EventRelease, Events, Calm
  <2> QED BY <1>6, <2>1, GivesUpAlone DEF EventRelease
<1>7. CASE Drop(a)
  BY <1>1, <1>7, DropFades, AttemptAlone DEF Drop
<1> QED BY <1>2, <1>3, <1>4, <1>5, <1>6, <1>7, ConnectAlone DEF AttemptStep

-----------------------------------------------------------------------------
(* AloneInv: timers, leases and processes.                                 *)
LEMMA RenewRowAlone ==
  ASSUME AloneInv, WatchInv', ~Overlap, NEW w \in Workers, RenewRow(w)
  PROVE  AloneInv'
<1>1. CASE row.holder = w
  <2>1. Fading /\ row'.holder = row.holder /\ row'.leased
    BY <1>1, StillFades DEF RenewRow, AloneInv, WatchInv, TypeOK
  <2> QED BY <1>1, <2>1, AloneRowStep DEF RenewRow, Current
<1>2. CASE row.holder # w
  <2>1. PICK x \in {StopOnly(w), CloseCall(w, TRUE, FALSE)} : call' = [call EXCEPT ![w] = x]
    BY <1>2 DEF RenewRow
  <2>2. /\ StopOnly(w) \in CallType /\ StopOnly(w).at = w /\ StopOnly(w).pc = "kill"
        /\ CloseCall(w, TRUE, FALSE) \in CallType
        /\ CloseCall(w, TRUE, FALSE).at = w /\ CloseCall(w, TRUE, FALSE).pc = "kill"
    BY DEF StopOnly, CloseCall, CallType, CallPcs
  <2>3. x \in CallType /\ x.at = w /\ x.pc = "kill" /\ w \in CallSlots
    BY <2>2 DEF CallSlots
  <2> QED BY <1>2, <2>1, <2>3, BeginCloseAlone DEF RenewRow
<1> QED BY <1>1, <1>2

LEMMA RenewFailsAlone ==
  ASSUME AloneInv, WatchInv', ~Overlap, NEW w \in Workers, RenewFails(w)
  PROVE  AloneInv'
<1>1. StopOnly(w) \in CallType /\ StopOnly(w).at = w /\ StopOnly(w).pc = "kill" /\ w \in CallSlots
  BY DEF StopOnly, CloseCall, CallType, CallPcs, CallSlots
<1> QED BY <1>1, BeginCloseAlone DEF RenewFails

(* A lease that runs out was nobody's browser's.                           *)
LEMMA ExpiryAlone ==
  ASSUME AloneInv, WatchInv', Bound["stall"] = 0, LeaseExpires
  PROVE  AloneInv'
<1>1. ~Occupied(row.holder)
  BY DEF LeaseExpires, Spend, AloneInv, WatchInv, TypeOK, Limited
<1>2. Fading /\ UNCHANGED <<entry, call>>
  BY StillFades DEF LeaseExpires, AloneInv, WatchInv
<1>3. \A a \in Attempts : ~Browser(a)
  BY <1>1 DEF Occupied, AloneInv, WatchInv, BrowserIsWatched, ForgottenIsReleased, BrowserIsLeased
<1>4. \A c \in CallSlots : call[c].pc # "launch"
  BY <1>1 DEF Occupied, AloneInv, LaunchIsLeased
<1>5. \A a \in Attempts : ~Browser(a)'
  BY <1>2, <1>3 DEF Fading
<1> QED BY <1>2, <1>4, <1>5, AloneRowStep

LEMMA CrashAlone ==
  ASSUME Sane, AloneInv, WatchInv', NEW w \in Workers, Crash(w)
  PROVE  AloneInv'
<1>1. /\ TypeOK /\ row' = row /\ entry' = [entry EXCEPT ![w] = 0]
      /\ \A a \in Attempts :
           IF att[a].at = w THEN att'[a].at = Nobody /\ ~Browser(a)' /\ Calm(a)'
           ELSE att'[a] = att[a]
      /\ \A c \in CallSlots :
           IF call[c].at = w THEN call'[c] = NoCall ELSE call'[c] = call[c]
  BY CrashFacts DEF AloneInv, WatchInv, Crash
<1>2. \A a \in Attempts : Browser(a)' =>
        /\ Browser(a) /\ att'[a] = att[a] /\ att[a].at \in Workers \ {w}
        /\ Current(a)' <=> Current(a)
  BY <1>1 DEF Browser, AloneInv, WatchInv, LastEndIsDone, Current, TypeOK
<1>3. \A c \in CallSlots : call'[c].pc # "idle" => call'[c] = call[c] /\ call[c].at \in Workers \ {w}
  BY <1>1, NoCallFacts DEF AloneInv, WatchInv, TypeOK, CallType, IdleIsNobodys
<1>4. CallsAreAlone'
  BY <1>1, NoCallFacts DEF AloneInv, CallsAreAlone
<1>5. ForgottenIsReleased'
  <2> SUFFICES ASSUME NEW a \in Attempts, Browser(a)', ~Current(a)'
               PROVE  \E c \in CallSlots : call'[c].at = att'[a].at /\ call'[c].pc = "release"
    BY DEF ForgottenIsReleased
  <2>1. PICK c \in CallSlots : call[c].at = att[a].at /\ call[c].pc = "release"
    BY <1>2 DEF AloneInv, ForgottenIsReleased
  <2> QED BY <1>1, <1>2, <2>1
<1>6. ClosedIsGone' /\ BrowserIsLeased'
  BY <1>1, <1>2, <1>3 DEF AloneInv, ClosedIsGone, BrowserIsLeased
<1>7. LaunchIsLeased'
  <2> SUFFICES ASSUME NEW c \in CallSlots, call'[c].pc = "launch"
               PROVE  /\ row.holder = call'[c].at /\ row.leased
                      /\ \A a \in Attempts : att'[a].at = call'[c].at => Calm(a)'
    BY <1>1 DEF LaunchIsLeased
  <2>1. call'[c] = call[c]
    BY <1>3
  <2> QED BY <1>1, <2>1 DEF AloneInv, LaunchIsLeased, Calm
<1> QED BY <1>4, <1>5, <1>6, <1>7 DEF AloneInv

LEMMA InitAlone ==
  ASSUME Sane, Init
  PROVE  AloneInv
<1>1. \A a \in Attempts : ~Browser(a)
  BY DEF Init, Browser, NoAttempt
<1>2. \A c \in CallSlots : call[c].at = Nobody /\ call[c].pc = "idle"
  BY NoCallFacts DEF Init
<1> QED
  BY <1>1, <1>2, InitWatched
  DEF AloneInv, CallsAreAlone, ForgottenIsReleased, ClosedIsGone, LaunchIsLeased, BrowserIsLeased

LEMMA NextAlone ==
  ASSUME Sane, ~LateEvents, ~Overlap, Bound["stall"] = 0, AloneInv, [Next]_vars
  PROVE  AloneInv'
<1>1. WatchInv'
  BY NextWatched DEF AloneInv
<1>2. ASSUME NEW c \in CallSlots, CallStep(c)
      PROVE  AloneInv'
  BY <1>1, <1>2, KillAlone, ForgetAlone, ReleaseAlone, CloseRowAlone, StartTxAlone, LaunchAlone
  DEF CallStep
<1>3. ASSUME NEW c \in Calls, NEW w \in Workers, Request(c, w) \/ Recover(c, w) \/ Disconnect(c, w)
      PROVE  AloneInv'
  <2>1. c \in CallSlots
    BY DEF CallSlots
  <2>2. CASE Request(c, w) \/ Recover(c, w)
    BY <1>1, <2>1, <2>2, BeginStartAlone DEF Request, Recover
  <2> QED BY <1>1, <1>3, <2>1, <2>2, DisconnectAlone
<1>4. ASSUME NEW a \in Attempts, AttemptStep(a) \/ StartFails(a) \/ Drop(a)
      PROVE  AloneInv'
  BY <1>1, <1>4, AttemptStepAlone, StartFailsAlone
<1>5. CASE UNCHANGED <<row, entry, att, call>>
  <2>1. Fading
    BY <1>5, StillFades DEF AloneInv, WatchInv
  <2> QED BY <1>1, <1>5, <2>1, AttemptAlone
<1>6. ASSUME NEW w \in Workers, RenewFire(w) \/ Restart(w)
      PROVE  AloneInv'
  BY <1>5, <1>6 DEF RenewFire, Restart
<1>7. CASE UNCHANGED vars
  BY <1>5, <1>7 DEF vars
<1> QED
  BY <1>1, <1>2, <1>3, <1>4, <1>6, <1>7, RenewRowAlone, RenewFailsAlone, ExpiryAlone, CrashAlone DEF Next

(* However many processes start, close, drop, crash and take over: a       *)
(* number is open in the browsers of one worker at most.  Provided the     *)
(* starts and closes of one worker, and the events of its last browser,    *)
(* do not overlap, and no holder of a lease stands still longer than it    *)
(* lasts.                                                                  *)
THEOREM SingleBrowserHolds ==
  ASSUME Sane, ~LateEvents, ~Overlap, Bound["stall"] = 0
  PROVE  Spec => []SingleBrowser
<1>1. Init => AloneInv
  BY InitAlone
<1>2. AloneInv /\ [Next]_vars => AloneInv'
  BY NextAlone
<1>3. AloneInv => SingleBrowser
  BY DEF AloneInv, BrowserIsLeased, SingleBrowser
<1> QED BY <1>1, <1>2, <1>3, PTL DEF Spec
=============================================================================
