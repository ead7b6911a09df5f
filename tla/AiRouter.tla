------------------------------ MODULE AiRouter ------------------------------
(***************************************************************************)
(* A request to Riwo: one is taken from the company's daily allowance      *)
(* (aiService), the router picks providers until one answers (ai/router),  *)
(* and a request that failed is given back.  The router's counters live in *)
(* the process: requests interleave wherever a provider is awaited.        *)
(*                                                                         *)
(* A provider is a record: counted (the router holds it to rpm), own and   *)
(* free (its place in the order), private (it does not train), models.     *)
(* The pieces of time are free: a minute, a rest or a day may end at any   *)
(* moment.                                                                 *)
(***************************************************************************)
EXTENDS Integers, Sequences, FiniteSets, SequencesExt

CONSTANTS
  Requests,   \* requests that may be under way at once
  Providers,  \* configuredProviders(), in the order configured
  Limit,      \* dailyLimitOf(tenant)
  MaxDay,     \* bound: midnights
  MaxAsks,    \* bound: requests made
  MaxFaults   \* bound: failures of models and providers

VARIABLES
  today,    \* the UTC day
  used,     \* ai_usage.requests of each day
  cooled,   \* providers set aside (cooled)
  gone,     \* <<provider, model>> set aside (modelCooled)
  sent,     \* requests to each provider in the last minute (windows)
  turn,     \* moves on with every request
  req,      \* each request
  answers,  \* history: answers of the requests taken from each day
  late,     \* history: requests of an earlier day given back on each day
  asks, faults

vars == <<today, used, cooled, gone, sent, turn, req, answers, late, asks, faults>>

Ps == 1..Len(Providers)
Days == 0..MaxDay
NoModel == "none"

(* The places in its line that a request has come by: next is ahead,       *)
(* resting were skipped for being set aside, asked were asked, in turn;    *)
(* last says that it goes along the resting ones.                          *)
NoReq == [pc |-> "idle", day |-> 0, strict |-> FALSE, background |-> FALSE, line |-> <<>>, next |-> 1,
          resting |-> {}, asked |-> <<>>, last |-> FALSE, at |-> 0, model |-> NoModel, left |-> <<>>]

Init ==
  /\ today = 0 /\ used = [d \in Days |-> 0]
  /\ cooled = {} /\ gone = {} /\ sent = [p \in Ps |-> 0] /\ turn = 0
  /\ req = [r \in Requests |-> NoReq]
  /\ answers = [d \in Days |-> 0] /\ late = [d \in Days |-> 0]
  /\ asks = 0 /\ faults = 0

-----------------------------------------------------------------------------
(* The order: own servers, then the free ones with the least busy for its  *)
(* size first and equals in turns, then the paid ones.                     *)
Free == SelectSeq([p \in Ps |-> p], LAMBDA p : Providers[p].free)
Owned(own) == SelectSeq([p \in Ps |-> p], LAMBDA p : ~Providers[p].free /\ Providers[p].own = own)

Rotated ==
  LET start == IF Free = <<>> THEN 0 ELSE turn % Len(Free)
  IN  SubSeq(Free, start + 1, Len(Free)) \o SubSeq(Free, 1, start)

(* A resting provider counts as twice full.                                *)
Busy(p) == IF p \in cooled THEN 2 * Providers[p].rpm ELSE sent[p]
LessBusy(p, q) == Busy(p) * Providers[q].rpm < Busy(q) * Providers[p].rpm
Place(p) == CHOOSE i \in DOMAIN Rotated : Rotated[i] = p

Balance ==
  Owned(TRUE)
    \o SetToSortSeq(ToSet(Free), LAMBDA p, q :
         LessBusy(p, q) \/ (~LessBusy(q, p) /\ Place(p) < Place(q)))
    \o Owned(FALSE)

(* Customers' words are held to providers that do not train on them.       *)
Eligible(strict) == SelectSeq(Balance, LAMBDA p : strict => Providers[p].private)

(* Models not set aside, two at most.                                      *)
Open(p) ==
  LET on == SelectSeq(Providers[p].models, LAMBDA m : <<p, m>> \notin gone)
  IN  SubSeq(on, 1, IF Len(on) < 2 THEN Len(on) ELSE 2)

(* What a minute allows: work nobody waits for uses half.                  *)
Share(p, background) == IF background THEN Providers[p].rpm \div 2 ELSE Providers[p].rpm

Full(p, q) == Providers[p].counted /\ sent[p] >= Share(p, q.background)
Takes(p, q) == (q.last \/ (p \notin cooled /\ ~Full(p, q))) /\ Open(p) /= <<>>

(* Mutant of LastResort: providers at rest are tried after a failure too.  *)
LastResortAlways(q) == q.resting /= {}

(* Nothing could be tried: a provider at rest is better than no answer.    *)
LastResort(q) == q.asked = <<>> /\ q.resting /= {}

Ahead(q) == {i \in q.next..Len(q.line) : q.last => i \in q.resting}

(* The first provider in line that takes the request gets it.              *)
Forward(q) ==
  LET ready == {i \in Ahead(q) : Takes(q.line[i], q)}
      first == CHOOSE i \in ready : \A j \in ready : i <= j
      p     == q.line[first]
      seen  == {i \in Ahead(q) : \A j \in ready : i < j}
      one   == [q EXCEPT !.resting = @ \union {i \in seen : q.line[i] \in cooled}]
  IN  IF ready = {} THEN [one EXCEPT !.pc = "failed"]
      ELSE [one EXCEPT !.pc = "calling", !.next = first + 1, !.asked = Append(@, first),
                       !.at = p, !.model = Open(p)[1], !.left = Tail(Open(p))]

Onward(q) ==
  LET one == Forward(q)
  IN  IF one.pc = "failed" /\ ~one.last /\ LastResort(one)
      THEN Forward([one EXCEPT !.last = TRUE, !.next = 1])
      ELSE one

(* The request is at its next call or at its end: one turn of the loop.    *)
Goto(r, q) ==
  /\ req' = [req EXCEPT ![r] = q]
  /\ sent' = IF q.pc = "calling" THEN [sent EXCEPT ![q.at] = @ + 1] ELSE sent

-----------------------------------------------------------------------------
(* run: strict is what the company or the server asks for; without a       *)
(* provider that keeps words private the company is turned away.           *)
Ask(r) ==
  /\ req[r].pc = "idle" /\ asks < MaxAsks
  /\ \E strict, background \in BOOLEAN :
       /\ strict => \E p \in Ps : Providers[p].private
       /\ req' = [req EXCEPT ![r] = [NoReq EXCEPT !.pc = "reserve", !.strict = strict,
                                               !.background = background]]
  /\ asks' = asks + 1
  /\ UNCHANGED <<today, used, cooled, gone, sent, turn, answers, late, faults>>

(* Mutant of Allowed: the last one is given twice.                         *)
AllowedOneMore(n) == n <= Limit

Allowed(n) == n < Limit

Reserve(r) ==
  /\ req[r].pc = "reserve"
  /\ IF Allowed(used[today])
     THEN /\ used' = [used EXCEPT ![today] = @ + 1]
          /\ req' = [req EXCEPT ![r].pc = "route", ![r].day = today]
     ELSE req' = [req EXCEPT ![r] = NoReq] /\ UNCHANGED used
  /\ UNCHANGED <<today, cooled, gone, sent, turn, answers, late, asks, faults>>

Route(r) ==
  /\ req[r].pc = "route"
  /\ Goto(r, Onward([req[r] EXCEPT !.line = Eligible(req[r].strict)]))
  /\ turn' = IF Free = <<>> THEN 0 ELSE (turn + 1) % Len(Free)
  /\ UNCHANGED <<today, used, cooled, gone, answers, late, asks, faults>>

Answers(r) ==
  /\ req[r].pc = "calling"
  /\ answers' = [answers EXCEPT ![req[r].day] = @ + 1]
  /\ req' = [req EXCEPT ![r] = NoReq]
  /\ UNCHANGED <<today, used, cooled, gone, sent, turn, late, asks, faults>>

(* A refusal is about the words: no other provider is asked.               *)
Declines(r) ==
  /\ req[r].pc = "calling" /\ faults < MaxFaults /\ faults' = faults + 1
  /\ req' = [req EXCEPT ![r].pc = "failed"]
  /\ UNCHANGED <<today, used, cooled, gone, sent, turn, answers, late, asks>>

(* judge: the model is at fault.  The next model of the same provider is   *)
(* asked, whatever became of the provider meanwhile.                       *)
ModelFails(r) ==
  LET q == req[r] IN
  /\ q.pc = "calling" /\ faults < MaxFaults /\ faults' = faults + 1 /\ q.model /= NoModel
  /\ gone' = gone \union {<<q.at, q.model>>}
  /\ IF q.left /= <<>>
     THEN Goto(r, [q EXCEPT !.model = Head(q.left), !.left = Tail(q.left)])
     ELSE Goto(r, Onward(q))
  /\ UNCHANGED <<today, used, cooled, turn, answers, late, asks>>

(* judge: the provider is, and is left alone for a while.                  *)
ProviderFails(r) ==
  LET q == req[r] IN
  /\ q.pc = "calling" /\ faults < MaxFaults /\ faults' = faults + 1
  /\ cooled' = cooled \union {q.at}
  /\ Goto(r, Onward(q))
  /\ UNCHANGED <<today, used, gone, turn, answers, late, asks>>

(* release: it goes back to the day it is now.                             *)
GiveBack(r) ==
  /\ req[r].pc = "failed"
  /\ used' = [used EXCEPT ![today] = IF @ > 0 THEN @ - 1 ELSE 0]
  /\ late' = IF req[r].day < today THEN [late EXCEPT ![today] = @ + 1] ELSE late
  /\ req' = [req EXCEPT ![r] = NoReq]
  /\ UNCHANGED <<today, cooled, gone, sent, turn, answers, asks, faults>>

-----------------------------------------------------------------------------
Ages(p) ==
  /\ sent[p] > 0 /\ sent' = [sent EXCEPT ![p] = @ - 1]
  /\ UNCHANGED <<today, used, cooled, gone, turn, req, answers, late, asks, faults>>

Rested(p) ==
  /\ p \in cooled /\ cooled' = cooled \ {p}
  /\ UNCHANGED <<today, used, gone, sent, turn, req, answers, late, asks, faults>>

Returns(p) ==
  /\ \E m \in gone : m[1] = p /\ gone' = gone \ {m}
  /\ UNCHANGED <<today, used, cooled, sent, turn, req, answers, late, asks, faults>>

Midnight ==
  /\ today < MaxDay /\ today' = today + 1
  /\ UNCHANGED <<used, cooled, gone, sent, turn, req, answers, late, asks, faults>>

Next ==
  \/ \E r \in Requests : Ask(r) \/ Reserve(r) \/ Route(r) \/ Answers(r) \/ Declines(r)
                         \/ ModelFails(r) \/ ProviderFails(r) \/ GiveBack(r)
  \/ \E p \in Ps : Ages(p) \/ Rested(p) \/ Returns(p)
  \/ Midnight

Spec == Init /\ [][Next]_vars

-----------------------------------------------------------------------------
TypeOK ==
  /\ today \in Days /\ used \in [Days -> Nat]
  /\ cooled \subseteq Ps /\ sent \in [Ps -> Nat] /\ turn \in Nat
  /\ \A m \in gone : m[1] \in Ps
  /\ \A r \in Requests : req[r].pc \in {"idle", "reserve", "route", "calling", "failed"}

(* Requests that hold one of a day's allowance.                            *)
Holding(d) == Cardinality({r \in Requests : req[r].pc \in {"route", "calling", "failed"} /\ req[r].day = d})

(* What a day's allowance was spent on never passes the limit, except for  *)
(* requests taken before midnight and given back after it: reserve counts  *)
(* in the same statement that checks, however many ask at once.            *)
AllowanceKept == \A d \in Days : answers[d] + Holding(d) <= Limit + late[d]

(* A burst cannot run past the day's allowance (aiService.js:185).         *)
AllowanceHolds == \A d \in Days : answers[d] + Holding(d) <= Limit

(* A request is sent on to somebody else.                                  *)
SentOn(r) == req'[r].asked \notin {req[r].asked, <<>>}

(* Nobody is asked twice by one request, although it may go along the line *)
(* a second time.  It is sent on to a provider that is set aside only when *)
(* nobody it was sent to before, and not this one either, took part in the *)
(* first round: a rest was a guess, but two failures are not made of one.  *)
(* A second model of the provider it is with is no sending on: that is     *)
(* asked even when the provider was set aside meanwhile.                   *)
GoesAlong(r) ==
  LET q      == req'[r]
      before == ToSet(req[r].asked)
      place  == q.asked[Len(q.asked)]
  IN  SentOn(r) => /\ place \notin before
                   /\ q.at \in cooled => before \union {place} \subseteq q.resting

(* And it is turned away unasked only when every provider it may go to has *)
(* no model that is not set aside, or is awake and full.                   *)
TurnedAway(r) ==
  LET q == req'[r] IN
  req[r].pc = "route" /\ q.pc = "failed" =>
    \A i \in 1..Len(q.line) :
      Open(q.line[i]) = <<>> \/ (q.line[i] \notin cooled /\ Full(q.line[i], q))

LastOnly == \A r \in Requests : GoesAlong(r) /\ TurnedAway(r)
OnlyAsLastResort == [][LastOnly]_vars
=============================================================================
