----------------------------- MODULE OpenRouter -----------------------------
(***************************************************************************)
(* Riwo on OpenRouter's free models (openRouter): the models are read from *)
(* a public list and ranked, an ask tries the best few and then the free   *)
(* router, a model that failed is left alone, and a limit of the account   *)
(* pauses everything.  The account is shared by all asks of the process,   *)
(* which interleave wherever one awaits.  Waiting times are free: a pause, *)
(* a rest or the life of the list may end at any moment.                   *)
(***************************************************************************)
EXTENDS Integers, Sequences, FiniteSets

CONSTANTS
  Asks,         \* calls of askOpenRouter that may be under way at once
  Offered,      \* the list: records [id, maker, usable, score]
  FreeRouter,   \* OpenRouter's own pick of a free model
  MaxAttempts,  \* as in the source (4)
  PerMinute,    \* PER_MINUTE
  MaxCalls      \* bound: requests to OpenRouter

VARIABLES
  catalogue,    \* the list: "none", "fresh" or "stale" (past CATALOGUE_TTL_MS)
  unlisted,     \* the list could not be read within the last minute
  cooling,      \* why each model is set aside, "no" when it is not
  paused,       \* now < pausedUntil
  recent,       \* requests of the last minute
  ask, calls

vars == <<catalogue, unlisted, cooling, paused, recent, ask, calls>>

Models == {m.id : m \in Offered}
All == Models \union {FreeRouter}
NoAsk == [pc |-> "idle", line |-> <<>>, at |-> 0, folded |-> FALSE, tried |-> {}]

Init ==
  /\ catalogue = "none" /\ unlisted = FALSE
  /\ cooling = [m \in All |-> "no"]
  /\ paused = FALSE /\ recent = 0
  /\ ask = [a \in Asks |-> NoAsk] /\ calls = 0

Resting(m) == cooling[m] /= "no"
Awake == {m \in All : ~Resting(m)}

-----------------------------------------------------------------------------
(* Places in order, and what a list has at them.  (A place is the one that *)
(* has so many before it.)                                                 *)
InOrder(places) ==
  [i \in 1..Cardinality(places) |->
     CHOOSE n \in places : Cardinality({k \in places : k < n}) = i - 1]

Pick(ids, places) == LET at == InOrder(places) IN [k \in DOMAIN at |-> ids[at[k]]]

(* rankFreeModels: what can write and costs nothing, the best first.  A    *)
(* model's score is its place among all.                                   *)
Ranked ==
  LET usable == {m \in Offered : m.usable}
      ranks  == InOrder({m.score : m \in usable})
  IN  [i \in DOMAIN ranks |-> (CHOOSE m \in usable : m.score = ranks[i]).id]

MakerOf(id) == (CHOOSE m \in Offered : m.id = id).maker

(* Mutant of Spread: the best models in their order.                       *)
SpreadNot(ids) == ids

(* spreadAcrossMakers: the best of every maker, then the others.           *)
Spread(ids) ==
  LET again == {i \in DOMAIN ids : \E j \in 1..(i - 1) : MakerOf(ids[j]) = MakerOf(ids[i])}
  IN  Pick(ids, DOMAIN ids \ again) \o Pick(ids, again)

(* freeModels, when it need not ask: the list it has, old or not, or none. *)
Known == IF catalogue = "none" THEN <<>> ELSE Ranked

MustList == catalogue /= "fresh" /\ ~unlisted

(* Mutant of Line: the best four, whoever they are.                        *)
LineOfBest(ids) ==
  LET ranked == Spread(Pick(ids, {i \in DOMAIN ids : ~Resting(ids[i])}))
  IN  SubSeq(Append(ranked, FreeRouter), 1,
             IF Len(ranked) < MaxAttempts THEN Len(ranked) + 1 ELSE MaxAttempts)

(* The models of an ask: the best ones awake, the free router last.        *)
Line(ids) ==
  LET ranked == Spread(Pick(ids, {i \in DOMAIN ids : ~Resting(ids[i])}))
  IN  Append(SubSeq(ranked, 1, IF Len(ranked) < MaxAttempts THEN Len(ranked) ELSE MaxAttempts - 1),
             FreeRouter)

(* The first model of the line after the one it is at that is awake.       *)
Onward(q, awake) ==
  LET left == {i \in (q.at + 1)..Len(q.line) : q.line[i] \in awake}
  IN  IF left = {} THEN [q EXCEPT !.pc = "over"]
      ELSE LET i == CHOOSE i \in left : \A j \in left : i <= j
           IN  [q EXCEPT !.pc = "calling", !.at = i, !.folded = FALSE,
                         !.tried = @ \union {q.line[i]}]

(* callModel counts the request before it is sent.                         *)
Goto(a, q) ==
  /\ ask' = [ask EXCEPT ![a] = q]
  /\ IF q.pc = "calling"
     THEN calls < MaxCalls /\ calls' = calls + 1 /\ recent' = recent + 1
     ELSE UNCHANGED <<calls, recent>>

Start(a, ids) == Goto(a, Onward([NoAsk EXCEPT !.line = Line(ids)], Awake))

-----------------------------------------------------------------------------
(* A pause or a full minute turns the ask away: here and only here.        *)
Begin(a) ==
  /\ ask[a].pc = "idle" /\ ~paused /\ recent < PerMinute
  /\ IF MustList
     THEN ask' = [ask EXCEPT ![a].pc = "listing"] /\ UNCHANGED <<calls, recent>>
     ELSE Start(a, Known)
  /\ UNCHANGED <<catalogue, unlisted, cooling, paused>>

Listed(a) ==
  /\ ask[a].pc = "listing"
  /\ Start(a, Ranked) /\ catalogue' = "fresh"
  /\ UNCHANGED <<unlisted, cooling, paused>>

NotListed(a) ==
  /\ ask[a].pc = "listing"
  /\ Start(a, Known) /\ unlisted' = TRUE
  /\ UNCHANGED <<catalogue, cooling, paused>>

Answered(a) ==
  /\ ask[a].pc = "calling"
  /\ ask' = [ask EXCEPT ![a] = NoAsk]
  /\ UNCHANGED <<catalogue, unlisted, cooling, paused, recent, calls>>

(* The model refuses a system message: the same words in one message.      *)
Folds(a) ==
  /\ ask[a].pc = "calling" /\ ~ask[a].folded
  /\ Goto(a, [ask[a] EXCEPT !.folded = TRUE])
  /\ UNCHANGED <<catalogue, unlisted, cooling, paused>>

(* A refused key ends the ask.                                             *)
KeyRefused(a) ==
  /\ ask[a].pc = "calling"
  /\ ask' = [ask EXCEPT ![a] = NoAsk]
  /\ UNCHANGED <<catalogue, unlisted, cooling, paused, recent, calls>>

(* Credit, the day's or the minute's limit of the account.                 *)
AccountLimit(a) ==
  /\ ask[a].pc = "calling"
  /\ paused' = TRUE
  /\ ask' = [ask EXCEPT ![a] = NoAsk]
  /\ UNCHANGED <<catalogue, unlisted, cooling, recent, calls>>

(* The model is closed to the account, blocked by its privacy settings,    *)
(* gone, or failed: it is set aside and the next one is tried.             *)
Fails(a, why) ==
  LET q == ask[a]
      m == q.line[q.at]
  IN
  /\ q.pc = "calling"
  /\ cooling' = [cooling EXCEPT ![m] = why]
  /\ Goto(a, Onward(q, Awake \ {m}))
  /\ catalogue' = IF why = "gone" THEN "none" ELSE catalogue
  /\ paused' = (paused \/ (why = "policy" /\ m = FreeRouter))
  /\ UNCHANGED unlisted

Over(a) ==
  /\ ask[a].pc = "over"
  /\ ask' = [ask EXCEPT ![a] = NoAsk]
  /\ UNCHANGED <<catalogue, unlisted, cooling, paused, recent, calls>>

(* An administrator's test starts clean, but for what is not open to us.   *)
Diagnose ==
  /\ paused \/ \E m \in All : cooling[m] \notin {"no", "restricted"}
  /\ paused' = FALSE
  /\ cooling' = [m \in All |-> IF cooling[m] = "restricted" THEN "restricted" ELSE "no"]
  /\ UNCHANGED <<catalogue, unlisted, recent, ask, calls>>

-----------------------------------------------------------------------------
Wakes(m) ==
  /\ Resting(m) /\ cooling' = [cooling EXCEPT ![m] = "no"]
  /\ UNCHANGED <<catalogue, unlisted, paused, recent, ask, calls>>

Resumes ==
  /\ paused /\ paused' = FALSE
  /\ UNCHANGED <<catalogue, unlisted, cooling, recent, ask, calls>>

Ages ==
  /\ recent > 0 /\ recent' = recent - 1
  /\ UNCHANGED <<catalogue, unlisted, cooling, paused, ask, calls>>

ListAges ==
  /\ \/ catalogue = "fresh" /\ catalogue' = "stale" /\ UNCHANGED unlisted
     \/ unlisted /\ unlisted' = FALSE /\ UNCHANGED catalogue
  /\ UNCHANGED <<cooling, paused, recent, ask, calls>>

Next ==
  \/ \E a \in Asks :
       \/ Begin(a) \/ Listed(a) \/ NotListed(a) \/ Answered(a) \/ Folds(a) \/ KeyRefused(a)
       \/ AccountLimit(a) \/ Over(a)
       \/ \E why \in {"restricted", "policy", "gone", "failed"} : Fails(a, why)
  \/ \E m \in All : Wakes(m)
  \/ Diagnose \/ Resumes \/ Ages \/ ListAges

Spec == Init /\ [][Next]_vars

-----------------------------------------------------------------------------
TypeOK ==
  /\ catalogue \in {"none", "fresh", "stale"} /\ unlisted \in BOOLEAN /\ paused \in BOOLEAN
  /\ cooling \in [All -> {"no", "restricted", "policy", "gone", "failed"}]
  /\ recent \in 0..MaxCalls
  /\ \A a \in Asks : ask[a].pc \in {"idle", "listing", "calling", "over"} /\ ask[a].tried \subseteq All

(* No ask gives up before OpenRouter's own router was tried, unless that   *)
(* one is set aside (the last resort of openRouter.js:13).                 *)
LastResortIsTried ==
  [][\A a \in Asks : ask'[a].pc = "over" /\ ask[a].pc /= "over" =>
       FreeRouter \in ask'[a].tried \/ cooling'[FreeRouter] /= "no"]_vars

(* Siblings share a limit: an ask turns to a maker again only when it has  *)
(* turned to every maker with a model that is awake.                       *)
SpreadsAsks ==
  \A a \in Asks : ask'[a].line /= ask[a].line =>
    LET line  == ask'[a].line
        ours  == {i \in DOMAIN line : line[i] \in Models}
        awake == {m \in Offered : m.usable /\ ~Resting(m.id)}
    IN  \A i, j \in ours : i < j /\ MakerOf(line[i]) = MakerOf(line[j]) =>
          {m.maker : m \in awake} \subseteq {MakerOf(line[k]) : k \in {k \in ours : k < j}}
MakersFirst == [][SpreadsAsks]_vars

(* A limit of the account stops further requests (openRouter.js:11).       *)
PauseStopsRequests == [][paused /\ paused' => calls' = calls]_vars

(* OpenRouter allows two a minute more than PER_MINUTE (openRouter.js:19). *)
WithinTheMinute == recent <= PerMinute + 2
=============================================================================
