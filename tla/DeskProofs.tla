--------------------------- MODULE DeskProofs ---------------------------
(***************************************************************************)
(* Proofs about what agents work with (MCDesk): the viewings, and the      *)
(* other parts of the desk, whose theorems are of the composed             *)
(* specification.  For any servers, agents, requests, leads, labels and    *)
(* messages.                                                               *)
(***************************************************************************)
EXTENDS
  MCDesk, FiniteSetTheorems, SequenceTheorems, WellFoundedInduction, TLAPS

(* Viewings.                                                               *)

DoingType == Works \cup ChangeWorks \cup {Idle}

LEMMA DoingFacts ==
  ASSUME TypeOK, NEW r \in Requests
  PROVE  /\ doing[r] \in DoingType
         /\ doing[r].pc \in {"lock", "check", "write"} => doing[r] \in Works
         /\ doing[r].pc = "change" => doing[r] \in ChangeWorks
         /\ \A x : [doing EXCEPT ![r] = x][r] = x
         /\ \A x : \A q \in Requests \ {r} : [doing EXCEPT ![r] = x][q] = doing[q]
         /\ \A x \in DoingType : [doing EXCEPT ![r] = x] \in [Requests -> DoingType]
  BY DEF TypeOK, DoingType, Works, ChangeWorks, Idle

LEMMA IdleFacts == Idle \in DoingType /\ Idle.pc = "idle"
  BY DEF DoingType, Idle

LEMMA ViewingFacts ==
  ASSUME TypeOK, NEW v \in Ids
  PROVE  /\ v \in Made => viewings[v] \in Bookings
         /\ v \in Made <=> viewings[v].status # "none"
         /\ v \in ActiveViewings <=> viewings[v].status \in Active
         /\ \A x : [viewings EXCEPT ![v] = x][v] = x
         /\ \A x : \A w \in Ids \ {v} : [viewings EXCEPT ![v] = x][w] = viewings[w]
         /\ \A x \in Bookings : [viewings EXCEPT ![v] = x] \in [Ids -> Bookings \cup {NoViewing}]
<1>1. viewings[v] \in Bookings \cup {NoViewing}
  BY DEF TypeOK
<1>2. "none" \notin Active /\ NoViewing.status = "none"
  BY DEF Active, NoViewing
<1>3. \A b \in Bookings : b.status # "none"
  BY DEF Bookings, Targets, Active
<1> QED BY <1>1, <1>2, <1>3 DEF Made, ActiveViewings, TypeOK

(* A request that goes on keeps what it asks for.                          *)
Same(a, b) ==
  /\ a.moves = b.moves /\ a.from = b.from /\ a.to = b.to /\ a.key = b.key
  /\ a.agent = b.agent /\ a.property = b.property /\ a.prospect = b.prospect

LEMMA GoesFacts ==
  ASSUME TypeOK, NEW r \in Requests, doing[r] \in Works, NEW pc \in {"lock", "check", "write"},
         Goes(r, pc)
  PROVE  /\ doing' \in [Requests -> DoingType]
         /\ doing'[r].pc = pc /\ Same(doing'[r], doing[r])
         /\ \A q \in Requests \ {r} : doing'[q] = doing[q]
<1> DEFINE x == [doing[r] EXCEPT !.pc = pc]
<1>1. doing' = [doing EXCEPT ![r] = x]
  BY DEF Goes
<1>2. x \in Works /\ x.pc = pc /\ Same(x, doing[r])
  BY DEF Works, Same
<1>3. x \in DoingType
  BY <1>2 DEF DoingType
<1> HIDE DEF x
<1> QED BY <1>1, <1>2, <1>3, DoingFacts

LEMMA AsksFacts ==
  ASSUME TypeOK, NEW r \in Requests, NEW work \in DoingType, Asks(r, work)
  PROVE  /\ doing' \in [Requests -> DoingType] /\ doing'[r] = work /\ doing[r] = Idle
         /\ \A q \in Requests \ {r} : doing'[q] = doing[q]
         /\ asks' \in 0..MaxAsks
         /\ UNCHANGED <<clock, viewings, reminders, reminded, warned>>
<1>1. asks' \in 0..MaxAsks
  BY ViewingsAssumption DEF Asks, TypeOK
<1> QED BY <1>1, DoingFacts DEF Asks

LEMMA EndsFacts ==
  ASSUME TypeOK, NEW r \in Requests, Ends(r)
  PROVE  /\ doing' \in [Requests -> DoingType] /\ doing'[r] = Idle
         /\ \A q \in Requests \ {r} : doing'[q] = doing[q]
  BY DoingFacts, IdleFacts DEF Ends

(* What Books and Moves ask for.                                           *)
LEMMA BooksFacts ==
  ASSUME TypeOK, NEW r \in Requests, Books(r) \/ Moves(r)
  PROVE  \E work \in Works :
           /\ work.pc = "lock" /\ Asks(r, work)
           /\ \/ work.moves = NoKey
              \/ /\ work.moves \in ActiveViewings
                 /\ work.agent = viewings[work.moves].agent
                 /\ work.property = viewings[work.moves].property
                 /\ work.prospect = viewings[work.moves].prospect
<1>0. \A s \in Stretches : s[1] \in Times /\ s[2] \in Times
  BY DEF Stretches
<1>1. CASE Books(r)
  <2>1. PICK agent \in Agents, property \in Properties, prospect \in Prospects,
             s \in Stretches, key \in Keys \cup {NoKey} :
          Asks(r, [pc |-> "lock", moves |-> NoKey, from |-> s[1], to |-> s[2], key |-> key,
                   agent |-> agent, property |-> property, prospect |-> prospect])
    BY <1>1 DEF Books
  <2> DEFINE work == [pc |-> "lock", moves |-> NoKey, from |-> s[1], to |-> s[2], key |-> key,
                      agent |-> agent, property |-> property, prospect |-> prospect]
  <2>2. work \in Works /\ work.pc = "lock" /\ work.moves = NoKey
    BY <1>0 DEF Works
  <2>3. Asks(r, work)
    BY <2>1
  <2> HIDE DEF work
  <2> QED BY <2>2, <2>3
<1>2. CASE Moves(r)
  <2>1. PICK v \in ActiveViewings, s \in Stretches :
          Asks(r, [pc |-> "lock", moves |-> v, from |-> s[1], to |-> s[2],
                   key |-> viewings[v].key, agent |-> viewings[v].agent,
                   property |-> viewings[v].property, prospect |-> viewings[v].prospect])
    BY <1>2 DEF Moves
  <2> DEFINE work == [pc |-> "lock", moves |-> v, from |-> s[1], to |-> s[2],
                      key |-> viewings[v].key, agent |-> viewings[v].agent,
                      property |-> viewings[v].property, prospect |-> viewings[v].prospect]
  <2>2. viewings[v] \in Bookings /\ v \in Ids
    BY ViewingFacts DEF ActiveViewings, Made
  <2>3. /\ work \in Works /\ work.pc = "lock" /\ work.moves = v
        /\ work.agent = viewings[v].agent /\ work.property = viewings[v].property
        /\ work.prospect = viewings[v].prospect
    BY <1>0, <2>2 DEF Works, Bookings
  <2>4. Asks(r, work)
    BY <2>1
  <2> HIDE DEF work
  <2> QED BY <2>3, <2>4
<1> QED BY <1>1, <1>2

-----------------------------------------------------------------------------
(* A request writes its viewing: a new one, or the one it moves.           *)
Placed(r, v) ==
  /\ v \in Ids
  /\ doing[r] \in Works /\ doing[r].pc = "write"
  /\ \/ doing[r].moves = NoKey /\ v \notin Made
     \/ doing[r].moves = v /\ v \in Made
  /\ viewings' \in [Ids -> Bookings \cup {NoViewing}]
  /\ viewings'[v].status = "scheduled"
  /\ viewings'[v].from = doing[r].from /\ viewings'[v].to = doing[r].to
  /\ viewings'[v].agent = doing[r].agent /\ viewings'[v].property = doing[r].property
  /\ viewings'[v].prospect = doing[r].prospect
  /\ \A w \in Ids \ {v} : viewings'[w] = viewings[w]

LEMMA InsertsFacts ==
  ASSUME TypeOK, NEW r \in Requests, Inserts(r)
  PROVE  UNCHANGED viewings \/ \E v \in Ids : Placed(r, v)
<1> DEFINE work == doing[r]
           b == [status |-> "scheduled", from |-> work.from, to |-> work.to, key |-> work.key,
                 agent |-> work.agent, property |-> work.property, prospect |-> work.prospect]
<1>0. work \in Works /\ work.pc = "write" /\ work.moves = NoKey
  BY DoingFacts DEF Inserts
<1>1. ASSUME NEW v \in Ids \ Made, viewings' = [viewings EXCEPT ![v] = b]
      PROVE  Placed(r, v)
  <2>1. /\ b \in Bookings /\ b.status = "scheduled" /\ b.from = work.from /\ b.to = work.to
        /\ b.agent = work.agent /\ b.property = work.property /\ b.prospect = work.prospect
    BY <1>0 DEF Works, Bookings, Active
  <2> HIDE DEF b
  <2> QED BY <1>0, <1>1, <2>1, ViewingFacts DEF Placed
<1> QED BY <1>1 DEF Inserts

LEMMA RewritesFacts ==
  ASSUME TypeOK, MoveInv, NEW r \in Requests, Rewrites(r)
  PROVE  Placed(r, doing[r].moves)
<1> DEFINE work == doing[r]
           v == work.moves
           b == [viewings[v] EXCEPT !.status = "scheduled", !.from = work.from, !.to = work.to]
<1>0. /\ work \in Works /\ work.pc = "write" /\ v \in Ids /\ v # NoKey
      /\ viewings' = [viewings EXCEPT ![v] = b]
  <2>1. work.pc = "write" /\ v # NoKey
    BY DEF Rewrites
  <2>2. work \in Works /\ v \in Ids
    BY <2>1, DoingFacts DEF Works
  <2>3. viewings' = [viewings EXCEPT ![v] = b]
    BY <2>2 DEF Rewrites, TypeOK
  <2> QED BY <2>1, <2>2, <2>3
<1>1. /\ v \in Made /\ viewings[v] \in Bookings
      /\ viewings[v].agent = work.agent /\ viewings[v].property = work.property
      /\ viewings[v].prospect = work.prospect
  BY <1>0, ViewingFacts DEF MoveInv
<1>2. /\ b \in Bookings /\ b.status = "scheduled" /\ b.from = work.from /\ b.to = work.to
      /\ b.agent = work.agent /\ b.property = work.property /\ b.prospect = work.prospect
  BY <1>0, <1>1 DEF Works, Bookings, Active
<1> HIDE DEF b
<1> QED BY <1>0, <1>1, <1>2, ViewingFacts DEF Placed

(* A change of status: of an active viewing, which no move is about to     *)
(* write, and of nothing but its status.                                   *)
Marked(v) ==
  /\ v \in ActiveViewings
  /\ \A q \in Requests : doing[q].pc = "write" => doing[q].moves # v
  /\ viewings' \in [Ids -> Bookings \cup {NoViewing}]
  /\ viewings'[v].status # "none"
  /\ viewings'[v].from = viewings[v].from /\ viewings'[v].to = viewings[v].to
  /\ viewings'[v].agent = viewings[v].agent /\ viewings'[v].property = viewings[v].property
  /\ viewings'[v].prospect = viewings[v].prospect
  /\ \A w \in Ids \ {v} : viewings'[w] = viewings[w]

LEMMA ChangesFacts ==
  ASSUME TypeOK, NEW r \in Requests, Changes(r)
  PROVE  UNCHANGED viewings \/ \E v \in Ids : Marked(v)
<1> DEFINE v == doing[r].of
           target == doing[r].target
           b == [viewings[v] EXCEPT !.status = target]
<1>0. v \in Ids /\ target \in Targets /\ ~RowLocked(v)
  BY DoingFacts DEF Changes, ChangeWorks
<1>1. ASSUME MayStill(v, target), viewings' = [viewings EXCEPT ![v] = b]
      PROVE  Marked(v)
  <2>1. v \in ActiveViewings /\ viewings[v] \in Bookings
    <3>1. viewings[v].status \in Active
      BY <1>1 DEF MayStill, Transitions, Active
    <3> QED BY <1>0, <3>1, ViewingFacts DEF ActiveViewings
  <2>2. /\ b \in Bookings /\ b.status # "none" /\ b.from = viewings[v].from /\ b.to = viewings[v].to
        /\ b.agent = viewings[v].agent /\ b.property = viewings[v].property
        /\ b.prospect = viewings[v].prospect
    BY <1>0, <2>1 DEF Bookings, Targets
  <2> HIDE DEF b
  <2> QED BY <1>0, <1>1, <2>1, <2>2, ViewingFacts DEF Marked, RowLocked
<1> QED BY <1>0, <1>1 DEF Changes

(* Steps that book, move or change nothing.                                *)
Apart ==
  /\ UNCHANGED <<viewings, doing>>
  /\ clock' \in 0..MaxTime /\ asks' \in 0..MaxAsks
  /\ reminders' \in [Ids -> [done : BOOLEAN, claimed : SUBSET {"upcoming", "due"}]]
  /\ reminded' \in [Ids -> 0..MaxTime] /\ warned' \in [Ids -> 0..MaxTime]

LEMMA ApartFacts ==
  ASSUME TypeOK, Tick \/ (\E v \in Ids : Warns(v) \/ Reminds(v)) \/ UNCHANGED vars
  PROVE  Apart
<1> USE DEF Apart, TypeOK
<1>1. CASE Tick
  BY <1>1, ViewingsAssumption DEF Tick
<1>2. ASSUME NEW v \in Ids, Warns(v) \/ Reminds(v) PROVE Apart
  <2>1. v \in Made /\ UNCHANGED <<clock, viewings, doing, asks>>
    BY <1>2 DEF Warns, Reminds, Told
  <2>2. viewings[v].from \in 0..MaxTime
    BY <2>1, ViewingFacts DEF Bookings, Times
  <2>3. reminders' \in [Ids -> [done : BOOLEAN, claimed : SUBSET {"upcoming", "due"}]]
    BY <1>2 DEF Warns, Reminds, Told
  <2>4. reminded' \in [Ids -> 0..MaxTime] /\ warned' \in [Ids -> 0..MaxTime]
    BY <1>2, <2>2 DEF Warns, Reminds
  <2> QED BY <2>1, <2>3, <2>4
<1>3. CASE UNCHANGED vars
  BY <1>3 DEF vars
<1> QED BY <1>1, <1>2, <1>3

(* The steps of a request, as the rest of the proof sees them.             *)
Started(r) ==
  /\ doing[r] = Idle /\ UNCHANGED viewings
  /\ \/ doing'[r] \in ChangeWorks
     \/ /\ doing'[r] \in Works /\ doing'[r].pc = "lock"
        /\ \/ doing'[r].moves = NoKey
           \/ /\ doing'[r].moves \in ActiveViewings
              /\ doing'[r].agent = viewings[doing'[r].moves].agent
              /\ doing'[r].property = viewings[doing'[r].moves].property
              /\ doing'[r].prospect = viewings[doing'[r].moves].prospect

Advanced(r) ==
  /\ doing[r] \in Works /\ UNCHANGED viewings /\ Same(doing'[r], doing[r])
  /\ \/ doing'[r].pc = "check" /\ ~Locked(doing[r])
     \/ /\ doing[r].pc = "check" /\ doing'[r].pc = "write" /\ Conflicts(doing[r]) = {}
        /\ doing[r].moves # NoKey => ~Gone(doing[r])

Ended(r) ==
  /\ doing'[r] = Idle
  /\ \/ UNCHANGED viewings
     \/ \E v \in Ids : Placed(r, v)
     \/ \E v \in Ids : Marked(v)

Request(r) ==
  \/ Books(r) \/ Moves(r) \/ Locks(r) \/ Checks(r) \/ Inserts(r) \/ Rewrites(r)
  \/ FindsToChange(r) \/ Changes(r)

LEMMA RequestFacts ==
  ASSUME TypeOK, MoveInv, NEW r \in Requests, Request(r)
  PROVE  /\ TypeOK'
         /\ \A q \in Requests \ {r} : doing'[q] = doing[q]
         /\ Started(r) \/ Advanced(r) \/ Ended(r)
<1> DEFINE Rest == /\ clock' \in 0..MaxTime /\ asks' \in 0..MaxAsks
                   /\ reminders' \in [Ids -> [done : BOOLEAN, claimed : SUBSET {"upcoming", "due"}]]
                   /\ reminded' \in [Ids -> 0..MaxTime] /\ warned' \in [Ids -> 0..MaxTime]
           Others == \A q \in Requests \ {r} : doing'[q] = doing[q]
<1>0. ASSUME doing' \in [Requests -> DoingType],
             viewings' \in [Ids -> Bookings \cup {NoViewing}], Rest
      PROVE  TypeOK'
  BY <1>0 DEF TypeOK, DoingType
<1>1. CASE Books(r) \/ Moves(r)
  <2>1. PICK work \in Works :
           /\ work.pc = "lock" /\ Asks(r, work)
           /\ \/ work.moves = NoKey
              \/ /\ work.moves \in ActiveViewings
                 /\ work.agent = viewings[work.moves].agent
                 /\ work.property = viewings[work.moves].property
                 /\ work.prospect = viewings[work.moves].prospect
    BY <1>1, BooksFacts
  <2>2. work \in DoingType
    BY DEF DoingType
  <2>3. TypeOK' /\ Others
    BY <1>0, <2>1, <2>2, AsksFacts DEF TypeOK
  <2>4. Started(r)
    BY <2>1, <2>2, AsksFacts DEF Started
  <2> QED BY <2>3, <2>4
<1>2. CASE FindsToChange(r)
  <2>1. PICK v \in Made, target \in Targets : Asks(r, [pc |-> "change", of |-> v, target |-> target])
    BY <1>2 DEF FindsToChange
  <2> DEFINE work == [pc |-> "change", of |-> v, target |-> target]
  <2>2. work \in ChangeWorks /\ Asks(r, work)
    BY <2>1 DEF ChangeWorks, Made
  <2> HIDE DEF work
  <2>3. work \in DoingType
    BY <2>2 DEF DoingType
  <2>4. TypeOK' /\ Others
    BY <1>0, <2>2, <2>3, AsksFacts DEF TypeOK
  <2>5. Started(r)
    BY <2>2, <2>3, AsksFacts DEF Started
  <2> QED BY <2>4, <2>5
<1>3. CASE Locks(r)
  <2>1. /\ doing[r] \in Works /\ Goes(r, "check") /\ ~Locked(doing[r])
        /\ UNCHANGED <<clock, viewings, reminders, reminded, warned, asks>>
    BY <1>3, DoingFacts DEF Locks
  <2>2. /\ doing' \in [Requests -> DoingType] /\ Others
        /\ doing'[r].pc = "check" /\ Same(doing'[r], doing[r])
    BY <2>1, GoesFacts
  <2> QED BY <1>0, <2>1, <2>2 DEF Advanced, TypeOK
<1>4. CASE Checks(r)
  <2>1. /\ doing[r] \in Works /\ doing[r].pc = "check"
        /\ UNCHANGED <<clock, viewings, reminders, reminded, warned, asks>>
    BY <1>4, DoingFacts DEF Checks
  <2>2. CASE Ends(r)
    BY <1>0, <2>1, <2>2, EndsFacts DEF Ended, TypeOK
  <2>3. CASE /\ Goes(r, "write") /\ Conflicts(doing[r]) = {}
             /\ doing[r].moves # NoKey => ~Gone(doing[r])
    <3>1. /\ doing' \in [Requests -> DoingType] /\ Others
          /\ doing'[r].pc = "write" /\ Same(doing'[r], doing[r])
      BY <2>1, <2>3, GoesFacts
    <3> QED BY <1>0, <2>1, <2>3, <3>1 DEF Advanced, TypeOK
  <2> QED BY <1>4, <2>2, <2>3 DEF Checks
<1>5. CASE Inserts(r) \/ Rewrites(r) \/ Changes(r)
  <2>1. Ends(r) /\ UNCHANGED <<clock, reminded, warned, asks>>
    BY <1>5 DEF Inserts, Rewrites, Changes
  <2>2. doing'[r] = Idle /\ Others /\ doing' \in [Requests -> DoingType]
    BY <2>1, EndsFacts
  <2>3. UNCHANGED viewings \/ (\E v \in Ids : Placed(r, v)) \/ (\E v \in Ids : Marked(v))
    <3>1. CASE Inserts(r)
      BY <3>1, InsertsFacts
    <3>2. CASE Rewrites(r)
      BY <3>2, RewritesFacts DEF Placed
    <3>3. CASE Changes(r)
      BY <3>3, ChangesFacts
    <3> QED BY <1>5, <3>1, <3>2, <3>3
  <2>4. viewings' \in [Ids -> Bookings \cup {NoViewing}]
    BY <2>3 DEF Placed, Marked, TypeOK
  <2>5. reminders' \in [Ids -> [done : BOOLEAN, claimed : SUBSET {"upcoming", "due"}]]
    <3>1. \A v \in Ids : AskedAgain(reminders[v]) \in [done : BOOLEAN, claimed : SUBSET {"upcoming", "due"}]
      BY DEF AskedAgain, TypeOK
    <3>2. CASE Rewrites(r)
      <4>1. doing[r].moves \in Ids
        BY <3>2, DoingFacts DEF Rewrites, Works
      <4>2. reminders' = [reminders EXCEPT ![doing[r].moves] = AskedAgain(reminders[doing[r].moves])]
        BY <3>2 DEF Rewrites
      <4> QED BY <3>1, <4>1, <4>2 DEF TypeOK
    <3>3. CASE Inserts(r)
      BY <3>3 DEF Inserts, TypeOK
    <3>4. CASE Changes(r)
      <4>1. CASE UNCHANGED reminders
        BY <4>1 DEF TypeOK
      <4>2. CASE reminders' = [reminders EXCEPT ![doing[r].of].done = TRUE]
        BY <4>2 DEF TypeOK
      <4> QED BY <3>4, <4>1, <4>2 DEF Changes
    <3> QED BY <1>5, <3>2, <3>3, <3>4
  <2> QED BY <1>0, <2>1, <2>2, <2>3, <2>4, <2>5 DEF Ended, TypeOK
<1> QED BY <1>1, <1>2, <1>3, <1>4, <1>5 DEF Request

LEMMA NextSteps ==
  [Next]_vars => \/ Tick \/ (\E v \in Ids : Warns(v) \/ Reminds(v)) \/ UNCHANGED vars
                 \/ \E r \in Requests : Request(r)
  BY DEF Next, Request

-----------------------------------------------------------------------------
LEMMA SharedFacts ==
  /\ \A a, b : Shared(a, b) <=> Shared(b, a)
  /\ \A a, b, c : Same(a, b) => (Shared(a, c) <=> Shared(b, c))
  /\ \A a, b : Overlap(a, b) <=> Overlap(b, a)
  BY DEF Shared, Same, Overlap

(* A viewing that a request has written stands where the request asked;    *)
(* one that was marked stands where it stood.                              *)
Alike(a, b) ==
  /\ a.from = b.from /\ a.to = b.to
  /\ a.agent = b.agent /\ a.property = b.property /\ a.prospect = b.prospect

LEMMA WrittenAlike ==
  /\ \A r \in Requests, v \in Ids : Placed(r, v) => Alike(viewings'[v], doing[r])
  /\ \A v \in Ids : Marked(v) => Alike(viewings'[v], viewings[v])
  BY DEF Placed, Marked, Alike

LEMMA ActiveAfter ==
  ASSUME TypeOK, TypeOK', NEW v \in Ids, \A w \in Ids \ {v} : viewings'[w] = viewings[w]
  PROVE  /\ ActiveViewings' \subseteq ActiveViewings \cup {v}
         /\ Made \ {v} = Made' \ {v}
  BY DEF ActiveViewings, Made

(* Locks: a request passes with its three locks only while no other that   *)
(* holds one of them has still to write.                                   *)
LEMMA LockNext ==
  ASSUME TypeOK, MoveInv, LockInv, NEW r \in Requests, Request(r) PROVE LockInv'
<1>0. \A q \in Requests \ {r} : doing'[q] = doing[q]
  BY RequestFacts
<1>1. ASSUME NEW q \in Requests \ {r}, Holding(r)', Holding(q)
      PROVE  ~Shared(doing'[r], doing[q])
  <2>1. Advanced(r)
    BY <1>1, RequestFacts, IdleFacts DEF Started, Ended, Holding, ChangeWorks
  <2>2. Same(doing'[r], doing[r])
    BY <2>1 DEF Advanced
  <2>3. CASE ~Locked(doing[r])
    BY <1>1, <2>2, <2>3, SharedFacts DEF Locked, Holding
  <2>4. CASE doing[r].pc = "check"
    BY <1>1, <2>2, <2>4, SharedFacts DEF LockInv, Holding
  <2> QED BY <2>1, <2>3, <2>4 DEF Advanced
<1>2. ASSUME NEW p \in Requests, NEW q \in Requests, p # q, Holding(p)', Holding(q)'
      PROVE  ~Shared(doing'[p], doing'[q])
  <2>1. CASE p = r
    BY <1>0, <1>1, <1>2, <2>1 DEF Holding
  <2>2. CASE q = r
    BY <1>0, <1>1, <1>2, <2>2, SharedFacts DEF Holding
  <2>3. CASE p # r /\ q # r
    BY <1>0, <1>2, <2>3 DEF LockInv, Holding
  <2> QED BY <2>1, <2>2, <2>3
<1> QED BY <1>2 DEF LockInv

(* A request that moves a viewing knows whose it is.                       *)
LEMMA MoveNext ==
  ASSUME TypeOK, MoveInv, LockInv, NEW r \in Requests, Request(r) PROVE MoveInv'
<1> DEFINE Fits(q) == LET v == viewings[doing[q].moves] IN
                      /\ v.status /= "none"
                      /\ v.agent = doing[q].agent /\ v.property = doing[q].property
                      /\ v.prospect = doing[q].prospect
           Asked(q) == doing[q].pc \in {"lock", "check", "write"} /\ doing[q].moves /= NoKey
<1>0. TypeOK' /\ \A q \in Requests \ {r} : doing'[q] = doing[q]
  BY RequestFacts
<1>1. ASSUME NEW v \in Made
      PROVE  /\ viewings'[v].status # "none"
             /\ viewings'[v].agent = viewings[v].agent
             /\ viewings'[v].property = viewings[v].property
             /\ viewings'[v].prospect = viewings[v].prospect
  <2>0. v \in Ids /\ viewings[v].status # "none"
    BY DEF Made
  <2>1. CASE UNCHANGED viewings
    BY <2>0, <2>1
  <2>2. ASSUME NEW w \in Ids, Placed(r, w) PROVE <1>1!2
    <3>1. CASE w = v
      <4>1. doing[r].moves = v /\ doing[r].pc = "write" /\ v # NoKey
        BY <2>2, <3>1, ViewingsAssumption DEF Placed, Made
      <4> QED BY <2>2, <3>1, <4>1 DEF Placed, MoveInv
    <3>2. CASE w # v
      BY <2>0, <2>2, <3>2 DEF Placed
    <3> QED BY <3>1, <3>2
  <2>3. ASSUME NEW w \in Ids, Marked(w) PROVE <1>1!2
    BY <2>0, <2>3 DEF Marked
  <2> QED BY <2>1, <2>2, <2>3, RequestFacts DEF Started, Advanced, Ended
<1>2. ASSUME NEW q \in Requests, Asked(q), doing'[q] = doing[q] \/ Same(doing'[q], doing[q])
      PROVE  Fits(q)'
  <2>1. doing[q] \in Works /\ doing[q].moves \in Made
    BY <1>2, DoingFacts DEF Works, MoveInv, Made
  <2>2. doing'[q].moves = doing[q].moves /\ doing'[q].agent = doing[q].agent
        /\ doing'[q].property = doing[q].property /\ doing'[q].prospect = doing[q].prospect
    BY <1>2 DEF Same
  <2> QED BY <1>1, <1>2, <2>1, <2>2 DEF MoveInv
<1>3. ASSUME NEW q \in Requests, Asked(q)' PROVE Fits(q)'
  <2>1. CASE q # r
    BY <1>0, <1>2, <1>3, <2>1
  <2>2. CASE q = r /\ Started(r)
    <3>1. doing'[r].pc # "change"
      BY <1>3, <2>2
    <3> QED BY <1>3, <2>2, <3>1, ViewingFacts DEF Started, ChangeWorks, ActiveViewings, Made
  <2>3. CASE q = r /\ Advanced(r)
    <3>1. Asked(r)
      BY <1>3, <2>3 DEF Advanced, Same, Works
    <3> QED BY <1>2, <2>3, <3>1 DEF Advanced
  <2>4. CASE q = r /\ Ended(r)
    BY <1>3, <2>4, IdleFacts DEF Ended
  <2> QED BY <2>1, <2>2, <2>3, <2>4, RequestFacts
<1> QED BY <1>3 DEF MoveInv

(* What a request found free when it checked stays free until it writes:   *)
(* whoever places a viewing holds locks of its own, and a change of status *)
(* only frees.                                                             *)
LEMMA WriteNext ==
  ASSUME TypeOK, MoveInv, LockInv, WriteInv, NEW r \in Requests, Request(r) PROVE WriteInv'
<1> DEFINE Kept(q) == doing[q].moves # NoKey => viewings'[doing[q].moves].status \in Active
           Free(q) == \A v \in ActiveViewings' \ {doing[q].moves} :
                        ~(Overlap(viewings'[v], doing[q]) /\ Shared(viewings'[v], doing[q]))
<1>0. TypeOK' /\ \A q \in Requests \ {r} : doing'[q] = doing[q]
  BY RequestFacts
<1>1. ASSUME NEW q \in Requests \ {r}, doing[q].pc = "write", Ended(r)
      PROVE  Free(q) /\ Kept(q)
  <2>0. /\ doing[q] \in Works
        /\ \A v \in ActiveViewings \ {doing[q].moves} :
             ~(Overlap(viewings[v], doing[q]) /\ Shared(viewings[v], doing[q]))
        /\ doing[q].moves # NoKey => /\ viewings[doing[q].moves].status \in Active
                                    /\ doing[q].moves \in Ids
    BY <1>1, DoingFacts DEF WriteInv, Conflicts, Gone, Works
  <2>1. CASE UNCHANGED viewings
    BY <2>0, <2>1 DEF ActiveViewings, Made
  <2>2. ASSUME NEW w \in Ids, Placed(r, w) PROVE Free(q) /\ Kept(q)
    <3>1. ~Shared(viewings'[w], doing[q])
      <4>1. Holding(q) /\ Holding(r)
        BY <1>1, <2>2 DEF Holding, Placed
      <4>2. ~Shared(doing[r], doing[q])
        BY <4>1 DEF LockInv
      <4> QED BY <2>2, <4>2, WrittenAlike DEF Alike, Shared
    <3>2. /\ ActiveViewings' \subseteq ActiveViewings \cup {w}
          /\ \A v \in Ids \ {w} : viewings'[v] = viewings[v]
          /\ viewings'[w].status \in Active
      BY <1>0, <2>2, ActiveAfter DEF Placed, Active
    <3>3. ActiveViewings' \subseteq Ids
      BY DEF ActiveViewings, Made
    <3>4. Free(q)
      BY <2>0, <3>1, <3>2, <3>3
    <3>5. Kept(q)
      BY <2>0, <3>2
    <3> QED BY <3>4, <3>5
  <2>3. ASSUME NEW w \in Ids, Marked(w) PROVE Free(q) /\ Kept(q)
    <3>1. /\ ActiveViewings' \subseteq ActiveViewings
          /\ \A v \in Ids \ {w} : viewings'[v] = viewings[v]
      BY <1>0, <2>3, ActiveAfter DEF Marked
    <3>2. doing[q].moves # w
      BY <1>1, <2>3 DEF Marked
    <3>3. ActiveViewings \subseteq Ids
      BY DEF ActiveViewings, Made
    <3>4. ASSUME NEW v \in ActiveViewings' \ {doing[q].moves}
          PROVE  ~(Overlap(viewings'[v], doing[q]) /\ Shared(viewings'[v], doing[q]))
      <4>1. ~(Overlap(viewings[v], doing[q]) /\ Shared(viewings[v], doing[q]))
        BY <2>0, <3>1
      <4>2. viewings'[v] = viewings[v] \/ Alike(viewings'[v], viewings[v])
        BY <2>3, <3>1, <3>3, WrittenAlike
      <4> QED BY <4>1, <4>2 DEF Alike, Shared, Overlap
    <3>5. Kept(q)
      BY <2>0, <3>1, <3>2
    <3> QED BY <3>4, <3>5
  <2> QED BY <1>1, <2>1, <2>2, <2>3 DEF Ended
<1>2. ASSUME NEW q \in Requests, doing'[q].pc = "write"
      PROVE  /\ \A v \in ActiveViewings' \ {doing'[q].moves} :
                  ~(Overlap(viewings'[v], doing'[q]) /\ Shared(viewings'[v], doing'[q]))
             /\ doing'[q].moves # NoKey => viewings'[doing'[q].moves].status \in Active
  <2>1. CASE q # r /\ Ended(r)
    BY <1>0, <1>1, <1>2, <2>1
  <2>2. CASE q # r /\ UNCHANGED viewings
    BY <1>0, <1>2, <2>2 DEF WriteInv, Conflicts, Gone, ActiveViewings, Made
  <2>3. CASE q = r
    <3>1. Advanced(r) /\ doing[r].pc = "check" /\ Conflicts(doing[r]) = {}
          /\ (doing[r].moves # NoKey => ~Gone(doing[r]))
      BY <1>2, <2>3, RequestFacts, IdleFacts DEF Started, Advanced, Ended, ChangeWorks
    <3>2. \A v \in ActiveViewings \ {doing[r].moves} :
            ~(Overlap(viewings[v], doing[r]) /\ Shared(viewings[v], doing[r]))
      BY <3>1 DEF Conflicts
    <3>3. Alike(doing'[r], doing[r])
      BY <3>1 DEF Advanced, Same, Alike
    <3>4. UNCHANGED viewings /\ ActiveViewings' = ActiveViewings /\ doing'[r].moves = doing[r].moves
      BY <3>1 DEF Advanced, Same, ActiveViewings, Made
    <3>5. \A v \in ActiveViewings' \ {doing'[r].moves} :
            ~(Overlap(viewings'[v], doing'[r]) /\ Shared(viewings'[v], doing'[r]))
      BY <3>2, <3>3, <3>4 DEF Alike, Shared, Overlap
    <3> QED BY <2>3, <3>1, <3>4, <3>5 DEF Gone
  <2> QED BY <2>1, <2>2, <2>3, RequestFacts DEF Started, Advanced
<1> QED BY <1>2 DEF WriteInv, Conflicts, Gone

(* A viewing is placed where nothing it shares anyone with overlaps it.    *)
LEMMA NeverNext ==
  ASSUME TypeOK, MoveInv, LockInv, WriteInv, NeverTwiceAtOnce, NEW r \in Requests, Request(r)
  PROVE  NeverTwiceAtOnce'
<1>0. TypeOK' /\ ActiveViewings \subseteq Ids /\ ActiveViewings' \subseteq Ids
  BY RequestFacts DEF ActiveViewings, Made
<1> DEFINE Clash(a, b) == Overlap(a, b) /\ Shared(a, b)
<1>1. CASE UNCHANGED viewings
  BY <1>1 DEF NeverTwiceAtOnce, ActiveViewings, Made
<1>2. ASSUME NEW u \in Ids, Placed(r, u) PROVE NeverTwiceAtOnce'
  <2>1. /\ ActiveViewings' \subseteq ActiveViewings \cup {u}
        /\ \A v \in Ids \ {u} : viewings'[v] = viewings[v]
    BY <1>0, <1>2, ActiveAfter DEF Placed
  <2>2. ASSUME NEW v \in ActiveViewings' \ {u} PROVE ~Clash(viewings'[u], viewings'[v])
    <3>1. v \in ActiveViewings \ {doing[r].moves} /\ v \in Ids \ {u}
      BY <1>0, <1>2, <2>1, ViewingsAssumption DEF Placed
    <3>2. ~Clash(viewings[v], doing[r])
      BY <1>2, <3>1 DEF WriteInv, Conflicts, Placed
    <3>3. viewings'[v] = viewings[v]
      BY <2>1, <3>1
    <3>4. Alike(viewings'[u], doing[r])
      BY <1>2, WrittenAlike
    <3> QED BY <3>2, <3>3, <3>4 DEF Alike, Shared, Overlap
  <2>3. ASSUME NEW v \in ActiveViewings', NEW w \in ActiveViewings', v # w
        PROVE  ~Clash(viewings'[v], viewings'[w])
    <3>1. CASE v = u
      BY <2>2, <2>3, <3>1
    <3>2. CASE w = u
      BY <2>2, <2>3, <3>2, SharedFacts
    <3>3. CASE v # u /\ w # u
      BY <1>0, <2>1, <2>3, <3>3 DEF NeverTwiceAtOnce
    <3> QED BY <3>1, <3>2, <3>3
  <2> QED BY <2>3 DEF NeverTwiceAtOnce
<1>3. ASSUME NEW u \in Ids, Marked(u) PROVE NeverTwiceAtOnce'
  <2>1. /\ ActiveViewings' \subseteq ActiveViewings
        /\ \A v \in Ids \ {u} : viewings'[v] = viewings[v]
    BY <1>0, <1>3, ActiveAfter DEF Marked
  <2>2. ASSUME NEW v \in ActiveViewings', NEW w \in ActiveViewings', v # w
        PROVE  ~Clash(viewings'[v], viewings'[w])
    <3>1. ~Clash(viewings[v], viewings[w])
      BY <2>1, <2>2 DEF NeverTwiceAtOnce
    <3>2. \A x \in Ids : viewings'[x] = viewings[x] \/ Alike(viewings'[x], viewings[x])
      BY <1>3, <2>1, WrittenAlike
    <3>3. v \in Ids /\ w \in Ids
      BY <1>0
    <3>4. /\ viewings'[v] = viewings[v] \/ Alike(viewings'[v], viewings[v])
          /\ viewings'[w] = viewings[w] \/ Alike(viewings'[w], viewings[w])
      BY <3>2, <3>3
    <3> QED BY <3>1, <3>4 DEF Alike, Shared, Overlap
  <2> QED BY <2>2 DEF NeverTwiceAtOnce
<1> QED BY <1>1, <1>2, <1>3, RequestFacts DEF Started, Advanced, Ended

(* An ended viewing is neither moved nor marked.                           *)
LEMMA EndedNext ==
  ASSUME TypeOK, MoveInv, WriteInv, NEW r \in Requests, Request(r),
         NEW v \in Made \ ActiveViewings
  PROVE  viewings'[v] = viewings[v]
<1>0. v \in Ids /\ viewings[v].status \notin Active
  BY DEF Made, ActiveViewings
<1>1. ASSUME NEW u \in Ids, Placed(r, u) PROVE viewings'[v] = viewings[v]
  <2>1. u # v
    BY <1>0, <1>1, ViewingsAssumption DEF Placed, WriteInv, Gone
  <2> QED BY <1>0, <1>1, <2>1 DEF Placed
<1>2. ASSUME NEW u \in Ids, Marked(u) PROVE viewings'[v] = viewings[v]
  BY <1>0, <1>2 DEF Marked
<1> QED BY <1>1, <1>2, RequestFacts DEF Started, Advanced, Ended

IInv == TypeOK /\ LockInv /\ MoveInv /\ WriteInv /\ NeverTwiceAtOnce

LEMMA ApartKeeps == ASSUME IInv, Apart PROVE IInv'
<1> USE DEF IInv, Apart
<1>1. TypeOK'
  BY DEF TypeOK
<1>2. LockInv' /\ MoveInv'
  BY DEF LockInv, MoveInv, Holding
<1>3. ActiveViewings' = ActiveViewings
  BY DEF ActiveViewings, Made
<1>4. WriteInv' /\ NeverTwiceAtOnce'
  BY <1>3 DEF WriteInv, NeverTwiceAtOnce, Conflicts, Gone
<1> QED BY <1>1, <1>2, <1>4

LEMMA IInvNext == ASSUME IInv, [Next]_vars PROVE IInv'
<1>1. CASE \E r \in Requests : Request(r)
  BY <1>1, RequestFacts, LockNext, MoveNext, WriteNext, NeverNext DEF IInv
<1> QED BY <1>1, NextSteps, ApartFacts, ApartKeeps DEF IInv

LEMMA IInvInit == Init => IInv
<1> SUFFICES ASSUME Init PROVE IInv
  OBVIOUS
<1>1. TypeOK
  BY ViewingsAssumption DEF Init, TypeOK
<1>2. \A r \in Requests : doing[r].pc = "idle"
  BY IdleFacts DEF Init
<1>3. Made = {} /\ ActiveViewings = {}
  BY DEF Init, Made, ActiveViewings, NoViewing
<1> QED BY <1>1, <1>2, <1>3 DEF IInv, LockInv, MoveInv, WriteInv, NeverTwiceAtOnce, Holding

(* Times, works and viewings stay in their ranges.                         *)
THEOREM TypeCorrect == Spec => []TypeOK
<1>1. IInv => TypeOK
  BY DEF IInv
<1> QED BY <1>1, IInvInit, IInvNext, PTL DEF Spec

(* No agent, property or lead is in two viewings at once, however many     *)
(* requests book, move, confirm and end them at the same time.             *)
THEOREM NeverTwiceAtOnceHolds == Spec => []NeverTwiceAtOnce
<1>1. IInv => NeverTwiceAtOnce
  BY DEF IInv
<1> QED BY <1>1, IInvInit, IInvNext, PTL DEF Spec

(* Completed, cancelled and no-show are final, whoever else is pressing.   *)
THEOREM EndedStaysHolds == Spec => EndedStays
<1> DEFINE Stays == \A v \in Made \ ActiveViewings : viewings'[v] = viewings[v]
<1>1. IInv /\ [Next]_vars => [Stays]_vars
  <2> SUFFICES ASSUME IInv, [Next]_vars PROVE Stays
    OBVIOUS
  <2>1. CASE \E r \in Requests : Request(r)
    BY <2>1, EndedNext DEF IInv
  <2>2. CASE Apart
    BY <2>2 DEF Apart
  <2> QED BY <2>1, <2>2, NextSteps, ApartFacts DEF IInv
<1> QED BY <1>1, IInvInit, IInvNext, PTL DEF Spec, EndedStays

-----------------------------------------------------------------------------
(* A behaviour of the desk is one of the part that runs.                   *)

(* Of viewings, MCDesk does what Viewings does, or nothing: what is proved *)
(* of that holds of it.                                                    *)
THEOREM RunsViewings == SpecMC => Spec
<1>1. InitMC => Init
  BY DEF InitMC
<1>2. [NextMC]_all => [Next]_vars
  BY DEF NextMC, all, viewing, vars
<1> QED BY <1>1, <1>2, PTL DEF SpecMC, Spec

LEMMA PartStep ==
  ASSUME [NextMC]_all
  PROVE  /\ part' = part
         /\ part = "viewing" => [Next]_vars
         /\ part = "sales" => [D!Next]_(D!vars)
         /\ part = "team" => [A!Next]_(A!vars)
         /\ part = "realtime" => [R!Next]_(R!vars)
         /\ part = "waiting" => [W!Next]_(W!vars)
         /\ part = "sync" => [S!Next]_(S!vars)
         /\ part = "followUp" => [F!Next]_(F!vars)
         /\ part = "preparation" => [P!Next]_(P!vars)
         /\ part = "label" => [T!Next]_(T!vars)
         /\ part = "listing" => [H!Next]_(H!vars)
         /\ part = "view" => [V!Next]_(V!vars)
         /\ part = "media" => [M!Next]_(M!vars)
<1>1. CASE NextMC
  BY <1>1 DEF NextMC
<1>2. CASE UNCHANGED all
  BY <1>2 DEF all, vars, viewing, sales, D!vars, team, A!vars, realtime, R!vars, waiting, W!vars, W!chat, W!auto,
              sync, S!vars, followUp, F!vars, preparation, P!vars, label, T!vars, listing, H!vars,
              view, V!vars, media, M!vars
<1> QED BY <1>1, <1>2

LEMMA PartInit ==
  ASSUME InitMC
  PROVE  /\ Init
         /\ part = "sales" => D!Init
         /\ part = "team" => A!Init
         /\ part = "realtime" => R!Init
         /\ part = "waiting" => W!Init
         /\ part = "sync" => S!Init
         /\ part = "followUp" => F!Init
         /\ part = "preparation" => P!Init
         /\ part = "label" => T!Init
         /\ part = "listing" => H!Init
         /\ part = "view" => V!Init
         /\ part = "media" => M!Init
  BY DEF InitMC

-----------------------------------------------------------------------------
(* Leads.                                                                  *)

(* The rows of leads, and how a request changes their statuses.            *)
LeadRows == DOMAIN leads = Ids /\ \A l \in Ids : DOMAIN leads[l] = {"status", "step", "owner"}
OneOpen == \A l, k \in D!Opens : l = k

SameStatuses == \A l \in Ids : leads'[l].status = leads[l].status
LeadsInv == LeadRows /\ OneOpen

LEMMA LeadRequest ==
  ASSUME LeadsInv, D!Next
  PROVE  LeadRows' /\ (SameStatuses \/ \E l \in Ids :
                         /\ \A k \in Ids \ {l} : leads'[k].status = leads[k].status
                         /\ leads'[l].status = "open" => D!Opens \subseteq {l})
<1> DEFINE Turns(l) == /\ \A k \in Ids \ {l} : leads'[k].status = leads[k].status
                       /\ leads'[l].status = "open" => D!Opens \subseteq {l}
<1> USE DEF LeadsInv
<1>1. ASSUME NEW r \in Requests, D!Insert(r)
      PROVE  LeadRows' /\ (SameStatuses \/ \E l \in Ids : Turns(l))
  <2>1. CASE leads' = leads
    BY <2>1 DEF LeadRows, SameStatuses
  <2>2. CASE leads' # leads
    <3>1. PICK l \in Ids : /\ D!Opens = {}
                           /\ leads' = [leads EXCEPT ![l] = [status |-> "open", step |-> salesDoing[r].step,
                                                             owner |-> salesDoing[r].owner]]
      BY <1>1, <2>2 DEF D!Insert, D!Made
    <3>2. LeadRows' /\ Turns(l)
      BY <3>1 DEF LeadRows
    <3> QED BY <3>2
  <2> QED BY <2>1, <2>2
<1>2. ASSUME NEW r \in Requests, D!SetOwner(r) \/ D!Follow(r) \/ D!Advance(r)
      PROVE  LeadRows' /\ SameStatuses
  <2>1. CASE D!SetOwner(r)
    BY <2>1 DEF D!SetOwner, LeadRows, SameStatuses, D!Made
  <2>2. CASE D!Follow(r)
    BY <2>2 DEF D!Follow, LeadRows, SameStatuses
  <2>3. CASE D!Advance(r)
    <3>1. \/ leads' = leads
          \/ leads' = [leads EXCEPT ![salesDoing[r].lead] = [@ EXCEPT !.step = salesDoing[r].step]]
      BY <2>3, Zenon DEF D!Advance
    <3> QED BY <3>1 DEF LeadRows, SameStatuses
  <2> QED BY <1>2, <2>1, <2>2, <2>3
<1>3. ASSUME NEW r \in Requests, D!Move(r)
      PROVE  LeadRows' /\ (SameStatuses \/ \E l \in Ids : Turns(l))
  <2>1. CASE leads' = leads
    BY <2>1 DEF LeadRows, SameStatuses
  <2>2. CASE leads' # leads
    <3> DEFINE l == salesDoing[r].lead
               status == D!Kind(salesDoing[r].step)
    <3>1. /\ l \in Ids /\ ~D!Clashes(l, status)
          /\ leads' = [leads EXCEPT ![l] = [@ EXCEPT !.status = status, !.step = salesDoing[r].step]]
      BY <1>3, <2>2 DEF D!Move, D!Made
    <3>2. LeadRows' /\ leads'[l].status = status /\ \A k \in Ids \ {l} : leads'[k] = leads[k]
      BY <3>1 DEF LeadRows
    <3>3. Turns(l)
      BY <3>1, <3>2 DEF D!Clashes
    <3> QED BY <3>1, <3>2, <3>3
  <2> QED BY <2>1, <2>2
<1>4. ASSUME NEW l \in Ids, D!Delete(l) PROVE LeadRows' /\ Turns(l)
  BY <1>4 DEF D!Delete, D!NoLead, LeadRows
<1>5. ASSUME leads' = leads PROVE LeadRows' /\ SameStatuses
  BY <1>5 DEF LeadRows, SameStatuses
<1>6. ASSUME NEW r \in Requests,
             \/ D!FindForCreate(r) \/ D!FindForOwner(r) \/ D!Share(r) \/ D!Assign(r)
             \/ D!FindForMove(r) \/ D!FindForAdvance(r) \/ D!FindForSave(r) \/ D!Save(r)
      PROVE  leads' = leads
  BY <1>6 DEF D!FindForCreate, D!FindForOwner, D!Share, D!Assign, D!FindForMove, D!FindForAdvance,
              D!FindForSave, D!Save
<1> QED BY <1>1, <1>2, <1>3, <1>4, <1>5, <1>6 DEF D!Next

LEMMA LeadsNext == ASSUME LeadsInv, [D!Next]_(D!vars) PROVE LeadsInv'
<1>1. CASE UNCHANGED D!vars
  BY <1>1 DEF D!vars, LeadsInv, LeadRows, OneOpen, D!Opens
<1>2. CASE D!Next /\ SameStatuses
  BY <1>2, LeadRequest DEF LeadsInv, OneOpen, D!Opens, SameStatuses
<1>3. ASSUME D!Next, NEW l \in Ids, \A k \in Ids \ {l} : leads'[k].status = leads[k].status,
             leads'[l].status = "open" => D!Opens \subseteq {l}
      PROVE  LeadsInv'
  BY <1>3, LeadRequest DEF LeadsInv, OneOpen, D!Opens
<1> QED BY <1>1, <1>2, <1>3, LeadRequest

LEMMA LeadsInit == D!Init => LeadsInv
  BY DEF D!Init, D!NoLead, LeadsInv, LeadRows, OneOpen, D!Opens

LEMMA SalesCount == ASSUME NEW group PROVE D!Cardinality(group) = Cardinality(group)
  BY DEF D!Cardinality, Cardinality

LEMMA OneOrNone == ASSUME LeadsInv PROVE D!OneOpenLead
<1>1. CASE D!Opens = {}
  BY <1>1, FS_EmptySet, SalesCount DEF D!OneOpenLead
<1>2. ASSUME NEW l \in D!Opens PROVE D!OneOpenLead
  <2>1. D!Opens = {l}
    BY <1>2 DEF LeadsInv, OneOpen
  <2> QED BY <2>1, FS_Singleton, SalesCount DEF D!OneOpenLead
<1> QED BY <1>1, <1>2

(* A contact has one open lead at most, whatever is created, reopened,     *)
(* moved and deleted at once: the database's index stands behind reads     *)
(* that may be out of date (createLead, moveLead).                         *)
THEOREM OneOpenLeadHolds == SpecMC => []OneOpenLead
<1> DEFINE Inv == part = "sales" => LeadsInv
<1>1. InitMC => Inv
  BY PartInit, LeadsInit
<1>2. Inv /\ [NextMC]_all => Inv'
  BY PartStep, LeadsNext
<1>3. Inv => OneOpenLead
  BY OneOrNone DEF OneOpenLead
<1> QED BY <1>1, <1>2, <1>3, PTL DEF SpecMC

-----------------------------------------------------------------------------
(* Whose turn it is.                                                       *)

LEMMA NatHasLeast ==
  ASSUME NEW some, some \subseteq Nat, some # {}
  PROVE  A!Min(some) \in some /\ \A y \in some : A!Min(some) <= y
<1> DEFINE Less == {p \in Nat \X Nat : p[1] < p[2]}
<1>1. IsWellFoundedOn(Less, Nat)
  BY NatLessThanWellFounded DEF OpToRel
<1>2. \E x \in some : \A y \in some : ~ (<<y, x>> \in Less)
  <2> HIDE DEF Less
  <2> QED BY <1>1, WFMin
<1>3. PICK x \in some : \A y \in some : ~ (<<y, x>> \in Less)
  BY <1>2
<1>4. ASSUME NEW y \in some PROVE x <= y
  <2> DEFINE p == <<y, x>>
  <2>1. p \in Nat \X Nat /\ p[1] = y /\ p[2] = x
    OBVIOUS
  <2>2. ~(p[1] < p[2])
    <3> HIDE DEF p
    <3> QED BY <1>3, <2>1 DEF p
  <2> QED BY <2>1, <2>2
<1> QED BY <1>4 DEF A!Min

(* While everybody is there, who had the last turn and those before had    *)
(* one more than those whose turn comes.                                   *)
Everybody == mode = "round_robin" /\ MaxOpen = 0 /\ \A m \in Rota : available[m]

Round == /\ last \in Nat /\ turns \in [Rota -> Nat]
         /\ \E k \in Nat : \A m \in Rota : turns[m] = IF m <= last THEN k + 1 ELSE k

RoundInv == DOMAIN available = Rota /\ (Everybody => Round)

(* The next turn.                                                          *)
LEMMA NextTurn ==
  ASSUME RoundInv, Everybody, NEW s \in Servers, A!Chooses(s), ~UNCHANGED <<last, turns>>
  PROVE  Round'
<1>1. A!Room = Rota /\ Rota # {} /\ Rota \subseteq Nat
  BY DeskAssumption DEF Everybody, A!Room, A!Chooses
<1>2. /\ A!Pick = A!Next1(Rota)
      /\ last' = A!Pick /\ turns' = [turns EXCEPT ![A!Pick] = @ + 1]
  BY <1>1 DEF Everybody, A!Pick, A!Chooses
<1> DEFINE later == {m \in Rota : m > last}
<1>3. PICK k \in Nat : \A m \in Rota : turns[m] = IF m <= last THEN k + 1 ELSE k
  BY DEF RoundInv, Round
<1>4. last \in Nat /\ turns \in [Rota -> Nat]
  BY DEF RoundInv, Round
<1>5. CASE later = {}
  <2>1. last' = A!Min(Rota) /\ last' \in Rota /\ \A m \in Rota : last' <= m
    BY <1>1, <1>2, <1>5, NatHasLeast DEF A!Next1
  <2>2. \A m \in Rota : m <= last
    BY <1>1, <1>4, <1>5
  <2>3. \A m \in Rota : turns'[m] = IF m <= last' THEN k + 2 ELSE k + 1
    BY <1>1, <1>2, <1>3, <1>4, <2>1, <2>2
  <2>4. turns' \in [Rota -> Nat] /\ last' \in Nat /\ k + 1 \in Nat /\ (k + 1) + 1 = k + 2
    BY <1>1, <1>2, <1>4, <2>1
  <2> QED BY <2>3, <2>4 DEF Round
<1>6. CASE later # {}
  <2>1. later \subseteq Nat
    BY <1>1
  <2>2. last' = A!Min(later) /\ last' \in later /\ \A m \in later : last' <= m
    BY <1>2, <1>6, <2>1, NatHasLeast DEF A!Next1
  <2>3. \A m \in Rota : turns'[m] = IF m <= last' THEN k + 1 ELSE k
    BY <1>1, <1>2, <1>3, <1>4, <2>2
  <2>4. turns' \in [Rota -> Nat] /\ last' \in Nat
    BY <1>1, <1>2, <1>4, <2>2
  <2> QED BY <2>3, <2>4 DEF Round
<1> QED BY <1>5, <1>6

LEMMA RoundNext == ASSUME RoundInv, [A!Next]_(A!vars) PROVE RoundInv'
<1>1. CASE UNCHANGED <<available, mode, last, turns>>
  BY <1>1 DEF RoundInv, Everybody, Round
<1>2. ASSUME NEW m \in Rota, A!GoesAway(m) PROVE RoundInv'
  BY <1>2 DEF A!GoesAway, RoundInv, Everybody
<1>3. ASSUME NEW s \in Servers, A!Chooses(s) PROVE RoundInv'
  <2>1. available' = available /\ mode' = mode
    BY <1>3 DEF A!Chooses
  <2> QED BY <1>3, <2>1, NextTurn DEF RoundInv, Everybody, Round
<1> QED BY <1>1, <1>2, <1>3 DEF A!Next, A!vars, A!Arrives, A!Closes, A!Assigns, A!Serves, A!Gives, A!Follows,
                                 A!Finishes, A!Crashes, A!SwitchesOff

LEMMA RoundInit == A!Init => RoundInv
<1> SUFFICES ASSUME A!Init PROVE RoundInv
  OBVIOUS
<1>1. last = 0 /\ turns = [m \in Rota |-> 0] /\ DOMAIN available = Rota
  BY DEF A!Init, A!Unassigned
<1>2. \A m \in Rota : turns[m] = IF m <= last THEN 0 + 1 ELSE 0
  BY <1>1, DeskAssumption
<1> QED BY <1>1, <1>2 DEF RoundInv, Round

LEMMA RoundIsEven == RoundInv => A!TurnsAreEven
  BY DeskAssumption DEF RoundInv, Everybody, Round, A!TurnsAreEven

(* New chats go round the team in turn, for any team and however many      *)
(* servers hand out at once, stop half way and serve again: the choice is  *)
(* made under the lock of the settings (pick in assignmentService).        *)
THEOREM TurnsAreEvenHolds == SpecMC => []TurnsAreEven
<1> DEFINE Inv == part = "team" => RoundInv
<1>1. InitMC => Inv
  BY PartInit, RoundInit
<1>2. Inv /\ [NextMC]_all => Inv'
  BY PartStep, RoundNext
<1>3. Inv => TurnsAreEven
  BY RoundIsEven DEF TurnsAreEven
<1> QED BY <1>1, <1>2, <1>3, PTL DEF SpecMC

-----------------------------------------------------------------------------
(* Live events.                                                            *)

Listeners == Agents \cup Managers

(* An event of the number that is looked up is the first that is pending.  *)
First(e) == \A f \in R!Pending : e <= f

QueueInv ==
  /\ realtimeSent \in 0..MaxEvents
  /\ R!Pending \subseteq R!Events \cup {R!Lead}
  /\ \A e \in R!Pending \ {R!Lead} : e <= realtimeSent /\ (lookups[e] # "waiting" => First(e))

(* What was heard came before everything that is pending.                  *)
Before(n) == n # R!Lead => n <= realtimeSent /\ \A e \in R!Pending \ {R!Lead} : n < e

EarsInv ==
  /\ heard \in [Listeners -> Seq(Nat)]
  /\ \A u \in Listeners : \A i \in 1..Len(heard[u]) : Before(heard[u][i])

Ordered == \A u \in Listeners : \A i, j \in 1..Len(heard[u]) :
             i < j /\ heard[u][i] # R!Lead /\ heard[u][j] # R!Lead => heard[u][i] < heard[u][j]

LiveInv == QueueInv /\ EarsInv /\ Ordered

LEMMA EventFacts ==
  /\ R!Lead \in Nat /\ R!Events \subseteq Nat
  /\ \A e \in R!Events : e < R!Lead /\ e # R!Lead
  BY DeskAssumption DEF R!Lead, R!Events

LEMMA Emitted ==
  ASSUME LiveInv, NEW e \in R!Pending, e = R!Lead \/ First(e), NEW to, R!Emit(e, to), realtimeSent' = realtimeSent
  PROVE  LiveInv'
<1> DEFINE Later(n) == n # R!Lead => n <= realtimeSent' /\ \A f \in R!Pending' \ {R!Lead} : n < f
<1>1. R!Pending' = R!Pending \ {e} /\ \A f \in R!Pending' : lookups'[f] = lookups[f]
  BY DEF R!Emit, R!Without, R!Pending
<1>2. e \in Nat /\ R!Pending \subseteq Nat /\ realtimeSent \in Nat
  BY EventFacts DEF LiveInv, QueueInv
<1>3. QueueInv'
  BY <1>1 DEF LiveInv, QueueInv, First
<1>4. \A n \in Nat : Before(n) => Later(n)
  BY <1>1 DEF Before
<1>5. Later(e)
  <2>1. CASE e = R!Lead
    BY <2>1 DEF Before
  <2>2. CASE e # R!Lead
    <3>1. e <= realtimeSent
      BY <2>2 DEF LiveInv, QueueInv
    <3>2. \A f \in R!Pending \ {e} : e < f
      BY <1>2, <2>2 DEF First
    <3> QED BY <1>1, <3>1, <3>2 DEF Before
  <2> QED BY <2>1, <2>2
<1>6. heard' \in [Listeners -> Seq(Nat)] /\ \A u \in Listeners : heard'[u] = heard[u] \/ heard'[u] = Append(heard[u], e)
  <2>1. heard \in [Listeners -> Seq(Nat)]
    BY DEF LiveInv, EarsInv
  <2>2. heard' = [u \in Listeners |-> IF u = to \/ u \in Managers THEN Append(heard[u], e) ELSE heard[u]]
    BY DEF R!Emit, Listeners
  <2> QED BY <1>2, <2>1, <2>2
<1> HIDE DEF Later
<1>7. ASSUME NEW u \in Listeners
      PROVE  /\ \A i \in 1..Len(heard'[u]) : Later(heard'[u][i])
             /\ \A i, j \in 1..Len(heard'[u]) :
                  i < j /\ heard'[u][i] # R!Lead /\ heard'[u][j] # R!Lead => heard'[u][i] < heard'[u][j]
  <2>1. /\ heard[u] \in Seq(Nat)
        /\ \A i \in 1..Len(heard[u]) : heard[u][i] \in Nat /\ Before(heard[u][i])
        /\ \A i, j \in 1..Len(heard[u]) :
             i < j /\ heard[u][i] # R!Lead /\ heard[u][j] # R!Lead => heard[u][i] < heard[u][j]
    BY DEF LiveInv, EarsInv, Ordered
  <2>2. CASE heard'[u] = heard[u]
    BY <1>4, <2>1, <2>2
  <2>3. CASE heard'[u] = Append(heard[u], e)
    <3>1. /\ Len(heard'[u]) = Len(heard[u]) + 1 /\ Len(heard[u]) \in Nat
          /\ heard'[u][Len(heard[u]) + 1] = e
          /\ \A i \in 1..Len(heard[u]) : heard'[u][i] = heard[u][i]
      BY <1>2, <2>1, <2>3
    <3>2. \A i \in 1..Len(heard[u]) : heard[u][i] # R!Lead /\ e # R!Lead => heard[u][i] < e
      BY <2>1 DEF Before
    <3>3. \A i \in 1..Len(heard'[u]) : i \in 1..Len(heard[u]) \/ i = Len(heard[u]) + 1
      BY <3>1
    <3>4. \A i \in 1..Len(heard'[u]) : Later(heard'[u][i])
      BY <1>4, <1>5, <2>1, <3>1, <3>3
    <3>5. ASSUME NEW i \in 1..Len(heard'[u]), NEW j \in 1..Len(heard'[u]), i < j,
                 heard'[u][i] # R!Lead, heard'[u][j] # R!Lead
          PROVE  heard'[u][i] < heard'[u][j]
      <4>1. i \in 1..Len(heard[u])
        BY <3>1, <3>3, <3>5
      <4> QED BY <2>1, <3>1, <3>2, <3>3, <3>5, <4>1
    <3> QED BY <3>4, <3>5
  <2> QED BY <1>6, <2>2, <2>3
<1>8. R!Lead' = R!Lead
  BY DEF R!Lead
<1>9. EarsInv'
  BY <1>6, <1>7, <1>8 DEF EarsInv, Before, Later
<1>10. Ordered'
  BY <1>7, <1>8 DEF Ordered
<1> QED BY <1>3, <1>9, <1>10 DEF LiveInv

LEMMA RaisedNext == ASSUME LiveInv, NEW e, R!Raise(e) PROVE LiveInv'
<1>1. /\ R!Pending' = R!Pending \cup {e} /\ e \notin R!Pending /\ lookups'[e] = "waiting"
      /\ \A f \in R!Pending : lookups'[f] = lookups[f]
      /\ heard' = heard
  BY DEF R!Raise, R!Pending, R!Waiting
<1>2. \/ e \in R!Events /\ e = realtimeSent + 1 /\ realtimeSent' = e
      \/ e = R!Lead /\ realtimeSent' = realtimeSent
  BY DEF R!Raise
<1>3. /\ realtimeSent' \in 0..MaxEvents /\ realtimeSent <= realtimeSent' /\ realtimeSent \in Nat
      /\ e # R!Lead => e \in R!Events /\ e = realtimeSent + 1
      /\ realtimeSent <= MaxEvents /\ realtimeSent < R!Lead
  BY <1>2, DeskAssumption DEF LiveInv, QueueInv, R!Events, R!Lead
<1>4. R!Pending \subseteq Nat /\ \A f \in R!Pending \ {R!Lead} : f \in R!Events /\ f <= realtimeSent
  BY EventFacts DEF LiveInv, QueueInv
<1>5. ASSUME NEW f \in R!Pending \ {R!Lead}, First(f) PROVE First(f)'
  <2>1. f <= e
    BY <1>2, <1>3, <1>4, EventFacts
  <2> QED BY <1>1, <1>5, <2>1 DEF First
<1>6. QueueInv'
  <2>1. R!Pending' \subseteq R!Events \cup {R!Lead}
    BY <1>1, <1>2 DEF LiveInv, QueueInv
  <2>2. ASSUME NEW f \in R!Pending' \ {R!Lead}
        PROVE  f <= realtimeSent' /\ (lookups'[f] # "waiting" => First(f)')
    <3>1. CASE f = e
      BY <1>1, <1>2, <1>3, <3>1, <2>2
    <3>2. CASE f \in R!Pending
      BY <1>1, <1>3, <1>4, <1>5, <2>2, <3>2 DEF LiveInv, QueueInv
    <3> QED BY <1>1, <2>2, <3>1, <3>2
  <2> QED BY <1>3, <2>1, <2>2 DEF QueueInv, R!Events, R!Lead
<1>7. ASSUME NEW n \in Nat, Before(n) PROVE Before(n)'
  BY <1>1, <1>3, <1>7 DEF Before, R!Lead
<1>8. EarsInv'
  BY <1>1, <1>7 DEF LiveInv, EarsInv
<1>9. Ordered'
  BY <1>1 DEF LiveInv, Ordered, R!Lead
<1> QED BY <1>6, <1>8, <1>9 DEF LiveInv

(* A lookup that moves on by one statement.                                *)
LEMMA LookedUp ==
  ASSUME LiveInv, NEW e \in R!Pending, NEW x, e = R!Lead \/ First(e),
         lookups' = [lookups EXCEPT ![e] = x], UNCHANGED <<heard, realtimeSent>>
  PROVE  LiveInv'
<1>1. R!Pending' = R!Pending /\ \A f \in R!Pending \ {e} : lookups'[f] = lookups[f]
  BY DEF R!Pending
<1> QED BY <1>1 DEF LiveInv, QueueInv, EarsInv, Ordered, First, Before, R!Lead

LEMMA LiveNext == ASSUME LiveInv, [R!Next]_(R!vars) PROVE LiveInv'
<1>1. CASE UNCHANGED <<lookups, heard, realtimeSent>>
  BY <1>1 DEF LiveInv, QueueInv, EarsInv, Ordered, First, Before, R!Lead, R!Pending
<1>2. ASSUME NEW e, R!LookUp(e) PROVE LiveInv'
  <2>1. e \in R!Pending /\ (e = R!Lead \/ First(e)) /\ realtimeSent' = realtimeSent
    BY <1>2 DEF R!LookUp, R!Turn, First
  <2>2. CASE R!Fresh
    BY <1>2, <2>1, <2>2, Emitted DEF R!LookUp
  <2>3. CASE ~R!Fresh
    BY <1>2, <2>1, <2>3, LookedUp DEF R!LookUp
  <2> QED BY <2>2, <2>3
<1>3. ASSUME NEW e, R!Read(e) PROVE LiveInv'
  <2>1. e \in R!Pending /\ (e = R!Lead \/ First(e))
    BY <1>3 DEF R!Read, R!Reading, LiveInv, QueueInv
  <2> QED BY <1>3, <2>1, LookedUp DEF R!Read
<1>4. ASSUME NEW e, R!Answered(e) PROVE LiveInv'
  <2>1. lookups[e] # "waiting"
    BY <1>4, DeskAssumption DEF R!Answered, R!Rows, R!NoRow
  <2>2. e \in R!Pending /\ (e = R!Lead \/ First(e))
    BY <1>4, <2>1 DEF R!Answered, LiveInv, QueueInv
  <2> QED BY <1>4, <2>2, Emitted DEF R!Answered
<1>5. ASSUME NEW e, R!LookUpFails(e) PROVE LiveInv'
  <2>1. /\ R!Pending' = R!Pending \ {e} /\ \A f \in R!Pending' : lookups'[f] = lookups[f]
        /\ heard' = heard /\ realtimeSent' = realtimeSent
    BY <1>5 DEF R!LookUpFails, R!Without, R!Pending
  <2> QED BY <2>1 DEF LiveInv, QueueInv, EarsInv, Ordered, First, Before, R!Lead
<1> QED BY <1>1, <1>2, <1>3, <1>4, <1>5, RaisedNext DEF R!Next, R!vars, R!ChangeOwner, R!ForgetSessionOwner, R!Tick

LEMMA LiveInit == R!Init => LiveInv
<1> SUFFICES ASSUME R!Init PROVE LiveInv
  OBVIOUS
<1>1. R!Pending = {} /\ realtimeSent = 0 /\ heard = [u \in Listeners |-> <<>>]
  BY DEF R!Init, R!Pending, Listeners
<1>2. heard \in [Listeners -> Seq(Nat)] /\ \A u \in Listeners : Len(heard[u]) = 0
  BY <1>1
<1> QED BY <1>1, <1>2, DeskAssumption DEF LiveInv, QueueInv, EarsInv, Ordered

LEMMA LiveIsOrdered == LiveInv => R!HeardInOrder
<1> SUFFICES ASSUME LiveInv PROVE R!HeardInOrder
  OBVIOUS
<1>1. \A u \in Listeners : DOMAIN heard[u] = 1..Len(heard[u])
  BY DEF LiveInv, EarsInv
<1> QED BY <1>1 DEF LiveInv, Ordered, R!HeardInOrder, Listeners

(* Nobody hears a number's events in another order than they were raised   *)
(* in, for any users and however long each lookup of the owner takes: the  *)
(* events of a number wait for each other (sessionTails in realtime).      *)
THEOREM HeardInOrderHolds == SpecMC => []HeardInOrder
<1> DEFINE Inv == part = "realtime" => LiveInv
<1>1. InitMC => Inv
  BY PartInit, LiveInit
<1>2. Inv /\ [NextMC]_all => Inv'
  BY PartStep, LiveNext
<1>3. Inv => HeardInOrder
  BY LiveIsOrdered DEF HeardInOrder
<1> QED BY <1>1, <1>2, <1>3, PTL DEF SpecMC

-----------------------------------------------------------------------------
(* Autopilot, and what a teammate takes back.                              *)

Kinds == {"thanks", "question"}
Msgs == W!Messages
Working(s) == pilot[s].pc \notin {"idle", "claim"}

PilotShape ==
  /\ DOMAIN log = Msgs /\ \A m \in Msgs : DOMAIN log[m] = {"outcome", "prior", "at"}
  /\ DOMAIN waitingSent = Msgs /\ \A m \in Msgs : DOMAIN waitingSent[m] = {"way", "unsure", "blind", "shown"}
  /\ DOMAIN pilot = Servers /\ \A s \in Servers : DOMAIN pilot[s] = {"pc", "of", "prior", "asked", "owned"}
  /\ DOMAIN undo = {"pc", "of"}
  /\ \A m \in Msgs : waitingSent[m].way \in {"none", "box", "wire", "late", "lost", "out", "gone"}

(* Nobody waits, and nothing is done, before the customer wrote.           *)
SaidInv ==
  /\ said \in Seq(Kinds) /\ Len(said) <= MaxMessages
  /\ Len(said) = 0 => /\ awaiting = 0 /\ undo.pc = "idle"
                      /\ \A s \in Servers : pilot[s].pc = "idle"
                      /\ \A m \in Msgs : log[m].outcome = "none" /\ log[m].prior = 0

(* A message has one server at work on it, as long as its row says so.     *)
WorkInv ==
  /\ \A s \in Servers : pilot[s].pc # "idle" => pilot[s].of \in Msgs
  /\ \A s \in Servers : Working(s) => log[pilot[s].of].outcome = "working"
  /\ \A s, t \in Servers : Working(s) /\ Working(t) /\ pilot[s].of = pilot[t].of => s = t

(* A thank-you has no reply, and a reply is shown once it is out, or lost. *)
Unsent(m) == waitingSent[m].way = "none"
ReplyInv ==
  /\ \A m \in Msgs : log[m].outcome \in {"none", "cleared"} => Unsent(m)
  /\ \A s \in Servers : pilot[s].pc \in {"clear", "cleared"} => Unsent(pilot[s].of)
  /\ \A m \in Msgs : waitingSent[m].shown => waitingSent[m].way \in {"out", "lost"}
  /\ \A m \in Msgs : waitingSent[m].way \in {"late", "lost", "gone"} => waitingSent[m].unsure

(* What is being taken back is not on its way any more, or it is a reply   *)
(* whose outcome was unknown.                                              *)
Done(m) == log[m].outcome \notin {"none", "working"}
Over(m) == waitingSent[m].way \in {"none", "out"}
Back(m) == waitingSent[m].blind \/ (Over(m) /\ ~waitingSent[m].shown)
UndoInv ==
  /\ undo.pc # "idle" => undo.of \in Msgs /\ Done(undo.of)
  /\ undo.pc = "delete" => Over(undo.of) \/ waitingSent[undo.of].unsure
  /\ undo.pc \in {"back", "mark"} => Back(undo.of)
  /\ \A m \in Msgs : log[m].outcome = "undone" => Back(m)

AutoInv == PilotShape /\ SaidInv /\ WorkInv /\ ReplyInv /\ UndoInv

LEMMA MsgsFacts == Msgs = 1..MaxMessages
  BY DEF Msgs, W!Messages

LEMMA TeamKeeps == ASSUME AutoInv, W!Team PROVE AutoInv'
<1>1. UNCHANGED <<log, waitingSent, pilot, undo>>
  BY DEF W!Team, W!Writes, W!AsksForPerson, W!Answers, W!Assigned, W!QuietPasses, W!auto
<1>2. \/ said' = said /\ awaiting' \in {0, awaiting}
      \/ \E k \in Kinds : said' = Append(said, k) /\ Len(said) < MaxMessages
  BY DEF W!Team, W!Writes, W!AsksForPerson, W!Answers, W!Assigned, W!QuietPasses, W!Latest, Kinds
<1>3. SaidInv'
  <2>1. ASSUME NEW k \in Kinds, said' = Append(said, k), Len(said) < MaxMessages
        PROVE  said' \in Seq(Kinds) /\ Len(said') <= MaxMessages /\ Len(said') # 0
    <3>1. said \in Seq(Kinds) /\ Len(said) \in Nat /\ MaxMessages \in Int
      BY DeskAssumption DEF AutoInv, SaidInv
    <3>2. Len(said') = Len(said) + 1 /\ said' \in Seq(Kinds)
      BY <2>1, <3>1
    <3> QED BY <2>1, <3>1, <3>2
  <2> QED BY <1>1, <1>2, <2>1 DEF AutoInv, SaidInv
<1> QED BY <1>1, <1>3 DEF AutoInv, PilotShape, WorkInv, ReplyInv, UndoInv, Working, Unsent, Done, Over, Back

LEMMA LooksKeeps == ASSUME AutoInv, NEW s \in Servers, W!Looks(s) PROVE AutoInv'
<1>1. W!Latest \in Msgs /\ Len(said) # 0
  BY MsgsFacts DEF AutoInv, SaidInv, W!Looks, W!Latest
<1>2. /\ pilot' = [pilot EXCEPT ![s] = [pc |-> "claim", of |-> W!Latest, prior |-> awaiting,
                                         asked |-> asked, owned |-> waitingOwned]]
      /\ UNCHANGED <<log, waitingSent, undo, said, awaiting>>
  BY DEF W!Looks, W!chat
<1>3. /\ DOMAIN pilot' = Servers /\ pilot'[s].pc = "claim" /\ pilot'[s].of \in Msgs
      /\ DOMAIN pilot'[s] = {"pc", "of", "prior", "asked", "owned"}
      /\ \A t \in Servers \ {s} : pilot'[t] = pilot[t]
  BY <1>1, <1>2 DEF AutoInv, PilotShape
<1>4. PilotShape' /\ SaidInv'
  BY <1>1, <1>2, <1>3 DEF AutoInv, PilotShape, SaidInv
<1>5. WorkInv' /\ ReplyInv'
  BY <1>2, <1>3 DEF AutoInv, WorkInv, ReplyInv, Working, Unsent
<1> QED BY <1>2, <1>4, <1>5 DEF AutoInv, UndoInv, Done, Over, Back

(* A server that steps on, without touching the rows.                      *)
LEMMA StepKeeps ==
  ASSUME AutoInv, NEW s \in Servers, NEW pc, W!Step(s, pc),
         Working(s) \/ pc = "idle", pc # "claim",
         pc \in {"clear", "cleared"} => pilot[s].pc \in {"clear", "cleared"},
         UNCHANGED <<log, waitingSent, undo, said>>, awaiting' \in {0, awaiting}
  PROVE  AutoInv'
<1>1. /\ DOMAIN pilot' = Servers /\ pilot'[s].pc = pc /\ pilot'[s].of = pilot[s].of
      /\ DOMAIN pilot'[s] = {"pc", "of", "prior", "asked", "owned"}
      /\ \A t \in Servers \ {s} : pilot'[t] = pilot[t]
  BY DEF W!Step, AutoInv, PilotShape
<1>2. PilotShape'
  BY <1>1 DEF AutoInv, PilotShape
<1>3. SaidInv'
  BY <1>1 DEF AutoInv, SaidInv, Working
<1>4. WorkInv'
  BY <1>1 DEF AutoInv, WorkInv, Working
<1>5. ReplyInv' /\ UndoInv'
  BY <1>1 DEF AutoInv, ReplyInv, UndoInv, Unsent, Done, Over, Back
<1> QED BY <1>2, <1>3, <1>4, <1>5 DEF AutoInv

LEMMA ClaimsKeeps == ASSUME AutoInv, NEW s \in Servers, W!Claims(s) PROVE AutoInv'
<1> DEFINE m == pilot[s].of
<1>1. m \in Msgs /\ pilot[s].pc = "claim" /\ Len(said) # 0 /\ UNCHANGED <<waitingSent, undo, said, awaiting>>
  BY DEF AutoInv, WorkInv, SaidInv, W!Claims
<1>2. CASE log[m].outcome # "none"
  <2>1. W!Step(s, "idle") /\ UNCHANGED <<log, waitingSent, undo, said, awaiting>>
    BY <1>1, <1>2 DEF W!Claims
  <2> QED BY <2>1, StepKeeps
<1>3. CASE log[m].outcome = "none"
  <2> DEFINE pc == IF said[m] = "thanks" THEN "clear" ELSE "hold"
  <2>1. /\ log' = [log EXCEPT ![m] = [outcome |-> "working", prior |-> pilot[s].prior, at |-> waitingClock]]
        /\ pilot' = [pilot EXCEPT ![s].pc = pc]
    BY <1>1, <1>3 DEF W!Claims, W!Step
  <2>2. /\ DOMAIN pilot' = Servers /\ pilot'[s].pc = pc /\ pilot'[s].of = m
        /\ DOMAIN pilot'[s] = {"pc", "of", "prior", "asked", "owned"}
        /\ \A t \in Servers \ {s} : pilot'[t] = pilot[t]
    BY <2>1 DEF AutoInv, PilotShape
  <2>3. /\ DOMAIN log' = Msgs /\ log'[m].outcome = "working" /\ DOMAIN log'[m] = {"outcome", "prior", "at"}
        /\ \A k \in Msgs \ {m} : log'[k] = log[k]
    BY <1>1, <2>1 DEF AutoInv, PilotShape
  <2>4. PilotShape' /\ SaidInv'
    BY <1>1, <2>2, <2>3 DEF AutoInv, PilotShape, SaidInv
  <2>5. \A t \in Servers : Working(t) => pilot[t].of # m
    BY <1>3 DEF AutoInv, WorkInv
  <2>6. WorkInv'
    BY <1>1, <2>2, <2>3, <2>5 DEF AutoInv, WorkInv, Working
  <2>7. ReplyInv'
    BY <1>1, <1>3, <2>2, <2>3 DEF AutoInv, ReplyInv, Unsent
  <2>8. UndoInv'
    BY <1>1, <1>3, <2>3 DEF AutoInv, UndoInv, Done, Over, Back
  <2> QED BY <2>4, <2>6, <2>7, <2>8 DEF AutoInv
<1> QED BY <1>2, <1>3

LEMMA WorksKeeps ==
  ASSUME AutoInv, NEW s \in Servers, W!Clears(s) \/ W!Holds(s) \/ W!Chooses(s)
  PROVE  AutoInv'
<1>1. CASE W!Clears(s)
  <2>1. /\ pilot[s].pc = "clear" /\ W!Step(s, "cleared") /\ awaiting' \in {0, awaiting}
        /\ UNCHANGED <<log, waitingSent, undo, said>>
    BY <1>1 DEF W!Clears
  <2> QED BY <2>1, StepKeeps DEF Working
<1>2. ASSUME W!Holds(s) \/ W!Chooses(s) PROVE AutoInv'
  <2>1. /\ pilot[s].pc \in {"hold", "choose"}
        /\ UNCHANGED <<log, waitingSent, undo, said, awaiting>>
        /\ \E pc \in {"skipped", "choose", "send"} : W!Step(s, pc)
    BY <1>2 DEF W!Holds, W!Chooses, W!chat
  <2>2. PICK pc \in {"skipped", "choose", "send"} : W!Step(s, pc)
    BY <2>1
  <2>3. Working(s) /\ pc # "claim" /\ pc \notin {"clear", "cleared"}
    BY <2>1, <2>2 DEF Working
  <2> QED BY <2>1, <2>2, <2>3, StepKeeps
<1> QED BY <1>1, <1>2

LEMMA SendsKeeps == ASSUME AutoInv, NEW s \in Servers, W!Sends(s) PROVE AutoInv'
<1> DEFINE m == pilot[s].of
           way == IF Unsent(m) THEN "box" ELSE waitingSent[m].way
<1>1. /\ pilot[s].pc = "send" /\ m \in Msgs /\ log[m].outcome = "working" /\ Len(said) # 0
      /\ UNCHANGED <<log, undo, said>>
  BY DEF AutoInv, WorkInv, SaidInv, Working, W!Sends
<1>2. /\ pilot' = [pilot EXCEPT ![s].pc = "sent"]
      /\ waitingSent' = [waitingSent EXCEPT ![m].way = way]
  BY DEF W!Sends, W!Step, Unsent
<1>3. /\ DOMAIN pilot' = Servers /\ pilot'[s].pc = "sent" /\ pilot'[s].of = m
      /\ DOMAIN pilot'[s] = {"pc", "of", "prior", "asked", "owned"}
      /\ \A t \in Servers \ {s} : pilot'[t] = pilot[t]
  BY <1>2 DEF AutoInv, PilotShape
<1>4. /\ DOMAIN waitingSent' = Msgs /\ DOMAIN waitingSent'[m] = {"way", "unsure", "blind", "shown"}
      /\ waitingSent'[m].way = way /\ waitingSent'[m].shown = waitingSent[m].shown
      /\ waitingSent'[m].unsure = waitingSent[m].unsure /\ waitingSent'[m].blind = waitingSent[m].blind
      /\ \A k \in Msgs \ {m} : waitingSent'[k] = waitingSent[k]
  BY <1>1, <1>2 DEF AutoInv, PilotShape
<1>5. PilotShape' /\ SaidInv'
  BY <1>1, <1>3, <1>4 DEF AutoInv, PilotShape, SaidInv
<1>6. WorkInv'
  BY <1>1, <1>3 DEF AutoInv, WorkInv, Working
<1>7. ReplyInv'
  <2>1. \A k \in Msgs : log'[k].outcome \in {"none", "cleared"} => Unsent(k)'
    BY <1>1, <1>4 DEF AutoInv, ReplyInv, Unsent
  <2>2. ASSUME NEW t \in Servers, pilot'[t].pc \in {"clear", "cleared"} PROVE Unsent(pilot[t].of)'
    <3>1. t # s /\ pilot[t].pc \in {"clear", "cleared"}
      BY <1>3, <2>2
    <3>2. pilot[t].of \in Msgs \ {m}
      BY <1>1, <3>1 DEF AutoInv, WorkInv, Working
    <3>3. Unsent(pilot[t].of)
      BY <3>1 DEF AutoInv, ReplyInv
    <3> QED BY <1>3, <1>4, <3>1, <3>2, <3>3 DEF Unsent
  <2>3. \A k \in Msgs : waitingSent'[k].shown => waitingSent'[k].way \in {"out", "lost"}
    BY <1>4 DEF AutoInv, ReplyInv, Unsent
  <2>4. \A k \in Msgs : waitingSent'[k].way \in {"late", "lost", "gone"} => waitingSent'[k].unsure
    BY <1>4 DEF AutoInv, ReplyInv, Unsent
  <2> QED BY <2>1, <2>2, <2>3, <2>4 DEF ReplyInv
<1>8. UndoInv'
  BY <1>1, <1>4 DEF AutoInv, UndoInv, Done, Over, Back
<1> QED BY <1>5, <1>6, <1>7, <1>8 DEF AutoInv

LEMMA FinishesKeeps == ASSUME AutoInv, NEW s \in Servers, W!Finishes(s) PROVE AutoInv'
<1> DEFINE m == pilot[s].of
<1>1. /\ pilot[s].pc \in {"cleared", "skipped", "sent"} /\ m \in Msgs /\ log[m].outcome = "working"
      /\ Len(said) # 0 /\ UNCHANGED <<waitingSent, undo, said, awaiting>>
  BY DEF AutoInv, WorkInv, SaidInv, Working, W!Finishes, W!chat
<1>2. /\ log' = [log EXCEPT ![m].outcome = pilot[s].pc]
      /\ pilot' = [pilot EXCEPT ![s] = W!NoWork]
  BY DEF W!Finishes
<1>3. /\ DOMAIN pilot' = Servers /\ pilot'[s].pc = "idle"
      /\ DOMAIN pilot'[s] = {"pc", "of", "prior", "asked", "owned"}
      /\ \A t \in Servers \ {s} : pilot'[t] = pilot[t]
  BY <1>2 DEF AutoInv, PilotShape, W!NoWork
<1>4. /\ DOMAIN log' = Msgs /\ DOMAIN log'[m] = {"outcome", "prior", "at"}
      /\ log'[m].outcome = pilot[s].pc
      /\ \A k \in Msgs \ {m} : log'[k] = log[k]
  BY <1>1, <1>2 DEF AutoInv, PilotShape
<1>5. PilotShape' /\ SaidInv'
  BY <1>1, <1>3, <1>4 DEF AutoInv, PilotShape, SaidInv
<1>6. WorkInv'
  BY <1>1, <1>3, <1>4 DEF AutoInv, WorkInv, Working
<1>7. ReplyInv'
  BY <1>1, <1>3, <1>4 DEF AutoInv, ReplyInv, Unsent
<1>8. UndoInv'
  BY <1>1, <1>4 DEF AutoInv, UndoInv, Done, Over, Back
<1> QED BY <1>5, <1>6, <1>7, <1>8 DEF AutoInv

LEMMA LeavesKeeps == ASSUME AutoInv, NEW m \in Msgs, W!Leaves(m) PROVE AutoInv'
<1>1. waitingSent[m].way \in {"box", "wire", "late"} /\ UNCHANGED <<log, pilot, undo, said, awaiting>>
  BY DEF W!Leaves, W!chat
<1>2. PICK way, unsure, shown :
        /\ W!Becomes(m, way, unsure, shown)
        /\ way \in {"box", "wire", "late", "lost", "out"}
        /\ shown => way \in {"out", "lost"}
        /\ way \in {"late", "lost"} => unsure
        /\ waitingSent[m].unsure => unsure
  BY DEF W!Leaves
<1>3. /\ DOMAIN waitingSent' = Msgs /\ DOMAIN waitingSent'[m] = {"way", "unsure", "blind", "shown"}
      /\ waitingSent'[m].way = way /\ waitingSent'[m].shown = shown
      /\ waitingSent'[m].unsure = unsure /\ waitingSent'[m].blind = waitingSent[m].blind
      /\ \A k \in Msgs \ {m} : waitingSent'[k] = waitingSent[k]
  BY <1>2 DEF AutoInv, PilotShape, W!Becomes
<1>4. ~Unsent(m) /\ ~Over(m)
  BY <1>1 DEF Unsent, Over
<1>5. PilotShape' /\ SaidInv' /\ WorkInv'
  BY <1>1, <1>2, <1>3 DEF AutoInv, PilotShape, SaidInv, WorkInv, Working
<1>6. ReplyInv'
  BY <1>1, <1>2, <1>3, <1>4 DEF AutoInv, ReplyInv, WorkInv, Working, Unsent
<1>7. UndoInv'
  BY <1>1, <1>2, <1>3, <1>4 DEF AutoInv, UndoInv, Done, Over, Back
<1> QED BY <1>5, <1>6, <1>7 DEF AutoInv

LEMMA CrashKeeps == ASSUME AutoInv, NEW s \in Servers, W!Crash(s) PROVE AutoInv'
<1>1. /\ DOMAIN pilot' = Servers /\ pilot'[s].pc = "idle"
      /\ DOMAIN pilot'[s] = {"pc", "of", "prior", "asked", "owned"}
      /\ \A t \in Servers \ {s} : pilot'[t] = pilot[t]
      /\ UNCHANGED <<log, waitingSent, undo, said, awaiting>>
  BY DEF AutoInv, PilotShape, W!Crash, W!NoWork, W!chat
<1>2. PilotShape' /\ SaidInv' /\ WorkInv'
  BY <1>1 DEF AutoInv, PilotShape, SaidInv, WorkInv, Working
<1>3. ReplyInv' /\ UndoInv'
  BY <1>1 DEF AutoInv, ReplyInv, UndoInv, Unsent, Done, Over, Back
<1> QED BY <1>2, <1>3 DEF AutoInv

(* The steps of a teammate who takes an action back.                       *)
LEMMA UndoKeeps == ASSUME AutoInv, W!Undo PROVE AutoInv'
<1>1. ASSUME NEW m \in Msgs, W!Wanted(m) PROVE AutoInv'
  <2>1. /\ log[m].outcome \in {"sent", "cleared"} /\ undo'.of = m /\ DOMAIN undo' = {"pc", "of"}
        /\ undo'.pc = IF log[m].outcome = "sent" THEN "check" ELSE "back"
        /\ UNCHANGED <<log, waitingSent, pilot, said, awaiting>>
    BY <1>1 DEF W!Wanted, W!chat
  <2>2. log[m].outcome = "cleared" => Back(m)
    BY DEF AutoInv, ReplyInv, Unsent, Over, Back
  <2>3. PilotShape' /\ SaidInv' /\ WorkInv' /\ ReplyInv'
    BY <2>1 DEF AutoInv, PilotShape, SaidInv, WorkInv, ReplyInv, Working, Unsent
  <2>4. UndoInv'
    BY <2>1, <2>2 DEF AutoInv, UndoInv, Done, Over, Back
  <2> QED BY <2>3, <2>4 DEF AutoInv
<1>2. CASE W!Checks
  <2>1. /\ undo.pc = "check" /\ DOMAIN undo' = {"pc", "of"} /\ UNCHANGED <<log, waitingSent, pilot, said, awaiting>>
        /\ \/ undo'.pc = "idle"
           \/ undo'.pc = "delete" /\ undo'.of = undo.of /\ ~W!StillLeaving(undo.of)
    BY <1>2 DEF W!Checks, W!NoUndo, W!chat, AutoInv, PilotShape
  <2>2. undo.of \in Msgs /\ Done(undo.of) /\ Len(said) # 0
    BY <2>1 DEF AutoInv, UndoInv, SaidInv
  <2>3. PilotShape' /\ SaidInv' /\ WorkInv' /\ ReplyInv'
    BY <2>1, <2>2 DEF AutoInv, PilotShape, SaidInv, WorkInv, ReplyInv, Working, Unsent
  <2>4. ~W!StillLeaving(undo.of) => Over(undo.of) \/ waitingSent[undo.of].unsure
    <3>1. waitingSent[undo.of].way \in {"late", "lost", "gone"} => waitingSent[undo.of].unsure
      BY <2>2 DEF AutoInv, ReplyInv
    <3> QED BY <2>2, <3>1 DEF W!StillLeaving, AutoInv, PilotShape, Over
  <2>5. UndoInv'
    BY <2>1, <2>2, <2>4 DEF AutoInv, UndoInv, Done, Over, Back
  <2> QED BY <2>3, <2>5 DEF AutoInv
<1>3. CASE W!Deletes
  <2> DEFINE m == undo.of
  <2>1. /\ undo.pc = "delete" /\ m \in Msgs /\ Done(m) /\ (Over(m) \/ waitingSent[m].unsure)
        /\ UNCHANGED <<log, pilot, said, awaiting>> /\ Len(said) # 0
    BY <1>3 DEF W!Deletes, W!chat, AutoInv, UndoInv, SaidInv
  <2>2. CASE undo' = W!NoUndo /\ UNCHANGED waitingSent
    <3>1. undo'.pc = "idle" /\ DOMAIN undo' = {"pc", "of"}
      BY <2>2 DEF W!NoUndo
    <3> QED BY <2>1, <2>2, <3>1
        DEF AutoInv, PilotShape, SaidInv, WorkInv, ReplyInv, UndoInv, Working, Unsent, Done, Over, Back
  <2>3. CASE /\ waitingSent' = [waitingSent EXCEPT ![m] = W!Deleted(waitingSent[m])]
             /\ undo' = [undo EXCEPT !.pc = "back"]
    <3>1. undo'.pc = "back" /\ undo'.of = m /\ DOMAIN undo' = {"pc", "of"}
      BY <2>3 DEF AutoInv, PilotShape
    <3>2. /\ DOMAIN waitingSent' = Msgs /\ DOMAIN waitingSent'[m] = {"way", "unsure", "blind", "shown"}
          /\ waitingSent'[m].way = IF waitingSent[m].way = "box" THEN "gone" ELSE waitingSent[m].way
          /\ waitingSent'[m].unsure <=> waitingSent[m].unsure
          /\ waitingSent'[m].blind <=> (waitingSent[m].unsure /\ waitingSent[m].way # "out")
          /\ waitingSent'[m].shown <=> (waitingSent[m].shown /\ waitingSent[m].way # "out")
          /\ \A k \in Msgs \ {m} : waitingSent'[k] = waitingSent[k]
      BY <2>1, <2>3 DEF AutoInv, PilotShape, W!Deleted
    <3>6. Back(m)'
      BY <2>1, <3>1, <3>2 DEF AutoInv, ReplyInv, Back, Over
    <3>3. PilotShape' /\ SaidInv' /\ WorkInv'
      BY <2>1, <3>1, <3>2 DEF AutoInv, PilotShape, SaidInv, WorkInv, Working
    <3>4. ReplyInv'
      <4>1. \A k \in Msgs : Unsent(k) => Unsent(k)'
        BY <2>1, <3>1, <3>2 DEF Unsent
      <4>2. \A k \in Msgs : waitingSent'[k].shown => waitingSent'[k].way \in {"out", "lost"}
        BY <2>1, <3>2 DEF AutoInv, ReplyInv
      <4>3. \A k \in Msgs : waitingSent'[k].way \in {"late", "lost", "gone"} => waitingSent'[k].unsure
        BY <2>1, <3>2 DEF AutoInv, ReplyInv, Over
      <4> QED BY <2>1, <4>1, <4>2, <4>3 DEF AutoInv, ReplyInv, WorkInv
    <3>5. UndoInv'
      BY <2>1, <3>1, <3>2, <3>6 DEF AutoInv, UndoInv, Done, Over, Back
    <3> QED BY <3>3, <3>4, <3>5 DEF AutoInv
  <2> QED BY <1>3, <2>2, <2>3 DEF W!Deletes
<1>4. CASE W!PutsBack
  <2>1. /\ undo.pc = "back" /\ undo' = [undo EXCEPT !.pc = "mark"] /\ Len(said) # 0
        /\ UNCHANGED <<log, waitingSent, pilot, said>>
    BY <1>4 DEF W!PutsBack, AutoInv, SaidInv
  <2>2. undo'.pc = "mark" /\ undo'.of = undo.of /\ DOMAIN undo' = {"pc", "of"}
    BY <2>1 DEF AutoInv, PilotShape
  <2>3. PilotShape' /\ SaidInv' /\ WorkInv' /\ ReplyInv'
    BY <2>1, <2>2 DEF AutoInv, PilotShape, SaidInv, WorkInv, ReplyInv, Working, Unsent
  <2>4. UndoInv'
    BY <2>1, <2>2 DEF AutoInv, UndoInv, Done, Over, Back
  <2> QED BY <2>3, <2>4 DEF AutoInv
<1>5. CASE W!Marks
  <2> DEFINE m == undo.of
  <2>1. /\ undo.pc = "mark" /\ m \in Msgs /\ Done(m) /\ Back(m) /\ Len(said) # 0
        /\ log' = [log EXCEPT ![m].outcome = "undone"] /\ undo' = W!NoUndo
        /\ UNCHANGED <<waitingSent, pilot, said, awaiting>>
    BY <1>5 DEF W!Marks, W!chat, AutoInv, UndoInv, SaidInv
  <2>2. /\ DOMAIN log' = Msgs /\ DOMAIN log'[m] = {"outcome", "prior", "at"}
        /\ log'[m].outcome = "undone" /\ \A k \in Msgs \ {m} : log'[k] = log[k]
        /\ undo'.pc = "idle" /\ DOMAIN undo' = {"pc", "of"}
    BY <2>1 DEF AutoInv, PilotShape, W!NoUndo
  <2>3. PilotShape' /\ SaidInv'
    BY <2>1, <2>2 DEF AutoInv, PilotShape, SaidInv
  <2>4. \A s \in Servers : Working(s) => pilot[s].of # m
    BY <2>1 DEF AutoInv, WorkInv, Done
  <2>5. WorkInv' /\ ReplyInv'
    BY <2>1, <2>2, <2>4 DEF AutoInv, WorkInv, ReplyInv, Working, Unsent
  <2>6. UndoInv'
    BY <2>1, <2>2 DEF AutoInv, UndoInv, Done, Over, Back
  <2> QED BY <2>3, <2>5, <2>6 DEF AutoInv
<1> QED BY <1>1, <1>2, <1>3, <1>4, <1>5 DEF W!Undo, Msgs

LEMMA AutoInit == ASSUME W!Init PROVE AutoInv
<1>1. \A m \in Msgs : log[m] = W!NoLog /\ waitingSent[m] = W!NoReply
  BY DEF W!Init, Msgs
<1>2. /\ DOMAIN log = Msgs /\ DOMAIN waitingSent = Msgs /\ DOMAIN pilot = Servers
      /\ \A s \in Servers : pilot[s] = W!NoWork
      /\ undo = W!NoUndo /\ said = <<>> /\ awaiting = 0
  BY DEF W!Init, Msgs
<1>3. PilotShape
  BY <1>1, <1>2 DEF PilotShape, W!NoLog, W!NoReply, W!NoWork, W!NoUndo
<1>4. SaidInv
  BY <1>1, <1>2, DeskAssumption DEF SaidInv, W!NoLog, W!NoWork, W!NoUndo
<1>5. WorkInv /\ ReplyInv /\ UndoInv
  BY <1>1, <1>2 DEF WorkInv, ReplyInv, UndoInv, Working, Unsent, Done, Over, Back,
                    W!NoLog, W!NoReply, W!NoWork, W!NoUndo
<1> QED BY <1>3, <1>4, <1>5 DEF AutoInv

LEMMA AutoNext == ASSUME AutoInv, [W!Next]_(W!vars) PROVE AutoInv'
<1>1. CASE UNCHANGED W!vars
  BY <1>1 DEF W!vars, W!chat, W!auto, AutoInv, PilotShape, SaidInv, WorkInv, ReplyInv, UndoInv, Working, Unsent, Done, Over, Back
<1>2. ASSUME NEW s \in Servers, W!Autopilot(s) \/ W!Crash(s) PROVE AutoInv'
  BY <1>2, LooksKeeps, ClaimsKeeps, WorksKeeps, SendsKeeps, FinishesKeeps, CrashKeeps DEF W!Autopilot
<1> QED BY <1>1, <1>2, TeamKeeps, LeavesKeeps, UndoKeeps DEF W!Next, Msgs

(* A reply that was taken back is not on the customer's phone, unless its  *)
(* outcome was unknown when it was: then WhatsApp could not be asked.      *)
THEOREM TakenBackHolds == SpecMC => []TakenBack
<1>1. InitMC => (part = "waiting" => AutoInv)
  BY AutoInit DEF InitMC
<1>2. (part = "waiting" => AutoInv) /\ [NextMC]_all => (part = "waiting" => AutoInv)'
  BY PartStep, AutoNext DEF all
<1>3. (part = "waiting" => AutoInv) => TakenBack
  BY DEF TakenBack, W!TakenBack, AutoInv, UndoInv, Over, Back, Msgs
<1> QED BY <1>1, <1>2, <1>3, PTL DEF SpecMC

-----------------------------------------------------------------------------
(* Reminders of a follow-up.                                               *)

(* What a server of the reminder job is at, and the servers about to tell. *)
AtWork(job) ==
  /\ job.pc \in {"claim", "tell"} /\ job.kind \in F!Kinds
  /\ DOMAIN job = {"pc", "kind", "version"}
Tellers(k) == {s \in Servers : followUpServer[s].pc = "tell" /\ followUpServer[s].kind = k}
Free(k) == IF k \in task.claimed THEN 0 ELSE 1

RemindShape ==
  /\ DOMAIN task = {"due", "who", "done", "claimed"} /\ version \in Nat
  /\ told \in [F!Kinds -> Nat]
  /\ DOMAIN followUpServer = Servers
  /\ \A s \in Servers : followUpServer[s] = F!Idle \/ AtWork(followUpServer[s])

(* A notice is sent, on its way, or still to be claimed, once per version. *)
RemindBound == \A k \in F!Kinds : told[k] + Cardinality(Tellers(k)) + Free(k) <= version
RemindInv == RemindShape /\ RemindBound

LEMMA Count == ASSUME NEW k PROVE IsFiniteSet(Tellers(k)) /\ Cardinality(Tellers(k)) \in Nat
<1>1. Tellers(k) \in SUBSET Servers
  BY DEF Tellers
<1>2. IsFiniteSet(Tellers(k))
  BY <1>1, DeskAssumption, FS_Subset
<1> QED BY <1>2, FS_CardinalityType

(* A server stops telling, or never did, and nothing else changes.         *)
LEMMA Quieter ==
  ASSUME RemindInv, NEW s \in Servers, DOMAIN followUpServer' = Servers,
         followUpServer'[s] = F!Idle \/ (AtWork(followUpServer'[s]) /\ followUpServer'[s].pc = "claim"),
         \A t \in Servers \ {s} : followUpServer'[t] = followUpServer[t], UNCHANGED <<task, version, told>>
  PROVE  RemindInv'
<1>1. RemindShape' /\ \A t \in Servers \ {s} : followUpServer'[t] = followUpServer[t]
  BY DEF RemindInv, RemindShape, AtWork
<1>2. followUpServer'[s].pc # "tell"
  BY <1>1 DEF F!Idle
<1>3. ASSUME NEW k \in F!Kinds PROVE Cardinality(Tellers(k)') <= Cardinality(Tellers(k))
  <2>1. Tellers(k)' \in SUBSET Tellers(k)
    BY <1>1, <1>2 DEF Tellers
  <2> HIDE DEF Tellers
  <2> QED BY <2>1, Count, FS_Subset
<1>4. ASSUME NEW k \in F!Kinds PROVE Cardinality(Tellers(k)') \in Nat
  <2>1. Tellers(k)' \in SUBSET Servers
    BY DEF Tellers
  <2>2. IsFiniteSet(Tellers(k)')
    BY <2>1, DeskAssumption, FS_Subset
  <2> QED BY <2>2, FS_CardinalityType
<1>5. RemindBound'
  <2> SUFFICES ASSUME NEW k \in F!Kinds PROVE (told[k] + Cardinality(Tellers(k)) + Free(k) <= version)'
    BY DEF RemindBound
  <2>1. told[k] + Cardinality(Tellers(k)) + Free(k) <= version /\ told[k] \in Nat /\ version \in Nat
    BY DEF RemindInv, RemindBound, RemindShape
  <2>2. told'[k] = told[k] /\ Free(k)' = Free(k) /\ version' = version /\ Free(k) \in {0, 1}
    BY DEF Free
  <2> HIDE DEF Tellers, Free
  <2> QED BY <2>1, <2>2, <1>3, <1>4, Count
<1> QED BY <1>1, <1>5 DEF RemindInv

LEMMA Claiming == ASSUME RemindInv, NEW s \in Servers, F!Claims(s) PROVE RemindInv'
<1> PICK kind : kind = followUpServer[s].kind
  OBVIOUS
<1>1. /\ followUpServer[s].pc = "claim" /\ AtWork(followUpServer[s]) /\ kind \in F!Kinds
      /\ UNCHANGED <<version, told>>
  BY DEF F!Claims, RemindInv, RemindShape, F!Idle, AtWork
<1>2. CASE kind \in task.claimed
  <2>1. followUpServer' = [followUpServer EXCEPT ![s] = F!Idle] /\ UNCHANGED <<task, version, told>>
    BY <1>1, <1>2 DEF F!Claims, F!Claimable
  <2>2. /\ DOMAIN followUpServer' = Servers /\ followUpServer'[s] = F!Idle
        /\ \A t \in Servers \ {s} : followUpServer'[t] = followUpServer[t]
    BY <2>1 DEF RemindInv, RemindShape
  <2> QED BY <2>1, <2>2, Quieter
<1>3. CASE kind \notin task.claimed
  <2>1. /\ task' = [task EXCEPT !.claimed = @ \cup {kind}]
        /\ followUpServer' = [followUpServer EXCEPT ![s].pc = "tell"]
    BY <1>1, <1>3 DEF F!Claims, F!Claimable
  <2>2. /\ DOMAIN followUpServer' = Servers /\ followUpServer'[s].pc = "tell" /\ followUpServer'[s].kind = kind
        /\ DOMAIN followUpServer'[s] = {"pc", "kind", "version"}
        /\ \A t \in Servers \ {s} : followUpServer'[t] = followUpServer[t]
    BY <1>1, <2>1 DEF RemindInv, RemindShape, AtWork
  <2>3. DOMAIN task' = {"due", "who", "done", "claimed"} /\ task'.claimed = task.claimed \cup {kind}
    BY <2>1 DEF RemindInv, RemindShape
  <2>4. RemindShape'
    BY <1>1, <2>2, <2>3 DEF RemindInv, RemindShape, AtWork
  <2>5. s \notin Tellers(kind) /\ Tellers(kind)' = Tellers(kind) \cup {s}
    BY <1>1, <2>2 DEF Tellers
  <2>6. Cardinality(Tellers(kind)') = Cardinality(Tellers(kind)) + 1
    <3> HIDE DEF Tellers
    <3> QED BY <2>5, Count, FS_AddElement
  <2>7. \A k \in F!Kinds \ {kind} : Tellers(k)' = Tellers(k) /\ Free(k)' = Free(k)
    BY <1>1, <2>2, <2>3 DEF Tellers, Free
  <2>8. Free(kind) = 1 /\ Free(kind)' = 0
    BY <1>3, <2>3 DEF Free
  <2>9. RemindBound'
    <3> SUFFICES ASSUME NEW k \in F!Kinds PROVE (told[k] + Cardinality(Tellers(k)) + Free(k) <= version)'
      BY DEF RemindBound
    <3>1. /\ told[k] + Cardinality(Tellers(k)) + Free(k) <= version /\ told[k] \in Nat /\ version \in Nat
          /\ told'[k] = told[k] /\ version' = version
      BY <1>1 DEF RemindInv, RemindBound, RemindShape
    <3>2. CASE k = kind
      <4> QED BY <3>1, <3>2, <2>6, <2>8, Count
    <3>3. CASE k # kind
      <4>1. Cardinality(Tellers(k)') = Cardinality(Tellers(k)) /\ Free(k)' = Free(k)
        BY <2>7, <3>3
      <4> QED BY <3>1, <4>1
    <3> QED BY <3>2, <3>3
  <2> QED BY <2>4, <2>9 DEF RemindInv
<1> QED BY <1>2, <1>3

LEMMA Telling == ASSUME RemindInv, NEW s \in Servers, F!Tells(s) PROVE RemindInv'
<1> PICK kind : kind = followUpServer[s].kind
  OBVIOUS
<1>1. /\ followUpServer[s].pc = "tell" /\ kind \in F!Kinds /\ UNCHANGED <<task, version>>
      /\ told' = [told EXCEPT ![kind] = @ + 1]
      /\ followUpServer' = [followUpServer EXCEPT ![s] = F!Idle]
  BY DEF F!Tells, RemindInv, RemindShape, F!Idle, AtWork
<1>2. /\ DOMAIN followUpServer' = Servers /\ followUpServer'[s] = F!Idle /\ followUpServer'[s].pc # "tell"
      /\ \A t \in Servers \ {s} : followUpServer'[t] = followUpServer[t]
  BY <1>1 DEF RemindInv, RemindShape, F!Idle
<1>3. told' \in [F!Kinds -> Nat] /\ told'[kind] = told[kind] + 1 /\ \A k \in F!Kinds \ {kind} : told'[k] = told[k]
  BY <1>1 DEF RemindInv, RemindShape
<1>4. RemindShape'
  BY <1>1, <1>2, <1>3 DEF RemindInv, RemindShape, AtWork
<1>5. s \in Tellers(kind) /\ Tellers(kind)' = Tellers(kind) \ {s}
  BY <1>1, <1>2 DEF Tellers
<1>6. Cardinality(Tellers(kind)') = Cardinality(Tellers(kind)) - 1
  <2> HIDE DEF Tellers
  <2> QED BY <1>5, Count, FS_RemoveElement
<1>7. \A k \in F!Kinds \ {kind} : Tellers(k)' = Tellers(k)
  BY <1>1, <1>2 DEF Tellers
<1>8. RemindBound'
  <2> SUFFICES ASSUME NEW k \in F!Kinds PROVE (told[k] + Cardinality(Tellers(k)) + Free(k) <= version)'
    BY DEF RemindBound
  <2>1. /\ told[k] + Cardinality(Tellers(k)) + Free(k) <= version /\ told[k] \in Nat /\ version \in Nat
        /\ version' = version /\ Free(k)' = Free(k) /\ Free(k) \in {0, 1}
    BY <1>1 DEF RemindInv, RemindBound, RemindShape, Free
  <2>2. CASE k = kind
    <3> HIDE DEF Tellers, Free
    <3> QED BY <2>1, <2>2, <1>3, <1>6, Count
  <2>3. CASE k # kind
    <3>1. Cardinality(Tellers(k)') = Cardinality(Tellers(k)) /\ told'[k] = told[k]
      BY <1>3, <1>7, <2>3
    <3> QED BY <2>1, <3>1
  <2> QED BY <2>2, <2>3
<1> QED BY <1>4, <1>8 DEF RemindInv

(* A new time or person empties the claims, and opens a version of its own.*)
LEMMA Resetting ==
  ASSUME RemindInv, DOMAIN task' = DOMAIN task, UNCHANGED <<followUpServer, told>>,
         version' = version + 1 \/ (version' = version /\ task'.claimed = task.claimed)
  PROVE  RemindInv'
<1>1. RemindShape'
  BY DEF RemindInv, RemindShape, AtWork
<1>2. RemindBound'
  <2> SUFFICES ASSUME NEW k \in F!Kinds PROVE (told[k] + Cardinality(Tellers(k)) + Free(k) <= version)'
    BY DEF RemindBound
  <2>1. /\ told[k] + Cardinality(Tellers(k)) + Free(k) <= version /\ told[k] \in Nat /\ version \in Nat
        /\ Free(k) \in {0, 1} /\ Free(k)' \in {0, 1} /\ told'[k] = told[k]
    BY DEF RemindInv, RemindBound, RemindShape, Free
  <2>2. Cardinality(Tellers(k)') = Cardinality(Tellers(k))
    BY DEF Tellers
  <2>3. task'.claimed = task.claimed => Free(k)' = Free(k)
    BY DEF Free
  <2> HIDE DEF Tellers, Free
  <2> QED BY <2>1, <2>2, <2>3, Count
<1> QED BY <1>1, <1>2 DEF RemindInv

LEMMA RemindNext == ASSUME RemindInv, [F!Next]_(F!vars) PROVE RemindInv'
<1>1. CASE UNCHANGED F!vars
  BY <1>1, Resetting DEF F!vars
<1>2. ASSUME NEW s \in Servers, NEW k \in F!Kinds, F!Lists(s, k) PROVE RemindInv'
  <2> DEFINE job == [pc |-> "claim", kind |-> k, version |-> version]
  <2>1. /\ DOMAIN followUpServer' = Servers /\ followUpServer'[s] = job
        /\ \A t \in Servers \ {s} : followUpServer'[t] = followUpServer[t]
        /\ UNCHANGED <<task, version, told>>
    BY <1>2 DEF F!Lists, RemindInv, RemindShape
  <2>2. AtWork(job) /\ job.pc = "claim"
    BY DEF AtWork
  <2> QED BY <2>1, <2>2, Quieter
<1>3. ASSUME NEW s \in Servers, F!Crashes(s) PROVE RemindInv'
  <2>1. /\ DOMAIN followUpServer' = Servers /\ followUpServer'[s] = F!Idle
        /\ \A t \in Servers \ {s} : followUpServer'[t] = followUpServer[t]
        /\ UNCHANGED <<task, version, told>>
    BY <1>3 DEF F!Crashes, RemindInv, RemindShape
  <2> QED BY <2>1, Quieter
<1>4. ASSUME F!Tick \/ F!LeadMoves \/ \E done \in BOOLEAN : F!Ticks(done) PROVE RemindInv'
  <2>1. DOMAIN task' = DOMAIN task /\ task'.claimed = task.claimed /\ UNCHANGED <<followUpServer, told, version>>
    BY <1>4 DEF F!Tick, F!LeadMoves, F!Ticks, RemindInv, RemindShape
  <2> QED BY <2>1, Resetting
<1>5. ASSUME (\E due \in 0..MaxChanges : F!Moves(due)) \/ (\E who \in Agents : F!Gives(who)) PROVE RemindInv'
  <2>1. DOMAIN task' = DOMAIN task /\ version' = version + 1 /\ UNCHANGED <<followUpServer, told>>
    BY <1>5 DEF F!Moves, F!Gives, F!Reset, RemindInv, RemindShape
  <2> QED BY <2>1, Resetting
<1> QED BY <1>1, <1>2, <1>3, <1>4, <1>5, Claiming, Telling DEF F!Next, F!Job

LEMMA RemindInit == ASSUME F!Init PROVE RemindInv
<1>1. RemindShape
  BY DEF F!Init, RemindShape
<1>2. \A k \in F!Kinds : Tellers(k) = {} /\ told[k] = 0 /\ Free(k) = 1 /\ version = 1
  BY DEF F!Init, Tellers, Free, F!Idle
<1>3. Cardinality({}) = 0
  BY FS_EmptySet
<1> QED BY <1>1, <1>2, <1>3 DEF RemindInv, RemindBound

LEMMA RemindsOnce == ASSUME RemindInv PROVE F!RemindedOnce
<1> SUFFICES ASSUME NEW k \in F!Kinds PROVE told[k] <= version
  BY DEF F!RemindedOnce
<1>1. told[k] + Cardinality(Tellers(k)) + Free(k) <= version /\ told[k] \in Nat /\ version \in Nat /\ Free(k) \in Nat
  BY DEF RemindInv, RemindBound, RemindShape, Free
<1> QED BY <1>1, Count

-----------------------------------------------------------------------------
(* Messages of the phone.                                                  *)

PhoneMessages == [chat : SyncedChats, from : {"customer", "phone"}]
Ways == {"no", "live", "history"}

(* The table follows the phone, and only a customer's live message raises. *)
StoreShape ==
  /\ phone \in Seq(PhoneMessages) /\ stored \in Seq(Ways) /\ raised \in Seq(Nat)
  /\ Len(stored) = Len(phone) /\ Len(raised) = Len(phone)

RaisedFits(m) ==
  /\ raised[m] = 0 \/ raised[m] = 1
  /\ stored[m] = "no" => raised[m] = 0
  /\ raised[m] = 1 => stored[m] = "live" /\ phone[m].from = "customer"

StoreInv == StoreShape /\ \A m \in 1..Len(phone) : RaisedFits(m)

LEMMA ArriveKeeps ==
  ASSUME StoreInv, NEW c \in SyncedChats, NEW from \in {"customer", "phone"}, S!Arrives(c, from)
  PROVE  StoreInv'
<1>1. /\ phone' = Append(phone, [chat |-> c, from |-> from])
      /\ stored' = Append(stored, "no") /\ raised' = Append(raised, 0)
  BY DEF S!Arrives
<1>2. /\ StoreShape' /\ Len(phone') = Len(phone) + 1 /\ Len(phone) \in Nat
      /\ stored'[Len(phone) + 1] = "no" /\ raised'[Len(phone) + 1] = 0
      /\ \A m \in 1..Len(phone) : phone'[m] = phone[m] /\ stored'[m] = stored[m] /\ raised'[m] = raised[m]
  <2>1. /\ phone \in Seq(PhoneMessages) /\ stored \in Seq(Ways) /\ raised \in Seq(Nat)
        /\ Len(stored) = Len(phone) /\ Len(raised) = Len(phone) /\ Len(phone) \in Nat
    BY DEF StoreInv, StoreShape
  <2>2. [chat |-> c, from |-> from] \in PhoneMessages /\ "no" \in Ways
    BY DEF PhoneMessages, Ways
  <2> QED BY <1>1, <2>1, <2>2, AppendProperties DEF StoreShape
<1>3. ASSUME NEW m \in 1..Len(phone') PROVE RaisedFits(m)'
  <2>1. m \in 1..Len(phone) \/ m = Len(phone) + 1
    BY <1>2
  <2> QED BY <1>2, <2>1 DEF StoreInv, RaisedFits
<1> QED BY <1>2, <1>3 DEF StoreInv

(* Outside the table, an update changes nothing.                           *)
LEMMA HandleKeeps ==
  ASSUME StoreInv, NEW m, NEW c, NEW how \in {"live", "history"}, S!Handle(m, c, how), phone' = phone
  PROVE  StoreInv'
<1>1. CASE S!Known(m)
  BY <1>1 DEF S!Handle, StoreInv, StoreShape, RaisedFits
<1>2. CASE ~S!Known(m)
  <2> DEFINE n == raised[m] + (IF how = "live" /\ phone[m].from = "customer" THEN 1 ELSE 0)
  <2>1. /\ stored' = [stored EXCEPT ![m] = how] /\ raised' = [raised EXCEPT ![m] = n]
        /\ stored[m] = "no"
    BY <1>2 DEF S!Handle, S!Known
  <2>2. /\ DOMAIN stored = 1..Len(phone) /\ DOMAIN raised = 1..Len(phone)
        /\ stored \in Seq(Ways) /\ raised \in Seq(Nat)
    BY DEF StoreInv, StoreShape
  <2>3. CASE m \notin 1..Len(phone)
    <3>1. stored' = stored /\ raised' = raised
      BY <2>1, <2>2, <2>3
    <3> QED BY <3>1 DEF StoreInv, StoreShape, RaisedFits
  <2>4. CASE m \in 1..Len(phone)
    <3>1. raised[m] = 0 /\ n \in {0, 1} /\ (n = 1 => how = "live" /\ phone[m].from = "customer")
      BY <2>1, <2>4 DEF StoreInv, RaisedFits
    <3> HIDE DEF n
    <3>2. /\ stored' \in Seq(Ways) /\ Len(stored') = Len(stored)
          /\ \A k \in 1..Len(phone) : stored'[k] = IF k = m THEN how ELSE stored[k]
      BY <2>1, <2>2, <2>4, ExceptSeq DEF Ways
    <3>3. /\ raised' \in Seq(Nat) /\ Len(raised') = Len(raised)
          /\ \A k \in 1..Len(phone) : raised'[k] = IF k = m THEN n ELSE raised[k]
      BY <2>1, <2>2, <2>4, <3>1, ExceptSeq
    <3>4. StoreShape'
      BY <3>2, <3>3 DEF StoreInv, StoreShape
    <3>5. \A k \in 1..Len(phone) : RaisedFits(k)'
      BY <3>1, <3>2, <3>3 DEF StoreInv, RaisedFits
    <3> QED BY <3>4, <3>5 DEF StoreInv
  <2> QED BY <2>3, <2>4
<1> QED BY <1>1, <1>2

LEMMA StoreNext == ASSUME StoreInv, [S!Next]_(S!vars) PROVE StoreInv'
<1>1. ASSUME UNCHANGED <<phone, stored, raised>> PROVE StoreInv'
  BY <1>1 DEF StoreInv, StoreShape, RaisedFits
<1>2. ASSUME NEW m \in events, S!Live(m) PROVE StoreInv'
  BY <1>2, HandleKeeps DEF S!Live
<1>3. CASE S!Store
  <2>1. PICK m : m = S!Oldest(pass.batch)
    OBVIOUS
  <2>2. PICK c : c = S!Current
    OBVIOUS
  <2> QED BY <1>3, <2>1, <2>2, HandleKeeps DEF S!Store
<1>4. CASE S!Reads
  <2>1. PICK m : m = S!Oldest(reader.batch)
    OBVIOUS
  <2>2. PICK c : c = reader.of
    OBVIOUS
  <2> QED BY <1>1, <1>4, <2>1, <2>2, HandleKeeps DEF S!Reads
<1>5. ASSUME S!Down \/ S!Up \/ S!PassBegins \/ S!Listed \/ S!Merge \/ S!Chosen \/ S!ReadHistory
             \/ S!ChatDone \/ S!PassEnds \/ S!CallFails \/ \E c \in S!Conversations : S!Opens(c)
      PROVE  UNCHANGED <<phone, stored, raised>>
  BY <1>5, Zenon DEF S!Down, S!Up, S!PassBegins, S!Listed, S!Merge, S!Chosen, S!ReadHistory,
              S!ChatDone, S!PassEnds, S!CallFails, S!Opens
<1>6. CASE UNCHANGED S!vars
  BY <1>1, <1>6 DEF S!vars
<1> QED BY <1>1, <1>2, <1>3, <1>4, <1>5, <1>6, ArriveKeeps DEF S!Next, S!Pass

LEMMA StoreInit == ASSUME S!Init PROVE StoreInv
  BY EmptySeq DEF S!Init, StoreInv, StoreShape

LEMMA RaisesOnce == ASSUME StoreInv PROVE S!RaisedOnce
  BY DEF StoreInv, S!RaisedOnce, S!Messages, RaisedFits

(* A message that came in is announced once, whichever of the live event,  *)
(* the sync and the other server stores it, and a follow-up reminds once   *)
(* at most for each time and person that was set, for any number of        *)
(* servers: what is claimed is no longer free (handleIncomingMessage,      *)
(* pumpLeadReminders).                                                     *)
THEOREM SaidOnceHolds == SpecMC => []SaidOnce
<1> DEFINE Inv == (part = "sync" => StoreInv) /\ (part = "followUp" => RemindInv)
<1>1. InitMC => Inv
  BY PartInit, StoreInit, RemindInit
<1>2. Inv /\ [NextMC]_all => Inv'
  BY PartStep, StoreNext, RemindNext
<1>3. Inv => SaidOnce
  BY RaisesOnce, RemindsOnce DEF SaidOnce
<1> QED BY <1>1, <1>2, <1>3, PTL DEF SpecMC

-----------------------------------------------------------------------------
(* Labels and their copy on the contact.                                   *)

NameOrNone == LabelNames \cup {Absent}
TagPairs == Prospects \X LabelIds
TxFields == {"pc", "adds", "cuts", "named", "who", "locks", "seen", "alone"}
Held(t, l) == \E n \in NameOrNone : <<l, n>> \in t.named

(* A change names one label at most; it links contacts it rewrites, and    *)
(* unlinks such contacts or a label it names.                              *)
TxShape(t) ==
  /\ DOMAIN t = TxFields
  /\ t.adds \subseteq TagPairs /\ t.cuts \subseteq TagPairs
  /\ t.named = {} \/ \E l \in LabelIds, n \in NameOrNone : t.named = {<<l, n>>}
  /\ \A c \in Prospects, l \in LabelIds : <<c, l>> \in t.adds => c \in t.who
  /\ \A c \in Prospects, l \in LabelIds : <<c, l>> \in t.cuts => c \in t.who \/ Held(t, l)
  /\ \A c \in Prospects, l \in LabelIds : <<l, Absent>> \in t.named => <<c, l>> \in t.cuts

RowsInv ==
  /\ name \in [LabelIds -> NameOrNone] /\ links \subseteq TagPairs
  /\ \A c \in Prospects, l \in LabelIds : <<c, l>> \in links => name[l] # Absent
  /\ DOMAIN tx = Requests
  /\ \A w \in Requests : TxShape(tx[w]) /\ (tx[w].pc = "idle" => tx[w] = T!NoTx)

(* A label that is being named has no bearer the change does not rewrite,  *)
(* and no other change names it or links it.                               *)
Unshared(w, t, l) ==
  /\ \A c \in Prospects \ t.who : <<c, l>> \notin links
  /\ \A v \in Requests \ {w} : ~Held(tx[v], l) /\ \A c \in Prospects : <<c, l>> \notin tx[v].adds
HeldInv == \A w \in Requests, l \in LabelIds : Held(tx[w], l) => Unshared(w, tx[w], l)

(* What is linked exists.                                                  *)
LinkedInv == \A w \in Requests, c \in Prospects, l \in LabelIds :
               <<c, l>> \in tx[w].adds => T!NameIn(tx[w], l) # Absent

(* A change alone with its contacts has computed what it will write.       *)
AloneInv == \A w \in Requests : tx[w].pc # "idle" /\ tx[w].alone =>
              \A v \in Requests \ {w} : tx[v].pc = "idle" \/ tx[v].who \cap tx[w].who = {}
SeenInv == \A w \in Requests : tx[w].pc \in {"wait", "commit"} /\ tx[w].alone =>
             \A c \in tx[w].who \cap Prospects : tx[w].seen[c] = T!CopyIn(tx[w], c)

TagInv == RowsInv /\ HeldInv /\ LinkedInv /\ AloneInv /\ SeenInv /\ T!TagsFollow

(* What a transaction sees of a name and of a contact's labels.            *)
LEMMA NameSeen ==
  ASSUME NEW t, TxShape(t), NEW l \in LabelIds
  PROVE  /\ ~Held(t, l) => T!NameIn(t, l) = name[l]
         /\ \A n \in NameOrNone : <<l, n>> \in t.named => T!NameIn(t, l) = n
<1>1. ~Held(t, l) => T!NameIn(t, l) = name[l]
  BY DEF T!NameIn, Held, NameOrNone
<1>2. ASSUME NEW n \in NameOrNone, <<l, n>> \in t.named PROVE T!NameIn(t, l) = n
  <2>1. t.named = {<<l, n>>}
    BY <1>2 DEF TxShape
  <2>2. \A m \in NameOrNone : <<l, m>> \in t.named <=> m = n
    BY <2>1
  <2>3. T!NameIn(t, l) = CHOOSE m \in NameOrNone : <<l, m>> \in t.named
    BY <1>2 DEF T!NameIn, NameOrNone
  <2> QED BY <2>2, <2>3
<1> QED BY <1>1, <1>2

LEMMA CopySeen ==
  ASSUME NEW t, NEW c
  PROVE  T!CopyIn(t, c) = {T!NameIn(t, k[2]) : k \in {j \in (links \cup t.adds) \ t.cuts : j[1] = c}}
  BY DEF T!CopyIn, T!LinksIn

(* Two transactions that change the same see the same.                     *)
SameRows(t, u) == u.adds = t.adds /\ u.cuts = t.cuts /\ u.named = t.named /\ u.who = t.who

LEMMA SameSees ==
  ASSUME NEW t, NEW u, SameRows(t, u), UNCHANGED <<name, links>>
  PROVE  /\ \A l : T!NameIn(u, l)' = T!NameIn(t, l)
         /\ \A c : T!CopyIn(u, c)' = T!CopyIn(t, c)
         /\ \A l : Held(u, l) <=> Held(t, l)
  BY DEF SameRows, T!NameIn, T!CopyIn, T!LinksIn, Held

LEMMA SeesSame ==
  ASSUME NEW v \in Requests, SameRows(tx[v], tx'[v]), UNCHANGED <<name, links>>
  PROVE  /\ \A l : T!NameIn(tx[v], l)' = T!NameIn(tx[v], l)
         /\ \A c : T!CopyIn(tx[v], c)' = T!CopyIn(tx[v], c)
<1>1. PICK t, u : t = tx[v] /\ u = tx'[v]
  OBVIOUS
<1>2. /\ \A l : T!NameIn(tx[v], l)' = T!NameIn(u, l)'
      /\ \A c : T!CopyIn(tx[v], c)' = T!CopyIn(u, c)'
  BY <1>1 DEF T!NameIn, T!CopyIn, T!LinksIn
<1>3. /\ \A l : T!NameIn(u, l)' = T!NameIn(t, l)
      /\ \A c : T!CopyIn(u, c)' = T!CopyIn(t, c)
  BY <1>1, SameSees
<1> QED BY <1>1, <1>2, <1>3

LEMMA SameShape ==
  ASSUME NEW t, NEW u, TxShape(t), SameRows(t, u), DOMAIN u = TxFields
  PROVE  TxShape(u)
  BY DEF TxShape, SameRows, Held

LEMMA TagsInit == ASSUME T!Init PROVE TagInv
<1>1. /\ name \in [LabelIds -> NameOrNone] /\ links = {} /\ \A w \in Requests : tx[w] = T!NoTx
      /\ DOMAIN tx = Requests
  BY DEF T!Init, NameOrNone
<1>2. TxShape(T!NoTx) /\ T!NoTx.pc = "idle" /\ T!NoTx.adds = {} /\ T!NoTx.named = {}
  BY DEF T!NoTx, TxShape, TxFields
<1>3. T!TagsFollow
  BY DEF T!Init, T!TagsFollow, T!Copied
<1> QED BY <1>1, <1>2, <1>3 DEF TagInv, RowsInv, HeldInv, Held, LinkedInv, AloneInv, SeenInv

(* A change that opens: it takes the labels and contacts it may have.      *)
MayOpen(w, t) ==
  /\ TxShape(t)
  /\ \A l \in LabelIds : Held(t, l) => Unshared(w, t, l)
  /\ \A c \in Prospects, l \in LabelIds : <<c, l>> \in t.adds =>
       T!NameIn(t, l) # Absent /\ \A v \in Requests \ {w} : ~Held(tx[v], l)

LEMMA OpenKeeps ==
  ASSUME TagInv, NEW w \in Requests, NEW t, MayOpen(w, t), T!Open(w, t)
  PROVE  TagInv'
<1> DEFINE shares == {v \in Requests \ {w} : tx[v].pc # "idle" /\ tx[v].who \cap t.who # {}}
<1>0. UNCHANGED <<name, links, tags, labelAlone>>
  BY DEF T!Open
<1>1. /\ tx[w].pc = "idle" /\ DOMAIN tx = Requests
      /\ tx' = [v \in Requests |->
                  CASE v = w       -> [t EXCEPT !.pc = "resync", !.alone = (shares = {})]
                    [] v \in shares -> [tx[v] EXCEPT !.alone = FALSE]
                    [] OTHER       -> tx[v]]
  BY DEF T!Open, TagInv, RowsInv
<1>2. /\ SameRows(t, tx'[w]) /\ DOMAIN tx'[w] = TxFields /\ tx'[w].pc = "resync"
      /\ tx'[w].alone <=> shares = {}
  BY <1>1 DEF MayOpen, TxShape, TxFields, SameRows
<1>3. ASSUME NEW v \in Requests \ {w}
      PROVE  /\ SameRows(tx[v], tx'[v]) /\ DOMAIN tx'[v] = TxFields /\ tx'[v].pc = tx[v].pc
             /\ tx'[v].seen = tx[v].seen
             /\ v \notin shares => tx'[v] = tx[v]
             /\ v \in shares => ~tx'[v].alone
  <2>1. DOMAIN tx[v] = TxFields
    BY DEF TagInv, RowsInv, TxShape
  <2>2. CASE v \in shares
    <3>1. tx'[v] = [tx[v] EXCEPT !.alone = FALSE]
      BY <1>1, <2>2
    <3> QED BY <2>1, <2>2, <3>1 DEF SameRows, TxFields
  <2>3. CASE v \notin shares
    <3>1. tx'[v] = tx[v]
      BY <1>1, <2>3
    <3> QED BY <2>1, <2>3, <3>1 DEF SameRows
  <2> QED BY <2>2, <2>3
<1>4. \A v \in Requests \ {w} : \A l : Held(tx'[v], l) <=> Held(tx[v], l)
  BY <1>3 DEF SameRows, Held
<1>5. \A l : Held(tx'[w], l) <=> Held(t, l)
  BY <1>2 DEF SameRows, Held
<1>5a. \A v \in Requests \ {w} : v \notin shares <=> (tx[v].pc = "idle" \/ tx[v].who \cap t.who = {})
  OBVIOUS
<1> HIDE DEF shares
<1>6. RowsInv'
  <2>1. TxShape(tx'[w])
    BY <1>2, SameShape DEF MayOpen
  <2>2. \A v \in Requests \ {w} : TxShape(tx'[v])
    BY <1>3, SameShape DEF TagInv, RowsInv
  <2>3. ASSUME NEW v \in Requests, tx'[v].pc = "idle" PROVE tx'[v] = T!NoTx
    <3>1. v # w /\ tx[v].pc = "idle" /\ v \notin shares
      BY <1>2, <1>3, <1>5a, <2>3
    <3> QED BY <1>3, <3>1 DEF TagInv, RowsInv
  <2>4. \A v \in Requests : TxShape(tx'[v])
    BY <2>1, <2>2
  <2>5. DOMAIN tx' = Requests
    BY <1>1
  <2>6. name' = name /\ links' = links /\ RowsInv
    BY <1>0 DEF TagInv
  <2> QED BY <2>3, <2>4, <2>5, <2>6 DEF RowsInv, TxShape, Held
<1>7. HeldInv'
  <2> SUFFICES ASSUME NEW v \in Requests, NEW l \in LabelIds, Held(tx'[v], l) PROVE Unshared(v, tx[v], l)'
    BY DEF HeldInv, Held
  <2>1. CASE v = w
    <3>1. Unshared(w, t, l)
      BY <1>5, <2>1 DEF MayOpen
    <3> QED BY <1>0, <1>2, <1>3, <1>4, <2>1, <3>1 DEF Unshared, SameRows
  <2>2. CASE v # w
    <3>1. Held(tx[v], l) /\ Unshared(v, tx[v], l)
      BY <1>4, <2>2 DEF TagInv, HeldInv
    <3>2. ~Held(t, l) /\ \A c \in Prospects : <<c, l>> \notin t.adds
      BY <2>2, <3>1 DEF MayOpen, Unshared
    <3> QED BY <1>0, <1>2, <1>3, <1>4, <1>5, <2>2, <3>1, <3>2 DEF Unshared, SameRows
  <2> QED BY <2>1, <2>2
<1>8. LinkedInv'
  <2> SUFFICES ASSUME NEW v \in Requests, NEW c \in Prospects, NEW l \in LabelIds, <<c, l>> \in tx'[v].adds
               PROVE  T!NameIn(tx[v], l)' # Absent
    BY DEF LinkedInv
  <2>1. CASE v = w
    <3>1. <<c, l>> \in t.adds /\ T!NameIn(t, l) # Absent
      BY <1>2, <2>1 DEF SameRows, MayOpen
    <3> QED BY <1>0, <1>2, <2>1, <3>1 DEF SameRows, T!NameIn
  <2>2. CASE v # w
    <3>1. <<c, l>> \in tx[v].adds /\ T!NameIn(tx[v], l) # Absent
      BY <1>3, <2>2 DEF SameRows, TagInv, LinkedInv
    <3>2. SameRows(tx[v], tx'[v])
      BY <1>3, <2>2
    <3> QED BY <1>0, <2>2, <3>1, <3>2 DEF SameRows, T!NameIn
  <2> QED BY <2>1, <2>2
<1>9. AloneInv'
  <2> SUFFICES ASSUME NEW v \in Requests, tx'[v].pc # "idle", tx'[v].alone, NEW u \in Requests \ {v}
               PROVE  tx'[u].pc = "idle" \/ tx'[u].who \cap tx'[v].who = {}
    BY DEF AloneInv
  <2>1. CASE v = w
    <3>1. u \notin shares
      BY <1>2, <2>1
    <3>2. tx'[w].who = t.who /\ tx'[u].who = tx[u].who /\ tx'[u].pc = tx[u].pc
      BY <1>2, <1>3, <2>1 DEF SameRows
    <3> QED BY <1>5a, <2>1, <3>1, <3>2
  <2>2. CASE v # w /\ u = w
    <3>1. v \notin shares
      BY <1>3, <2>2
    <3>2. tx'[w].who = t.who /\ tx'[v].who = tx[v].who /\ tx'[v].pc = tx[v].pc
      BY <1>2, <1>3, <2>2 DEF SameRows
    <3>3. tx[v].who \cap t.who = {}
      BY <1>5a, <2>2, <3>1, <3>2
    <3> QED BY <2>2, <3>2, <3>3
  <2>3. CASE v # w /\ u # w
    <3>1. v \notin shares /\ tx'[v] = tx[v]
      BY <1>3, <2>3
    <3> QED BY <1>3, <2>3, <3>1 DEF SameRows, TagInv, AloneInv
  <2> QED BY <2>1, <2>2, <2>3
<1>10. SeenInv'
  <2> SUFFICES ASSUME NEW v \in Requests, tx'[v].pc \in {"wait", "commit"}, tx'[v].alone,
                      NEW c \in tx'[v].who \cap Prospects
               PROVE  tx'[v].seen[c] = T!CopyIn(tx[v], c)'
    BY DEF SeenInv
  <2>1. v # w /\ v \notin shares /\ tx'[v] = tx[v]
    BY <1>2, <1>3
  <2>2. tx[v].seen[c] = T!CopyIn(tx[v], c)
    BY <2>1 DEF TagInv, SeenInv
  <2>3. T!CopyIn(tx[v], c)' = T!CopyIn(tx[v], c)
    BY <1>0, <2>1 DEF T!CopyIn, T!LinksIn, T!NameIn
  <2> QED BY <2>1, <2>2, <2>3
<1>11. T!TagsFollow'
  <2> SUFFICES ASSUME NEW c \in Prospects, labelAlone'[c], T!Untouched(c)' PROVE T!Copied(c)'
    BY DEF T!TagsFollow
  <2>1. T!Untouched(c)
    <3> SUFFICES ASSUME NEW v \in Requests, tx[v].pc # "idle" PROVE c \notin tx[v].who
      BY DEF T!Untouched
    <3>1. v # w /\ tx'[v].pc # "idle" /\ tx'[v].who = tx[v].who
      BY <1>1, <1>3 DEF SameRows
    <3> QED BY <3>1 DEF T!Untouched
  <2>2. T!Copied(c)
    BY <1>0, <2>1 DEF TagInv, T!TagsFollow
  <2> QED BY <1>0, <2>2 DEF T!Copied
<1> QED BY <1>6, <1>7, <1>8, <1>9, <1>10, <1>11 DEF TagInv

(* The rows others hold, when no lock stands in the way.                   *)
LEMMA NotHeld ==
  ASSUME TagInv, NEW w \in Requests, NEW l \in LabelIds
  PROVE  /\ ~T!LabelHeld(w, l) => \A v \in Requests \ {w} : ~Held(tx[v], l)
         /\ ~T!LabelLinked(w, l) => \A v \in Requests \ {w}, c \in Prospects : <<c, l>> \notin tx[v].adds
<1>1. ASSUME NEW v \in Requests \ {w}, tx[v].pc = "idle"
      PROVE  ~Held(tx[v], l) /\ \A c \in Prospects : <<c, l>> \notin tx[v].adds
  <2>1. tx[v] = T!NoTx
    BY <1>1 DEF TagInv, RowsInv
  <2>2. tx[v].named = {} /\ tx[v].adds = {}
    BY <2>1 DEF T!NoTx
  <2> QED BY <2>2 DEF Held
<1>2. \A v \in Requests \ {w} : tx[v].pc # "idle" => tx[v] \in T!Others(w)
  BY DEF T!Others
<1>3. ASSUME ~T!LabelHeld(w, l), NEW v \in Requests \ {w} PROVE ~Held(tx[v], l)
  BY <1>1, <1>2, <1>3 DEF T!LabelHeld, Held, NameOrNone
<1>4. ASSUME ~T!LabelLinked(w, l), NEW v \in Requests \ {w}, NEW c \in Prospects
      PROVE  <<c, l>> \notin tx[v].adds
  BY <1>1, <1>2, <1>4 DEF T!LabelLinked
<1> QED BY <1>3, <1>4

LEMMA AddKeeps ==
  ASSUME TagInv, NEW w \in Requests, NEW c \in Prospects, NEW n \in LabelNames, T!AddTag(w, c, n)
  PROVE  TagInv'
<1>1. PICK l \in LabelIds :
        /\ ~T!LabelHeld(w, l)
        /\ \/ name[l] = n /\ T!Open(w, [T!NoTx EXCEPT !.adds = {<<c, l>>}, !.who = {c}])
           \/ name[l] = Absent /\ T!Open(w, [T!NoTx EXCEPT !.adds = {<<c, l>>}, !.who = {c}, !.named = {<<l, n>>}])
  BY DEF T!AddTag
<1>2. \A v \in Requests \ {w} : ~Held(tx[v], l)
  BY <1>1, NotHeld
<1>3. n \in NameOrNone /\ n # Absent
  BY DeskAssumption DEF NameOrNone
<1>4. ASSUME name[l] = n, T!Open(w, [T!NoTx EXCEPT !.adds = {<<c, l>>}, !.who = {c}]) PROVE TagInv'
  <2> DEFINE t == [T!NoTx EXCEPT !.adds = {<<c, l>>}, !.who = {c}]
  <2>1. /\ DOMAIN t = TxFields /\ t.adds = {<<c, l>>} /\ t.who = {c} /\ t.cuts = {} /\ t.named = {}
    BY DEF T!NoTx, TxFields
  <2> HIDE DEF t
  <2>2. TxShape(t) /\ \A k \in LabelIds : ~Held(t, k)
    BY <2>1 DEF TxShape, Held, TagPairs
  <2>3. T!NameIn(t, l) = n
    BY <1>4, <2>2, NameSeen
  <2>4. MayOpen(w, t)
    BY <1>2, <1>3, <2>1, <2>2, <2>3 DEF MayOpen
  <2> QED BY <1>4, <2>4, OpenKeeps DEF t
<1>5. ASSUME name[l] = Absent, T!Open(w, [T!NoTx EXCEPT !.adds = {<<c, l>>}, !.who = {c}, !.named = {<<l, n>>}])
      PROVE  TagInv'
  <2> DEFINE t == [T!NoTx EXCEPT !.adds = {<<c, l>>}, !.who = {c}, !.named = {<<l, n>>}]
  <2>1. /\ DOMAIN t = TxFields /\ t.adds = {<<c, l>>} /\ t.who = {c} /\ t.cuts = {} /\ t.named = {<<l, n>>}
    BY DEF T!NoTx, TxFields
  <2> HIDE DEF t
  <2>2. TxShape(t) /\ \A k \in LabelIds : Held(t, k) => k = l
    BY <1>3, <2>1 DEF TxShape, Held, TagPairs
  <2>3. T!NameIn(t, l) = n
    BY <1>3, <2>1, <2>2, NameSeen
  <2>4. Unshared(w, t, l)
    <3>1. \A d \in Prospects : <<d, l>> \notin links
      BY <1>5 DEF TagInv, RowsInv
    <3>2. ASSUME NEW v \in Requests \ {w}, NEW d \in Prospects, <<d, l>> \in tx[v].adds PROVE FALSE
      <4>1. T!NameIn(tx[v], l) # Absent
        BY <3>2 DEF TagInv, LinkedInv
      <4>2. T!NameIn(tx[v], l) = name[l]
        <5>1. PICK u : u = tx[v]
          OBVIOUS
        <5>2. TxShape(u) /\ ~Held(u, l)
          BY <1>2, <5>1 DEF TagInv, RowsInv
        <5>3. T!NameIn(u, l) = name[l]
          BY <5>2, NameSeen
        <5> QED BY <5>1, <5>3
      <4> QED BY <1>5, <4>1, <4>2
    <3> QED BY <1>2, <3>1, <3>2 DEF Unshared
  <2>5. MayOpen(w, t)
    BY <1>2, <1>3, <2>1, <2>2, <2>3, <2>4 DEF MayOpen
  <2> QED BY <1>5, <2>5, OpenKeeps DEF t
<1> QED BY <1>1, <1>4, <1>5

LEMMA RemoveKeeps ==
  ASSUME TagInv, NEW w \in Requests, NEW c \in Prospects, NEW l \in LabelIds, T!RemoveLabel(w, c, l)
  PROVE  TagInv'
<1> DEFINE t == [T!NoTx EXCEPT !.cuts = {<<c, l>>}, !.who = {c}]
<1>1. T!Open(w, t)
  BY DEF T!RemoveLabel
<1>2. DOMAIN t = TxFields /\ t.adds = {} /\ t.who = {c} /\ t.cuts = {<<c, l>>} /\ t.named = {}
  BY DEF T!NoTx, TxFields
<1> HIDE DEF t
<1>3. MayOpen(w, t)
  BY <1>2 DEF MayOpen, TxShape, Held, TagPairs
<1> QED BY <1>1, <1>3, OpenKeeps DEF t

LEMMA SetKeeps ==
  ASSUME TagInv, NEW w \in Requests, NEW c \in Prospects, NEW ls \in SUBSET LabelIds, T!SetLabels(w, c, ls)
  PROVE  TagInv'
<1> DEFINE t == [T!NoTx EXCEPT !.adds = {<<c, l>> : l \in ls}, !.cuts = {<<c, l>> : l \in LabelIds \ ls},
                              !.who = {c}, !.locks = {c}]
<1>1. T!Open(w, t) /\ \A l \in ls : name[l] # Absent /\ ~T!LabelHeld(w, l)
  BY DEF T!SetLabels
<1>2. /\ DOMAIN t = TxFields /\ t.adds = {<<c, l>> : l \in ls} /\ t.cuts = {<<c, l>> : l \in LabelIds \ ls}
      /\ t.who = {c} /\ t.named = {}
  BY DEF T!NoTx, TxFields
<1> HIDE DEF t
<1>3. TxShape(t) /\ \A l \in LabelIds : ~Held(t, l)
  BY <1>2 DEF TxShape, Held, TagPairs
<1>4. \A d \in Prospects, l \in LabelIds : <<d, l>> \in t.adds => l \in ls
  BY <1>2
<1>5. \A l \in ls : T!NameIn(t, l) = name[l] /\ \A v \in Requests \ {w} : ~Held(tx[v], l)
  BY <1>1, <1>3, NameSeen, NotHeld
<1>6. MayOpen(w, t)
  BY <1>1, <1>3, <1>4, <1>5 DEF MayOpen
<1> QED BY <1>1, <1>6, OpenKeeps DEF t

(* A label that is changed or deleted: its bearers are rewritten.          *)
LEMMA NamingKeeps ==
  ASSUME TagInv, NEW w \in Requests, NEW l \in LabelIds, ~T!LabelHeld(w, l), ~T!LabelLinked(w, l),
         NEW n \in NameOrNone, NEW t, T!Open(w, t),
         DOMAIN t = TxFields, t.adds = {}, t.named = {<<l, n>>}, t.who = T!Bearers(l),
         t.cuts = {} \/ t.cuts = {<<c, l>> : c \in Prospects},
         n = Absent => t.cuts = {<<c, l>> : c \in Prospects}
  PROVE  TagInv'
<1>1. \A k \in LabelIds : Held(t, k) <=> k = l
  BY DEF Held
<1>2. t.cuts \subseteq TagPairs /\ \A c \in Prospects, k \in LabelIds : <<c, k>> \in t.cuts => k = l
  BY DEF TagPairs
<1>3. \A c \in Prospects, k \in LabelIds : <<k, Absent>> \in t.named => <<c, k>> \in t.cuts
  OBVIOUS
<1>4. TxShape(t)
  BY <1>1, <1>2, <1>3 DEF TxShape
<1>5. Unshared(w, t, l)
  BY NotHeld DEF Unshared, T!Bearers
<1>6. MayOpen(w, t)
  BY <1>1, <1>4, <1>5 DEF MayOpen
<1> QED BY <1>6, OpenKeeps

LEMMA RelabelKeeps ==
  ASSUME TagInv, NEW w \in Requests, NEW l \in LabelIds,
         T!DeleteLabel(w, l) \/ \E n \in LabelNames : T!UpdateLabel(w, l, n)
  PROVE  TagInv'
<1>1. CASE T!DeleteLabel(w, l)
  <2>1. PICK t : t = [T!NoTx EXCEPT !.named = {<<l, Absent>>}, !.cuts = {<<c, l>> : c \in Prospects},
                                   !.who = T!Bearers(l)]
    OBVIOUS
  <2>2. ~T!LabelHeld(w, l) /\ ~T!LabelLinked(w, l) /\ Absent \in NameOrNone /\ T!Open(w, t)
    BY <1>1, <2>1 DEF T!DeleteLabel, NameOrNone
  <2>3. /\ DOMAIN t = TxFields /\ t.adds = {} /\ t.named = {<<l, Absent>>} /\ t.who = T!Bearers(l)
        /\ t.cuts = {<<c, l>> : c \in Prospects}
    BY <2>1 DEF T!NoTx, TxFields
  <2> QED BY <2>2, <2>3, NamingKeeps
<1>2. ASSUME NEW n \in LabelNames, T!UpdateLabel(w, l, n) PROVE TagInv'
  <2>1. PICK t : t = [T!NoTx EXCEPT !.named = {<<l, n>>}, !.who = T!Bearers(l)]
    OBVIOUS
  <2>2. /\ ~T!LabelHeld(w, l) /\ ~T!LabelLinked(w, l) /\ n \in NameOrNone /\ n # Absent
        /\ T!Open(w, t)
    BY <1>2, <2>1, DeskAssumption DEF T!UpdateLabel, NameOrNone
  <2>3. DOMAIN t = TxFields /\ t.adds = {} /\ t.named = {<<l, n>>} /\ t.who = T!Bearers(l) /\ t.cuts = {}
    BY <2>1 DEF T!NoTx, TxFields
  <2> QED BY <2>2, <2>3, NamingKeeps
<1> QED BY <1>1, <1>2

(* A transaction that computes the copy, or got the rows it waited for.    *)
LEMMA WriteKeeps ==
  ASSUME TagInv, NEW w \in Requests, T!Resync(w) \/ T!Waited(w)
  PROVE  TagInv'
<1>1. UNCHANGED <<name, links, tags, labelAlone>> /\ DOMAIN tx = Requests /\ DOMAIN tx[w] = TxFields
  BY DEF T!Resync, T!Waited, TagInv, RowsInv, TxShape
<1>2. /\ tx[w].pc \notin {"idle"} /\ tx'[w].pc \in {"wait", "commit"} /\ SameRows(tx[w], tx'[w])
      /\ DOMAIN tx'[w] = TxFields /\ tx'[w].alone = tx[w].alone /\ DOMAIN tx' = Requests
      /\ \A c \in tx[w].who \cap Prospects :
           tx'[w].seen[c] = T!CopyIn(tx[w], c) \/ (tx[w].pc = "wait" /\ tx'[w].seen[c] = tx[w].seen[c])
      /\ \A v \in Requests \ {w} : tx'[v] = tx[v]
  <2>1. CASE T!Waited(w)
    BY <1>1, <2>1 DEF T!Waited, SameRows, TxFields
  <2>2. CASE T!Resync(w)
    <3> DEFINE seen == [c \in Prospects |-> IF c \in tx[w].who THEN T!CopyIn(tx[w], c) ELSE {}]
    <3>1. PICK pc \in {"wait", "commit"} : tx' = [tx EXCEPT ![w].seen = seen, ![w].pc = pc]
      BY <2>2 DEF T!Resync
    <3>2. /\ tx'[w] = [tx[w] EXCEPT !.seen = seen, !.pc = pc] /\ DOMAIN tx' = Requests
          /\ \A v \in Requests \ {w} : tx'[v] = tx[v]
      BY <1>1, <3>1
    <3>3. /\ SameRows(tx[w], tx'[w]) /\ tx'[w].pc = pc /\ tx'[w].seen = seen /\ tx'[w].alone = tx[w].alone
          /\ DOMAIN tx'[w] = TxFields
      BY <1>1, <3>2 DEF SameRows, TxFields
    <3>4. tx[w].pc = "resync" /\ \A c \in tx[w].who \cap Prospects : seen[c] = T!CopyIn(tx[w], c)
      BY <2>2 DEF T!Resync
    <3> QED BY <3>2, <3>3, <3>4
  <2> QED BY <2>1, <2>2
<1>3. \A v \in Requests : /\ SameRows(tx[v], tx'[v]) /\ DOMAIN tx'[v] = TxFields
                          /\ tx'[v].alone = tx[v].alone /\ (tx'[v].pc = "idle" <=> tx[v].pc = "idle")
  BY <1>2 DEF SameRows, TagInv, RowsInv, TxShape
<1>4. \A v \in Requests : \A l : Held(tx'[v], l) <=> Held(tx[v], l)
  BY <1>3 DEF SameRows, Held
<1>5. \A v \in Requests : (\A l : T!NameIn(tx[v], l)' = T!NameIn(tx[v], l))
                          /\ \A c : T!CopyIn(tx[v], c)' = T!CopyIn(tx[v], c)
  BY <1>1, <1>3, SeesSame
<1>6. RowsInv'
  <2>1. \A v \in Requests : TxShape(tx'[v])
    BY <1>3, SameShape DEF TagInv, RowsInv
  <2>2. \A v \in Requests : tx'[v].pc = "idle" => tx'[v] = T!NoTx
    BY <1>2, <1>3 DEF TagInv, RowsInv
  <2> QED BY <1>1, <1>2, <2>1, <2>2 DEF TagInv, RowsInv, TxShape, Held
<1>7. HeldInv'
  BY <1>1, <1>3, <1>4 DEF TagInv, HeldInv, Unshared, SameRows, Held
<1>8. LinkedInv'
  BY <1>3, <1>5 DEF TagInv, LinkedInv, SameRows
<1>9. AloneInv'
  BY <1>3 DEF TagInv, AloneInv, SameRows
<1>10. SeenInv'
  <2> SUFFICES ASSUME NEW v \in Requests, tx'[v].pc \in {"wait", "commit"}, tx'[v].alone,
                      NEW c \in tx'[v].who \cap Prospects
               PROVE  tx'[v].seen[c] = T!CopyIn(tx[v], c)'
    BY DEF SeenInv
  <2>1. T!CopyIn(tx[v], c)' = T!CopyIn(tx[v], c) /\ c \in tx[v].who \cap Prospects /\ tx[v].alone
    BY <1>3, <1>5 DEF SameRows
  <2>2. tx[v].pc \in {"wait", "commit"} => tx[v].seen[c] = T!CopyIn(tx[v], c)
    BY <2>1 DEF TagInv, SeenInv
  <2> QED BY <1>2, <2>1, <2>2
<1>11. T!TagsFollow'
  <2>1. \A c : T!Untouched(c)' => T!Untouched(c)
    BY <1>3 DEF T!Untouched, SameRows
  <2>2. \A c : T!Copied(c)' <=> T!Copied(c)
    BY <1>1 DEF T!Copied
  <2> QED BY <1>1, <2>1, <2>2 DEF TagInv, T!TagsFollow
<1> QED BY <1>6, <1>7, <1>8, <1>9, <1>10, <1>11 DEF TagInv

(* A contact whose links and their names stay keeps its copy.              *)
LEMMA SameCopy ==
  ASSUME NEW u, u.adds \subseteq TagPairs, links \subseteq TagPairs, links' \subseteq TagPairs, NEW c \in Prospects,
         \A l \in LabelIds : <<c, l>> \in links' <=> <<c, l>> \in links,
         \A l \in LabelIds : <<c, l>> \in links \cup u.adds => T!NameIn(u, l)' = T!NameIn(u, l)
  PROVE  T!CopyIn(u, c)' = T!CopyIn(u, c)
<1> DEFINE before == {j \in (links \cup u.adds) \ u.cuts : j[1] = c}
           after == {j \in (links' \cup u.adds) \ u.cuts : j[1] = c}
<1>1. \A j \in TagPairs : j = <<j[1], j[2]>> /\ j[2] \in LabelIds
  BY DEF TagPairs
<1>2. before = after
  BY <1>1
<1>3. \A j \in before : T!NameIn(u, j[2])' = T!NameIn(u, j[2])
  BY <1>1
<1>4. T!CopyIn(u, c) = {T!NameIn(u, j[2]) : j \in before}
  BY DEF T!CopyIn, T!LinksIn
<1>5. T!CopyIn(u, c)' = {T!NameIn(u, j[2])' : j \in after}
  BY DEF T!CopyIn, T!LinksIn
<1> HIDE DEF before, after
<1> QED BY <1>2, <1>3, <1>4, <1>5

LEMMA CommitKeeps == ASSUME TagInv, NEW w \in Requests, T!Commit(w) PROVE TagInv'
<1>1. PICK t : t = tx[w]
  OBVIOUS
<1>2. /\ t.pc = "commit" /\ links' = (links \cup t.adds) \ t.cuts
      /\ name' = [l \in LabelIds |-> T!NameIn(t, l)]
      /\ tags' = [c \in Prospects |-> IF c \in t.who THEN t.seen[c] ELSE tags[c]]
      /\ labelAlone' = [c \in Prospects |-> IF c \in t.who THEN t.alone ELSE labelAlone[c]]
  BY <1>1 DEF T!Commit, T!LinksIn
<1>3. DOMAIN tx' = Requests /\ tx'[w] = T!NoTx /\ \A v \in Requests \ {w} : tx'[v] = tx[v]
  BY DEF T!Commit, TagInv, RowsInv
<1>4. /\ TxShape(t) /\ links \subseteq TagPairs /\ name \in [LabelIds -> NameOrNone]
      /\ \A l \in LabelIds : Held(t, l) => Unshared(w, t, l)
      /\ \A c \in Prospects, l \in LabelIds : <<c, l>> \in t.adds => T!NameIn(t, l) # Absent
  BY <1>1 DEF TagInv, RowsInv, HeldInv, LinkedInv
<1>5. TxShape(T!NoTx) /\ T!NoTx.pc = "idle" /\ T!NoTx.adds = {} /\ \A l : ~Held(T!NoTx, l)
  BY DEF T!NoTx, TxShape, TxFields, Held
<1>6. ASSUME NEW c \in Prospects \ t.who, NEW l \in LabelIds
      PROVE  /\ <<c, l>> \in links' <=> <<c, l>> \in links
             /\ <<c, l>> \in links => ~Held(t, l)
  BY <1>2, <1>4 DEF TxShape, Unshared
<1>7. \A l \in LabelIds : name'[l] = T!NameIn(t, l) /\ (~Held(t, l) => name'[l] = name[l])
  BY <1>2, <1>4, NameSeen
<1>8. \A v \in Requests \ {w} : \A c \in Prospects, l \in LabelIds : <<c, l>> \in tx[v].adds => ~Held(t, l)
  BY <1>4 DEF Unshared
<1>9. ASSUME NEW v \in Requests \ {w}, NEW l \in LabelIds, ~Held(t, l)
      PROVE  T!NameIn(tx[v], l)' = T!NameIn(tx[v], l)
  BY <1>3, <1>7, <1>9 DEF T!NameIn
<1>10. RowsInv'
  <2>1. name' \in [LabelIds -> NameOrNone]
    <3>1. ASSUME NEW l \in LabelIds PROVE T!NameIn(t, l) \in NameOrNone
      <4>1. CASE ~Held(t, l)
        BY <1>4, <4>1, NameSeen
      <4>2. ASSUME NEW n \in NameOrNone, <<l, n>> \in t.named PROVE T!NameIn(t, l) \in NameOrNone
        BY <1>4, <4>2, NameSeen
      <4> QED BY <4>1, <4>2 DEF Held
    <3> QED BY <1>2, <3>1
  <2>2. links' \subseteq TagPairs
    BY <1>2, <1>4 DEF TxShape
  <2>3. ASSUME NEW c \in Prospects, NEW l \in LabelIds, <<c, l>> \in links' PROVE name'[l] # Absent
    <3>1. CASE <<c, l>> \in t.adds
      BY <1>4, <1>7, <3>1
    <3>2. CASE <<c, l>> \in links /\ ~Held(t, l)
      BY <1>7, <3>2 DEF TagInv, RowsInv
    <3>3. ASSUME NEW n \in NameOrNone, <<l, n>> \in t.named PROVE name'[l] # Absent
      <4>1. n # Absent
        BY <1>2, <1>4, <2>3, <3>3 DEF TxShape
      <4> QED BY <1>4, <1>7, <3>3, <4>1, NameSeen
    <3> QED BY <1>2, <2>3, <3>1, <3>2, <3>3 DEF Held
  <2>4. \A v \in Requests : TxShape(tx'[v]) /\ (tx'[v].pc = "idle" => tx'[v] = T!NoTx)
    BY <1>3, <1>5 DEF TagInv, RowsInv
  <2> QED BY <1>3, <2>1, <2>2, <2>3, <2>4 DEF RowsInv, TxShape, Held
<1>11. HeldInv'
  <2> SUFFICES ASSUME NEW v \in Requests, NEW l \in LabelIds, Held(tx'[v], l) PROVE Unshared(v, tx[v], l)'
    BY DEF HeldInv, Held
  <2>1. v # w /\ tx'[v] = tx[v] /\ Unshared(v, tx[v], l)
    BY <1>3, <1>5 DEF TagInv, HeldInv
  <2>2. \A c \in Prospects : <<c, l>> \notin t.adds
    BY <1>1, <2>1 DEF Unshared
  <2>3. \A c \in Prospects \ tx[v].who : <<c, l>> \notin links'
    BY <1>2, <2>1, <2>2 DEF Unshared
  <2>4. \A u \in Requests \ {v} : ~Held(tx'[u], l) /\ \A c \in Prospects : <<c, l>> \notin tx'[u].adds
    BY <1>3, <1>5, <2>1 DEF Unshared
  <2> QED BY <2>1, <2>3, <2>4 DEF Unshared, Held
<1>12. LinkedInv'
  <2> SUFFICES ASSUME NEW v \in Requests, NEW c \in Prospects, NEW l \in LabelIds, <<c, l>> \in tx'[v].adds
               PROVE  T!NameIn(tx[v], l)' # Absent
    BY DEF LinkedInv
  <2>1. v # w /\ <<c, l>> \in tx[v].adds
    BY <1>3, <1>5
  <2>2. T!NameIn(tx[v], l)' = T!NameIn(tx[v], l)
    BY <1>8, <1>9, <2>1
  <2> QED BY <2>1, <2>2 DEF TagInv, LinkedInv
<1>13. AloneInv'
  BY <1>3, <1>5 DEF TagInv, AloneInv
<1>14. SeenInv'
  <2> SUFFICES ASSUME NEW v \in Requests, tx'[v].pc \in {"wait", "commit"}, tx'[v].alone,
                      NEW c \in tx'[v].who \cap Prospects
               PROVE  tx'[v].seen[c] = T!CopyIn(tx[v], c)'
    BY DEF SeenInv
  <2>1. v # w /\ tx'[v] = tx[v]
    BY <1>3, <1>5
  <2>2. c \in Prospects \ t.who
    BY <1>1, <1>2, <2>1 DEF TagInv, AloneInv
  <2>3. T!CopyIn(tx[v], c)' = T!CopyIn(tx[v], c)
    <3>1. PICK u : u = tx[v]
      OBVIOUS
    <3>2. u.adds \subseteq TagPairs /\ links' \subseteq TagPairs
      BY <2>1, <3>1, <1>10 DEF TagInv, RowsInv, TxShape
    <3>3. \A l \in LabelIds : <<c, l>> \in links' <=> <<c, l>> \in links
      BY <1>6, <2>2
    <3>4. ASSUME NEW l \in LabelIds, <<c, l>> \in links \cup u.adds PROVE T!NameIn(u, l)' = T!NameIn(u, l)
      <4>1. ~Held(t, l)
        BY <1>6, <1>8, <2>1, <2>2, <3>1, <3>4
      <4>2. name'[l] = name[l]
        BY <1>7, <4>1
      <4> QED BY <4>2 DEF T!NameIn
    <3>5. T!CopyIn(u, c)' = T!CopyIn(u, c)
      BY <1>4, <3>2, <3>3, <3>4, SameCopy
    <3>6. u = tx'[v]
      BY <2>1, <3>1
    <3>7. T!CopyIn(tx[v], c)' = T!CopyIn(u, c)'
      BY <3>6 DEF T!CopyIn, T!LinksIn, T!NameIn
    <3> QED BY <3>1, <3>5, <3>7
  <2> QED BY <2>1, <2>3 DEF TagInv, SeenInv
<1>15. T!TagsFollow'
  <2> SUFFICES ASSUME NEW c \in Prospects, labelAlone'[c], T!Untouched(c)' PROVE T!Copied(c)'
    BY DEF T!TagsFollow
  <2>1. \A j \in TagPairs : j = <<j[1], j[2]>> /\ j[2] \in LabelIds
    BY DEF TagPairs
  <2>2. links' \subseteq TagPairs
    BY <1>10 DEF RowsInv
  <2>3. CASE c \in t.who
    <3>1. tags'[c] = t.seen[c] /\ t.alone
      BY <1>2, <2>3
    <3>2. t.seen[c] = T!CopyIn(t, c)
      BY <1>1, <1>2, <2>3, <3>1 DEF TagInv, SeenInv
    <3>3. T!CopyIn(t, c) = {T!NameIn(t, k[2]) : k \in {k \in links' : k[1] = c}}
      BY <1>2 DEF T!CopyIn, T!LinksIn
    <3>4. \A k \in links' : T!NameIn(t, k[2]) = name'[k[2]]
      BY <1>7, <2>1, <2>2
    <3>5. tags'[c] = {name'[k[2]] : k \in {k \in links' : k[1] = c}}
      BY <3>1, <3>2, <3>3, <3>4
    <3> QED BY <3>5 DEF T!Copied
  <2>4. CASE c \notin t.who
    <3>1. tags'[c] = tags[c] /\ labelAlone[c]
      BY <1>2, <2>4
    <3>2. T!Untouched(c)
      BY <1>1, <1>3, <2>4 DEF T!Untouched
    <3>3. tags[c] = {name[k[2]] : k \in {k \in links : k[1] = c}}
      BY <3>1, <3>2 DEF TagInv, T!TagsFollow, T!Copied
    <3>4. {k \in links : k[1] = c} = {k \in links' : k[1] = c}
      BY <1>4, <1>6, <2>1, <2>2, <2>4
    <3>5. \A k \in {k \in links : k[1] = c} : name'[k[2]] = name[k[2]]
      BY <1>4, <1>6, <1>7, <2>1, <2>4
    <3>6. tags'[c] = {name'[k[2]] : k \in {k \in links' : k[1] = c}}
      BY <3>1, <3>3, <3>4, <3>5
    <3> QED BY <3>6 DEF T!Copied
  <2> QED BY <2>3, <2>4
<1> QED BY <1>10, <1>11, <1>12, <1>13, <1>14, <1>15 DEF TagInv

LEMMA TagsNext == ASSUME TagInv, [T!Next]_(T!vars) PROVE TagInv'
<1>1. CASE UNCHANGED T!vars
  <2>1. UNCHANGED <<name, links, tags, labelAlone, tx>>
    BY <1>1 DEF T!vars
  <2>2. \A v \in Requests : SameRows(tx[v], tx'[v])
    BY <2>1 DEF SameRows
  <2>3. SeenInv' /\ LinkedInv'
    BY <2>1, <2>2, SeesSame DEF TagInv, SeenInv, LinkedInv
  <2>4. RowsInv'
    BY <2>1 DEF TagInv, RowsInv
  <2>5. HeldInv'
    BY <2>1 DEF TagInv, HeldInv, Unshared, Held
  <2>6. AloneInv'
    BY <2>1 DEF TagInv, AloneInv
  <2>7. T!TagsFollow'
    BY <2>1 DEF TagInv, T!TagsFollow, T!Untouched, T!Copied
  <2> QED BY <2>3, <2>4, <2>5, <2>6, <2>7 DEF TagInv
<1>2. CASE T!Next
  BY <1>2, AddKeeps, RemoveKeeps, SetKeeps, RelabelKeeps, WriteKeeps, CommitKeeps DEF T!Next
<1> QED BY <1>1, <1>2

-----------------------------------------------------------------------------
(* Prepared replies and listings.                                          *)

(* A server answers for a message that was written, from a chat that had   *)
(* it; the row is for a message that was written.                          *)
AtPrep(s) ==
  /\ DOMAIN prep[s] = {"pc", "of", "seen"}
  /\ prep[s].of \in Nat /\ prep[s].seen \in Nat /\ prep[s].of <= latest
  /\ prep[s].pc = "ready" => prep[s].seen >= prep[s].of

PrepInv ==
  /\ latest \in Nat /\ DOMAIN insight = {"of", "status", "seen", "old"}
  /\ insight.of \in Nat /\ insight.seen \in Nat
  /\ DOMAIN prep = Servers /\ \A s \in Servers : AtPrep(s)
  /\ P!InsightIsCurrent

LEMMA PrepInit == ASSUME P!Init PROVE PrepInv
  BY DEF P!Init, P!NoPrep, PrepInv, AtPrep, P!InsightIsCurrent

(* A step of one server.                                                   *)
LEMMA PrepServer ==
  ASSUME PrepInv, NEW s \in Servers, P!Job(s) \/ P!Crash(s)
  PROVE  PrepInv'
<1>1. CASE P!Finds(s)
  <2>1. /\ latest' = latest /\ insight' = insight /\ DOMAIN prep' = Servers
        /\ prep'[s] = [pc |-> "claim", of |-> latest, seen |-> 0]
        /\ \A t \in Servers \ {s} : prep'[t] = prep[t]
    BY <1>1 DEF P!Finds, PrepInv
  <2> QED BY <2>1 DEF PrepInv, AtPrep, P!InsightIsCurrent
<1>2. CASE P!Takes(s)
  <2>1. /\ latest' = latest /\ DOMAIN prep' = Servers /\ AtPrep(s)'
        /\ \A t \in Servers \ {s} : prep'[t] = prep[t]
    BY <1>2 DEF P!Takes, P!NoPrep, PrepInv, AtPrep
  <2>2. \/ insight' = insight
        \/ insight' = [insight EXCEPT !.of = prep[s].of, !.status = "working", !.old = FALSE]
    BY <1>2 DEF P!Takes
  <2>3. /\ DOMAIN insight' = {"of", "status", "seen", "old"} /\ insight'.of \in Nat /\ insight'.seen \in Nat
        /\ insight'.status = "ready" => insight' = insight
    BY <2>2 DEF PrepInv, AtPrep
  <2> QED BY <2>1, <2>3 DEF PrepInv, AtPrep, P!InsightIsCurrent
<1>3. CASE P!Thinks(s)
  <2>1. /\ latest' = latest /\ insight' = insight /\ DOMAIN prep' = Servers /\ AtPrep(s)'
        /\ \A t \in Servers \ {s} : prep'[t] = prep[t]
    BY <1>3 DEF P!Thinks, PrepInv, AtPrep
  <2> QED BY <2>1 DEF PrepInv, AtPrep, P!InsightIsCurrent
<1>4. CASE P!Keeps(s)
  <2>1. /\ latest' = latest /\ DOMAIN prep' = Servers /\ AtPrep(s)'
        /\ \A t \in Servers \ {s} : prep'[t] = prep[t]
    BY <1>4 DEF P!Keeps, P!NoPrep, PrepInv, AtPrep
  <2>2. prep[s].pc \in {"ready", "failed"} /\ AtPrep(s)
    BY <1>4 DEF P!Keeps, PrepInv
  <2>3. CASE P!StillFor(prep[s].of)
    <3>1. insight' = [insight EXCEPT !.status = prep[s].pc, !.old = FALSE,
                        !.seen = IF prep[s].pc = "ready" THEN prep[s].seen ELSE insight.seen]
      BY <1>4, <2>3 DEF P!Keeps
    <3>2. /\ DOMAIN insight' = {"of", "status", "seen", "old"} /\ insight'.of = insight.of
          /\ insight'.seen \in Nat
          /\ insight'.status = "ready" => insight'.seen >= insight'.of
      BY <2>2, <2>3, <3>1 DEF P!StillFor, PrepInv, AtPrep
    <3> QED BY <2>1, <3>2 DEF PrepInv, AtPrep, P!InsightIsCurrent
  <2>4. CASE ~P!StillFor(prep[s].of)
    <3>1. insight' = insight
      BY <1>4, <2>4 DEF P!Keeps
    <3> QED BY <2>1, <3>1 DEF PrepInv, AtPrep, P!InsightIsCurrent
  <2> QED BY <2>3, <2>4
<1>5. CASE P!Crash(s)
  <2>1. /\ latest' = latest /\ insight' = insight /\ DOMAIN prep' = Servers /\ AtPrep(s)'
        /\ \A t \in Servers \ {s} : prep'[t] = prep[t]
    BY <1>5 DEF P!Crash, P!NoPrep, PrepInv, AtPrep
  <2> QED BY <2>1 DEF PrepInv, AtPrep, P!InsightIsCurrent
<1> QED BY <1>1, <1>2, <1>3, <1>4, <1>5 DEF P!Job

LEMMA PrepNext == ASSUME PrepInv, [P!Next]_(P!vars) PROVE PrepInv'
<1>1. CASE UNCHANGED P!vars
  BY <1>1 DEF P!vars, PrepInv, AtPrep, P!InsightIsCurrent
<1>2. CASE P!Writes \/ P!Answered
  <2>1. latest' \in Nat /\ latest' >= latest /\ insight' = insight /\ prep' = prep
    BY <1>2 DEF P!Writes, P!Answered, PrepInv
  <2> QED BY <2>1 DEF PrepInv, AtPrep, P!InsightIsCurrent
<1>3. CASE P!GrowsOld
  <2>1. insight.status = "working" /\ insight' = [insight EXCEPT !.old = TRUE] /\ UNCHANGED <<latest, prep>>
    BY <1>3 DEF P!GrowsOld
  <2>2. /\ DOMAIN insight' = {"of", "status", "seen", "old"} /\ insight'.of = insight.of
        /\ insight'.seen = insight.seen /\ insight'.status = "working"
    BY <2>1 DEF PrepInv
  <2> QED BY <2>1, <2>2 DEF PrepInv, AtPrep, P!InsightIsCurrent
<1> QED BY <1>1, <1>2, <1>3, PrepServer DEF P!Next

(* A listing that is offered has what it needs.                            *)
ListingInv == DOMAIN listingRow = {"status", "fields", "viewings"} /\ H!OfferedIsReady

LEMMA ListingNext == ASSUME ListingInv, [H!Next]_(H!vars) PROVE ListingInv'
<1>1. ASSUME listingRow' = listingRow PROVE ListingInv'
  BY <1>1 DEF ListingInv, H!OfferedIsReady
<1>2. ASSUME NEW p \in Agents, H!Writes(p), listingRow' # listingRow PROVE ListingInv'
  <2>1. /\ listingRow' = [listingRow EXCEPT !.status = listingDoing[p].status, !.fields = listingDoing[p].fields]
        /\ listingDoing[p].status \in H!Offered => H!ReadyToList(listingDoing[p].fields)
    BY <1>2 DEF H!Writes, H!Written
  <2> QED BY <2>1 DEF ListingInv, H!OfferedIsReady
<1>3. ASSUME NEW p \in Agents, H!Deletes(p) PROVE ListingInv'
  BY <1>3 DEF H!Deletes, ListingInv, H!OfferedIsReady, H!Offered
<1>4. CASE H!Booked
  BY <1>4 DEF H!Booked, ListingInv, H!OfferedIsReady
<1>5. ASSUME NEW p \in Agents, H!Reads(p) \/ H!Verifies(p) PROVE listingRow' = listingRow
  BY <1>5 DEF H!Reads, H!Verifies
<1>6. CASE UNCHANGED H!vars
  BY <1>1, <1>6 DEF H!vars
<1> QED BY <1>1, <1>2, <1>3, <1>4, <1>5, <1>6 DEF H!Next

LEMMA ListingInit == ASSUME H!Init PROVE ListingInv
  BY DEF H!Init, ListingInv, H!OfferedIsReady, H!Offered

(* What is kept beside a row follows the row: a reply shown as ready was   *)
(* made for the message, what may be offered has all a listing needs, and  *)
(* a contact's tags are its labels' names once a change that had the       *)
(* contact to itself is done, in whatever order transactions compute their *)
(* copy, wait and commit (prepareOne, writeProperty, resyncTags).          *)
THEOREM ShownAsItIsHolds == SpecMC => []ShownAsItIs
<1> DEFINE Inv == /\ part = "preparation" => PrepInv
                  /\ part = "listing" => ListingInv
                  /\ part = "label" => TagInv
<1>1. InitMC => Inv
  BY PartInit, PrepInit, ListingInit, TagsInit
<1>2. Inv /\ [NextMC]_all => Inv'
  BY PartStep, PrepNext, ListingNext, TagsNext
<1>3. Inv => ShownAsItIs
  BY DEF ShownAsItIs, PrepInv, ListingInv, TagInv
<1> QED BY <1>1, <1>2, <1>3, PTL DEF SpecMC

-----------------------------------------------------------------------------
(* An agent's list of chats.                                               *)

ViewRow == [ver : Nat, updated : Nat, epoch : Nat, pinned : BOOLEAN]

ViewTypes ==
  /\ now \in Nat /\ since \in Nat /\ since < now
  /\ viewRow \in [V!Chats -> ViewRow]
  /\ viewView \in [V!Chats -> Nat] /\ upto \in [V!Chats -> Nat] /\ DOMAIN listed = V!Chats
  /\ touched \subseteq V!Chats /\ late \subseteq V!Chats
  /\ DOMAIN browser = {"at", "cursor", "mark"}
  /\ browser.cursor = V!NoCursor
       \/ \E e \in Nat, c \in V!Chats : browser.cursor = <<e, c>> /\ e < now
  /\ browser.mark \in Nat /\ browser.mark < now

(* A clock only moves on, and what is shown or was promised is no newer    *)
(* than the row.                                                           *)
ViewTimes ==
  /\ \A c \in V!Chats : /\ viewRow[c].updated < now /\ viewRow[c].epoch < now
                        /\ viewView[c] <= viewRow[c].ver /\ upto[c] <= viewRow[c].ver
  /\ \A t \in open : t.of \in V!Chats /\ t.began \in Nat /\ t.began < now

Shown(c) == viewView[c] = viewRow[c].ver

(* Where the browser is, the chats it has read already.                    *)
ReadSoFar(c) ==
  CASE browser.at = "page" -> browser.cursor # V!NoCursor
                                /\ (viewRow[c].pinned \/ ~V!Beyond(c, browser.cursor))
    [] browser.at = "pinned" -> ~viewRow[c].pinned /\ ~V!Beyond(c, browser.cursor)
    [] browser.at = "pinned_only" -> ~viewRow[c].pinned
    [] OTHER -> FALSE

Listing == {"page", "pinned", "pinned_only"}

(* While it reads the list it shows, as they are, the chats it has read    *)
(* and nobody has touched; those somebody has touched changed after the    *)
(* mark, or are late.                                                      *)
ListShown ==
  browser.at \in Listing =>
    /\ \A c \in V!Chats \ touched : ReadSoFar(c) => Shown(c)
    /\ \A c \in touched \ late : viewRow[c].updated > since

(* Once it has the list, it shows all that has not changed after the mark. *)
MarkShown ==
  browser.at \in {"listed", "changes", "current"} =>
    \A c \in V!Chats \ late : viewRow[c].updated <= since => Shown(c)

ViewInv == ViewTypes /\ ViewTimes /\ ListShown /\ MarkShown /\ V!CaughtUp

(* The rows of a page.                                                     *)

LEMMA ViewCount == ASSUME NEW group PROVE V!Cardinality(group) = Cardinality(group)
  BY DEF V!Cardinality, Cardinality

LEMMA RowsAreFinite ==
  /\ IsFiniteSet(V!Chats) /\ V!Chats \subseteq Nat
  /\ \A group \in SUBSET V!Chats : IsFiniteSet(group) /\ Cardinality(group) \in Nat
<1>1. InboxRows \in Nat
  BY DeskAssumption
<1>2. IsFiniteSet(V!Chats) /\ V!Chats \subseteq Nat
  BY <1>1, FS_Interval DEF V!Chats
<1> QED BY <1>2, FS_Subset, FS_CardinalityType

Ahead(rest, c) == {d \in rest : V!After(c, d)}

(* Who is ahead of a chat has fewer ahead.                                 *)
LEMMA AheadShrinks ==
  ASSUME ViewTypes, NEW rest \in SUBSET V!Chats, NEW c \in rest, NEW d \in Ahead(rest, c)
  PROVE  Cardinality(Ahead(rest, d)) < Cardinality(Ahead(rest, c))
<1>1. \A e \in V!Chats : e \in Nat /\ viewRow[e].epoch \in Nat
  BY RowsAreFinite DEF ViewTypes, ViewRow
<1>2. Ahead(rest, d) \subseteq Ahead(rest, c) /\ d \notin Ahead(rest, d)
  BY <1>1 DEF Ahead, V!After
<1>3. IsFiniteSet(Ahead(rest, c)) /\ IsFiniteSet(Ahead(rest, d))
      /\ Cardinality(Ahead(rest, c)) \in Nat /\ Cardinality(Ahead(rest, d)) \in Nat
  BY RowsAreFinite DEF Ahead
<1>4. Ahead(rest, d) # Ahead(rest, c)
  BY <1>2
<1>5. Cardinality(Ahead(rest, d)) <= Cardinality(Ahead(rest, c))
      /\ (Cardinality(Ahead(rest, d)) = Cardinality(Ahead(rest, c)) => Ahead(rest, d) = Ahead(rest, c))
  BY <1>2, <1>3, FS_Subset
<1> QED BY <1>3, <1>4, <1>5

(* Of some chats one has the most of the others ahead: the last.           *)
LEMMA LastIsLast ==
  ASSUME ViewTypes, NEW items \in SUBSET V!Chats, items # {}
  PROVE  LET final == V!LastOf(items)
         IN  final \in items /\ \A c \in items \ {final} : V!After(final, c)
<1> DEFINE Behind(c) == {d \in items : V!After(d, c)}
           Size(c) == Cardinality(Behind(c))
           sizes == {Size(c) : c \in items}
<1>1. \A e \in V!Chats : e \in Nat /\ viewRow[e].epoch \in Nat
  BY RowsAreFinite DEF ViewTypes, ViewRow
<1>2. \A c \in items : IsFiniteSet(Behind(c)) /\ Size(c) \in Nat
  BY RowsAreFinite
<1>3. sizes \subseteq Nat /\ sizes # {}
  BY <1>2
<1>4. PICK c \in items : \A d \in items : Size(c) <= Size(d)
  <2>1. A!Min(sizes) \in sizes /\ \A y \in sizes : A!Min(sizes) <= y
    <3> HIDE DEF sizes
    <3> QED BY <1>3, NatHasLeast
  <2> QED BY <2>1
<1>5. ASSUME NEW d \in items \ {c} PROVE V!After(c, d)
  <2> SUFFICES ASSUME ~V!After(c, d) PROVE FALSE
    OBVIOUS
  <2>1. V!After(d, c)
    BY <1>1, <1>5 DEF V!After
  <2>2. Behind(d) \subseteq Behind(c) /\ d \in Behind(c) /\ d \notin Behind(d)
    BY <1>1, <2>1 DEF V!After
  <2>3. Size(d) <= Size(c) /\ (Size(d) = Size(c) => Behind(d) = Behind(c))
    <3>1. IsFiniteSet(Behind(c)) /\ Behind(d) \in SUBSET Behind(c)
      BY <1>2, <2>2
    <3> HIDE DEF Behind
    <3> QED BY <3>1, FS_Subset
  <2> QED BY <1>2, <1>4, <2>2, <2>3
<1>6. V!LastOf(items) = CHOOSE x \in items : \A d \in items \ {x} : V!After(x, d)
  BY DEF V!LastOf
<1> QED BY <1>5, <1>6

(* All of the rest are on a page, or it is behind the last of the page.    *)
LEMMA PageIsFirst ==
  ASSUME ViewTypes, NEW rest \in SUBSET V!Chats
  PROVE  LET items == V!FirstOf(rest)
             final == V!LastOf(items)
         IN  /\ items \subseteq rest
             /\ ~(V!Cardinality(rest) > PageRows) => items = rest
             /\ V!Cardinality(rest) > PageRows =>
                  final \in items /\ \A c \in rest \ items : V!After(c, final)
<1> DEFINE items == V!FirstOf(rest)
           final == V!LastOf(items)
<1>1. PageRows \in Nat /\ PageRows > 0
  BY DeskAssumption
<1>2. items = {c \in rest : Cardinality(Ahead(rest, c)) < PageRows}
  BY ViewCount DEF V!FirstOf, Ahead
<1>3. \A e \in V!Chats : e \in Nat /\ viewRow[e].epoch \in Nat
  BY RowsAreFinite DEF ViewTypes, ViewRow
<1>4. \A c \in rest : /\ IsFiniteSet(Ahead(rest, c)) /\ Cardinality(Ahead(rest, c)) \in Nat
                      /\ Ahead(rest, c) \subseteq rest /\ c \notin Ahead(rest, c)
  BY <1>3, RowsAreFinite DEF Ahead, V!After
<1>5. IsFiniteSet(rest) /\ Cardinality(rest) \in Nat /\ V!Cardinality(rest) = Cardinality(rest)
  BY RowsAreFinite, ViewCount
<1>6. ASSUME ~(V!Cardinality(rest) > PageRows) PROVE items = rest
  <2>1. ASSUME NEW c \in rest PROVE Cardinality(Ahead(rest, c)) < PageRows
    <3>1. Cardinality(Ahead(rest, c)) <= Cardinality(rest)
          /\ (Cardinality(Ahead(rest, c)) = Cardinality(rest) => Ahead(rest, c) = rest)
      BY <1>4, <1>5, FS_Subset
    <3> QED BY <1>1, <1>4, <1>5, <1>6, <3>1
  <2> QED BY <1>2, <2>1
<1>7. ASSUME V!Cardinality(rest) > PageRows
      PROVE  final \in items /\ \A c \in rest \ items : V!After(c, final)
  <2>1. items # {}
    <3> DEFINE sizes == {Cardinality(Ahead(rest, c)) : c \in rest}
    <3>1. rest # {}
      BY <1>1, <1>5, <1>7, FS_EmptySet
    <3>2. sizes \subseteq Nat /\ sizes # {}
      BY <1>4, <3>1
    <3>3. PICK c \in rest : \A d \in rest : Cardinality(Ahead(rest, c)) <= Cardinality(Ahead(rest, d))
      <4>1. A!Min(sizes) \in sizes /\ \A y \in sizes : A!Min(sizes) <= y
        <5> HIDE DEF sizes
        <5> QED BY <3>2, NatHasLeast
      <4> QED BY <4>1
    <3>4. Ahead(rest, c) = {}
      <4> SUFFICES ASSUME NEW d \in Ahead(rest, c) PROVE FALSE
        OBVIOUS
      <4>1. Cardinality(Ahead(rest, d)) < Cardinality(Ahead(rest, c)) /\ d \in rest
        BY AheadShrinks DEF Ahead
      <4> QED BY <1>4, <3>3, <4>1
    <3> QED BY <1>1, <1>2, <3>4, FS_EmptySet
  <2>2. items \in SUBSET V!Chats
    BY <1>2
  <2>3. final \in items
    BY <2>1, <2>2, LastIsLast
  <2>4. ASSUME NEW c \in rest \ items PROVE V!After(c, final)
    <3> SUFFICES ASSUME ~V!After(c, final) PROVE FALSE
      OBVIOUS
    <3>1. final \in rest /\ final # c
      BY <1>2, <2>3
    <3>2. c \in Ahead(rest, final)
      BY <1>3, <3>1 DEF V!After, Ahead
    <3>3. Cardinality(Ahead(rest, c)) < Cardinality(Ahead(rest, final))
      BY <3>1, <3>2, AheadShrinks
    <3>4. Cardinality(Ahead(rest, final)) < PageRows
      BY <1>2, <2>3
    <3> QED BY <1>1, <1>2, <1>4, <3>1, <3>3, <3>4
  <2> QED BY <2>3, <2>4
<1> QED BY <1>2, <1>6, <1>7

(* The steps.                                                              *)

LEMMA ViewInit == ASSUME V!Init PROVE ViewInv
<1>1. ViewTypes /\ ViewTimes
  BY DEF V!Init, ViewTypes, ViewTimes, ViewRow, V!NoCursor
<1> QED BY <1>1 DEF V!Init, ViewInv, ListShown, MarkShown, Listing, V!CaughtUp

LEMMA ChatBegins ==
  ASSUME ViewInv, NEW c \in V!Chats, NEW what, V!Begins(c, what)
  PROVE  ViewInv'
<1> USE DEF ViewInv, V!Begins
<1>1. ViewTypes'
  BY DEF ViewTypes
<1>2. ViewTimes'
  BY DEF ViewTypes, ViewTimes, ViewRow
<1>3. ListShown' /\ MarkShown' /\ V!CaughtUp'
  BY DEF ListShown, MarkShown, V!CaughtUp, ReadSoFar, V!Beyond, Shown
<1> QED BY <1>1, <1>2, <1>3

LEMMA ChatCommits ==
  ASSUME ViewInv, NEW t, V!Commits(t)
  PROVE  ViewInv'
<1> DEFINE c == t.of
           new == viewRow'[c]
<1>1. /\ c \in V!Chats /\ t.began \in Nat /\ t.began < now /\ open' \subseteq open
      /\ UNCHANGED <<now, browser, since, viewView, listed, upto>>
      /\ now \in Nat /\ since \in Nat
  BY DEF ViewInv, ViewTimes, ViewTypes, V!Commits
<1>2. /\ viewRow' \in [V!Chats -> ViewRow]
      /\ \A d \in V!Chats \ {c} : viewRow'[d] = viewRow[d]
      /\ new.updated = t.began /\ new.ver = viewRow[c].ver + 1
      /\ new.epoch = t.began \/ new.epoch = viewRow[c].epoch
  <2> DEFINE newer_ == t.what = "message" /\ t.began > viewRow[c].epoch
             epoch_ == IF newer_ THEN t.began ELSE viewRow[c].epoch
             pinned_ == IF t.what = "pin" THEN ~viewRow[c].pinned ELSE viewRow[c].pinned
             row_ == [ver |-> viewRow[c].ver + 1, updated |-> t.began, epoch |-> epoch_, pinned |-> pinned_]
  <2>1. viewRow' = [viewRow EXCEPT ![c] = row_]
    BY DEF V!Commits
  <2>2. viewRow[c] \in ViewRow
    BY <1>1 DEF ViewInv, ViewTypes
  <2>3. epoch_ \in Nat /\ (epoch_ = t.began \/ epoch_ = viewRow[c].epoch)
    BY <1>1, <2>2 DEF ViewRow
  <2>4. pinned_ \in BOOLEAN
    BY <2>2 DEF ViewRow
  <2> HIDE DEF epoch_, pinned_
  <2>5. row_ \in ViewRow /\ row_.updated = t.began /\ row_.ver = viewRow[c].ver + 1 /\ row_.epoch = epoch_
    BY <1>1, <2>2, <2>3, <2>4 DEF ViewRow
  <2> HIDE DEF row_
  <2> QED BY <1>1, <2>1, <2>3, <2>5 DEF ViewInv, ViewTypes
<1>3. touched' = touched \cup {c} /\ late' = IF t.began <= since THEN late \cup {c} ELSE late
  BY DEF V!Commits
<1>4. ViewTypes'
  BY <1>1, <1>2, <1>3 DEF ViewInv, ViewTypes
<1>5. ViewTimes'
  <2>1. \A d \in V!Chats : viewRow[d] \in ViewRow /\ viewView[d] \in Nat /\ upto[d] \in Nat
    BY DEF ViewInv, ViewTypes
  <2> QED BY <1>1, <1>2, <2>1 DEF ViewInv, ViewTimes, ViewRow
<1>6. ListShown'
  <2>1. \A d \in V!Chats \ {c} : (ReadSoFar(d) <=> ReadSoFar(d)') /\ (Shown(d) <=> Shown(d)')
    BY <1>1, <1>2 DEF ReadSoFar, V!Beyond, Shown
  <2> SUFFICES ASSUME browser.at \in Listing
               PROVE  /\ \A d \in V!Chats \ touched' : ReadSoFar(d)' => Shown(d)'
                      /\ \A d \in touched' \ late' : viewRow'[d].updated > since
    BY <1>1 DEF ListShown
  <2>2. \A d \in V!Chats \ touched' : ReadSoFar(d)' => Shown(d)'
    BY <1>3, <2>1 DEF ViewInv, ListShown
  <2>3. \A d \in touched' \ late' : viewRow'[d].updated > since
    BY <1>1, <1>2, <1>3 DEF ViewInv, ListShown, ViewTypes
  <2> QED BY <2>2, <2>3
<1>7. MarkShown' /\ V!CaughtUp'
  BY <1>1, <1>2, <1>3 DEF ViewInv, MarkShown, V!CaughtUp, Shown
<1> QED BY <1>4, <1>5, <1>6, <1>7 DEF ViewInv

LEMMA ListStarts ==
  ASSUME ViewInv, V!ListBegins
  PROVE  ViewInv'
<1>1. /\ now' = now + 1 /\ since' = now /\ touched' = {}
      /\ browser' = [at |-> "page", cursor |-> V!NoCursor, mark |-> 0]
      /\ listed' = [c \in V!Chats |-> 0]
      /\ UNCHANGED <<viewRow, open, viewView, upto, late>>
  BY DEF V!ListBegins
<1>2. ViewTypes'
  BY <1>1 DEF ViewInv, ViewTypes, V!NoCursor
<1>3. ViewTimes'
  BY <1>1 DEF ViewInv, ViewTypes, ViewTimes, ViewRow
<1>4. browser'.at = "page" /\ browser'.cursor = V!NoCursor
  BY <1>1
<1>5. \A c : ~ReadSoFar(c)'
  BY <1>4 DEF ReadSoFar, V!NoCursor
<1>6. ListShown'
  BY <1>1, <1>5 DEF ListShown
<1>7. MarkShown' /\ V!CaughtUp'
  BY <1>4 DEF MarkShown, V!CaughtUp
<1> QED BY <1>2, <1>3, <1>6, <1>7 DEF ViewInv

(* Showing some chats as they are keeps the others as they were.           *)
LEMMA ShowsSome ==
  ASSUME ViewTypes, ViewTimes, NEW items \in SUBSET V!Chats, V!Shows(items),
         UNCHANGED <<viewRow, upto>>
  PROVE  /\ viewView' \in [V!Chats -> Nat] /\ DOMAIN listed' = V!Chats
         /\ \A c \in V!Chats : viewView'[c] <= viewRow[c].ver
         /\ \A c \in V!Chats : c \in items \/ Shown(c) => Shown(c)'
  BY DEF ViewTypes, ViewTimes, ViewRow, V!Shows, Shown

LEMMA PageRead ==
  ASSUME ViewInv, V!Page
  PROVE  ViewInv'
<1> DEFINE rest == V!Rest(browser.cursor)
           items == V!FirstOf(rest)
           more == V!Cardinality(rest) > PageRows
           final == V!LastOf(items)
<1>1. /\ browser.at = "page" /\ V!Shows(items)
      /\ browser' = [browser EXCEPT
                       !.at = IF browser.cursor = V!NoCursor
                              THEN IF more THEN "pinned" ELSE "pinned_only"
                              ELSE IF more THEN "page" ELSE "listed",
                       !.cursor = IF more THEN <<viewRow[final].epoch, final>> ELSE @]
      /\ UNCHANGED <<now, viewRow, open, since, touched, upto, late>>
  BY DEF V!Page
<1>2. rest \in SUBSET V!Chats
  BY DEF V!Rest
<1>3. /\ items \subseteq rest /\ (~more => items = rest)
      /\ more => final \in items /\ \A c \in rest \ items : V!After(c, final)
  BY <1>2, PageIsFirst DEF ViewInv
<1> HIDE DEF rest, items, more, final
<1>4. /\ viewView' \in [V!Chats -> Nat] /\ DOMAIN listed' = V!Chats
      /\ \A c \in V!Chats : viewView'[c] <= viewRow[c].ver
      /\ \A c \in V!Chats : c \in items \/ Shown(c) => Shown(c)'
  BY <1>1, <1>2, <1>3, ShowsSome DEF ViewInv
<1>5. /\ DOMAIN browser' = {"at", "cursor", "mark"} /\ browser'.mark = browser.mark
      /\ browser'.cursor = IF more THEN <<viewRow[final].epoch, final>> ELSE browser.cursor
      /\ browser'.at = IF browser.cursor = V!NoCursor
                       THEN IF more THEN "pinned" ELSE "pinned_only"
                       ELSE IF more THEN "page" ELSE "listed"
  BY <1>1 DEF ViewInv, ViewTypes
<1>6. more => final \in V!Chats /\ viewRow[final].epoch \in Nat /\ viewRow[final].epoch < now
  BY <1>2, <1>3 DEF ViewInv, ViewTypes, ViewTimes, ViewRow
<1>7. ViewTypes'
  BY <1>1, <1>4, <1>5, <1>6 DEF ViewInv, ViewTypes
<1>8. ViewTimes'
  BY <1>1, <1>4 DEF ViewInv, ViewTimes
<1>9. \A c \in V!Chats : (c \in rest <=> ~viewRow[c].pinned /\ V!Beyond(c, browser.cursor))
  BY DEF rest, V!Rest
<1>10. ASSUME more
       PROVE  browser'.cursor # V!NoCursor
              /\ \A c \in V!Chats : ~V!Beyond(c, browser'.cursor) =>
                   (viewRow[c].pinned \/ c \in items \/ ~V!Beyond(c, browser.cursor))
  <2>1. browser'.cursor = <<viewRow[final].epoch, final>>
    BY <1>5, <1>10
  <2>2. browser'.cursor # V!NoCursor /\ browser'.cursor[1] = viewRow[final].epoch /\ browser'.cursor[2] = final
    BY <2>1 DEF V!NoCursor
  <2>3. \A c \in V!Chats : V!After(c, final) => V!Beyond(c, browser'.cursor)
    BY <2>2 DEF V!After, V!Beyond
  <2>4. \A c \in rest \ items : V!After(c, final)
    BY <1>3, <1>10
  <2> QED BY <1>2, <1>9, <2>2, <2>3, <2>4
<1>11. \A c \in V!Chats \ touched : ~viewRow[c].pinned /\ ~V!Beyond(c, browser.cursor) => Shown(c)
  <2>1. V!Beyond(1, V!NoCursor) /\ \A c : V!Beyond(c, V!NoCursor)
    BY DEF V!Beyond
  <2> QED BY <1>1, <2>1 DEF ViewInv, ListShown, Listing, ReadSoFar
<1>12. \A c \in V!Chats \ touched :
         browser.cursor # V!NoCursor /\ viewRow[c].pinned => Shown(c)
  BY <1>1 DEF ViewInv, ListShown, Listing, ReadSoFar
<1>13. \A c \in touched \ late : viewRow[c].updated > since
  BY <1>1 DEF ViewInv, ListShown, Listing
<1>14. ASSUME NEW c \in V!Chats \ touched, ReadSoFar(c)' PROVE Shown(c)'
  <2>1. (V!Beyond(c, browser.cursor))' <=> V!Beyond(c, browser'.cursor)
    BY <1>1 DEF V!Beyond
  <2>2. CASE more /\ browser.cursor = V!NoCursor
    <3>1. ~viewRow[c].pinned /\ ~V!Beyond(c, browser'.cursor)
      BY <1>1, <1>5, <1>14, <2>1, <2>2 DEF ReadSoFar
    <3> QED BY <1>4, <1>10, <1>11, <2>2, <3>1
  <2>3. CASE more /\ browser.cursor # V!NoCursor
    <3>1. viewRow[c].pinned \/ ~V!Beyond(c, browser'.cursor)
      BY <1>1, <1>5, <1>14, <2>1, <2>3 DEF ReadSoFar
    <3> QED BY <1>4, <1>10, <1>11, <1>12, <2>3, <3>1
  <2>4. CASE ~more
    <3>1. ~viewRow[c].pinned /\ browser.cursor = V!NoCursor
      BY <1>1, <1>5, <1>14, <2>4 DEF ReadSoFar
    <3> QED BY <1>3, <1>4, <1>9, <1>11, <2>4, <3>1
  <2> QED BY <2>2, <2>3, <2>4
<1>15. ListShown'
  BY <1>1, <1>13, <1>14 DEF ListShown
<1>16. MarkShown'
  <2> SUFFICES ASSUME browser'.at = "listed", NEW c \in V!Chats \ late, viewRow[c].updated <= since
               PROVE  Shown(c)'
    BY <1>1, <1>5 DEF MarkShown
  <2>1. ~more /\ browser.cursor # V!NoCursor
    BY <1>5
  <2>2. c \notin touched
    BY <1>13 DEF ViewInv, ViewTypes, ViewRow
  <2> QED BY <1>3, <1>4, <1>9, <1>11, <1>12, <2>1, <2>2
<1>17. V!CaughtUp'
  BY <1>5 DEF V!CaughtUp
<1> QED BY <1>7, <1>8, <1>15, <1>16, <1>17 DEF ViewInv

LEMMA PinnedRead ==
  ASSUME ViewInv, V!Pinned
  PROVE  ViewInv'
<1> DEFINE items == {c \in V!Chats : viewRow[c].pinned}
<1>1. /\ browser.at \in {"pinned", "pinned_only"} /\ V!Shows(items)
      /\ browser' = [browser EXCEPT !.at = IF @ = "pinned" THEN "page" ELSE "listed"]
      /\ UNCHANGED <<now, viewRow, open, since, touched, upto, late>>
  BY DEF V!Pinned
<1>2. items \in SUBSET V!Chats /\ \A c \in V!Chats : c \in items <=> viewRow[c].pinned
  OBVIOUS
<1> HIDE DEF items
<1>4. /\ viewView' \in [V!Chats -> Nat] /\ DOMAIN listed' = V!Chats
      /\ \A c \in V!Chats : viewView'[c] <= viewRow[c].ver
      /\ \A c \in V!Chats : c \in items \/ Shown(c) => Shown(c)'
  BY <1>1, <1>2, ShowsSome DEF ViewInv
<1>5. /\ DOMAIN browser' = {"at", "cursor", "mark"} /\ browser'.mark = browser.mark
      /\ browser'.cursor = browser.cursor
      /\ browser'.at = IF browser.at = "pinned" THEN "page" ELSE "listed"
  BY <1>1 DEF ViewInv, ViewTypes
<1>7. ViewTypes' /\ ViewTimes'
  BY <1>1, <1>4, <1>5 DEF ViewInv, ViewTypes, ViewTimes
<1>8. \A c \in V!Chats \ touched : ReadSoFar(c) => Shown(c)
  BY <1>1 DEF ViewInv, ListShown, Listing
<1>13. \A c \in touched \ late : viewRow[c].updated > since
  BY <1>1 DEF ViewInv, ListShown, Listing
<1>9. ListShown'
  <2>1. \A c : (V!Beyond(c, browser.cursor))' <=> V!Beyond(c, browser.cursor)
    BY <1>1, <1>5 DEF V!Beyond
  <2>2. ASSUME NEW c \in V!Chats \ touched, ReadSoFar(c)' PROVE Shown(c)'
    <3>1. viewRow[c].pinned \/ ReadSoFar(c)
      BY <1>1, <1>5, <2>1, <2>2 DEF ReadSoFar
    <3> QED BY <1>2, <1>4, <1>8, <3>1
  <2> QED BY <1>1, <1>13, <2>2 DEF ListShown
<1>10. MarkShown'
  <2> SUFFICES ASSUME browser'.at = "listed", NEW c \in V!Chats \ late, viewRow[c].updated <= since
               PROVE  Shown(c)'
    BY <1>1, <1>5 DEF MarkShown
  <2>1. browser.at = "pinned_only"
    BY <1>1, <1>5
  <2>2. c \notin touched
    BY <1>13 DEF ViewInv, ViewTypes, ViewRow
  <2> QED BY <1>2, <1>4, <1>8, <2>1, <2>2 DEF ReadSoFar
<1> QED BY <1>5, <1>7, <1>9, <1>10 DEF ViewInv, V!CaughtUp

LEMMA CatchesUp ==
  ASSUME ViewInv, V!CatchUpBegins \/ V!CatchUp
  PROVE  ViewInv'
<1>1. CASE V!CatchUpBegins
  <2>1. /\ browser.at \in {"listed", "current"} /\ now' = now + 1
        /\ browser' = [browser EXCEPT !.at = "changes", !.mark = now]
        /\ UNCHANGED <<viewRow, open, since, viewView, touched, listed, upto, late>>
    BY <1>1 DEF V!CatchUpBegins
  <2>2. DOMAIN browser' = {"at", "cursor", "mark"} /\ browser'.mark = now /\ browser'.at = "changes"
        /\ browser'.cursor = browser.cursor
    BY <2>1 DEF ViewInv, ViewTypes
  <2>3. ViewTypes'
    BY <2>1, <2>2 DEF ViewInv, ViewTypes
  <2>4. ViewTimes'
    BY <2>1 DEF ViewInv, ViewTypes, ViewTimes, ViewRow
  <2> QED BY <2>1, <2>2, <2>3, <2>4 DEF ViewInv, ListShown, Listing, MarkShown, V!CaughtUp, Shown
<1>2. CASE V!CatchUp /\ V!Cardinality(V!Changed) > CatchUpRows
  <2>1. /\ browser' = [browser EXCEPT !.at = "reload"]
        /\ UNCHANGED <<now, viewRow, open, since, viewView, touched, listed, upto, late>>
    BY <1>2 DEF V!CatchUp
  <2>2. DOMAIN browser' = {"at", "cursor", "mark"} /\ browser'.mark = browser.mark /\ browser'.at = "reload"
        /\ browser'.cursor = browser.cursor
    BY <2>1 DEF ViewInv, ViewTypes
  <2> QED BY <2>1, <2>2 DEF ViewInv, ViewTypes, ViewTimes, ListShown, Listing, MarkShown, V!CaughtUp
<1>3. CASE V!CatchUp /\ ~(V!Cardinality(V!Changed) > CatchUpRows)
  <2>1. /\ browser.at = "changes" /\ browser' = [browser EXCEPT !.at = "current"]
        /\ viewView' = [c \in V!Chats |-> IF c \in V!Changed THEN viewRow[c].ver ELSE viewView[c]]
        /\ since' = browser.mark /\ upto' = [c \in V!Chats |-> viewRow[c].ver]
        /\ late' = late \ V!Changed
        /\ UNCHANGED <<now, viewRow, open, touched, listed>>
    BY <1>3 DEF V!CatchUp, V!ServerTime
  <2>2. DOMAIN browser' = {"at", "cursor", "mark"} /\ browser'.mark = browser.mark /\ browser'.at = "current"
        /\ browser'.cursor = browser.cursor
    BY <2>1 DEF ViewInv, ViewTypes
  <2>3. ViewTypes'
    BY <2>1, <2>2 DEF ViewInv, ViewTypes, ViewRow
  <2>4. ViewTimes'
    BY <2>1 DEF ViewInv, ViewTypes, ViewTimes, ViewRow
  <2>5. ASSUME NEW c \in V!Chats \ late' PROVE Shown(c)'
    BY <2>1, <2>5 DEF ViewInv, MarkShown, Shown, ViewTypes, ViewRow, V!Changed
  <2> QED BY <2>1, <2>2, <2>3, <2>4, <2>5 DEF ViewInv, ListShown, Listing, MarkShown, V!CaughtUp, Shown,
                                            ViewTypes, ViewRow
<1> QED BY <1>1, <1>2, <1>3

LEMMA ViewNext == ASSUME ViewInv, [V!Next]_(V!vars) PROVE ViewInv'
<1>1. ASSUME NEW c \in V!Chats, NEW what \in {"message", "pin"}, V!Begins(c, what) PROVE ViewInv'
  BY <1>1, ChatBegins
<1>2. ASSUME NEW t \in open, V!Commits(t) PROVE ViewInv'
  BY <1>2, ChatCommits
<1>3. CASE UNCHANGED V!vars
  BY <1>3 DEF V!vars, ViewInv, ViewTypes, ViewTimes, ListShown, MarkShown, ReadSoFar, V!Beyond, Shown, V!CaughtUp
<1> QED BY <1>1, <1>2, <1>3, ListStarts, PageRead, PinnedRead, CatchesUp DEF V!Next

-----------------------------------------------------------------------------
(* The files of a chat.                                                    *)

LoadsOf(loads, rows) ==
  /\ loads \in [Servers -> [M!All -> {"none", "look", "lane", "store", "insert"}]]
  /\ \A s \in Servers, m \in M!All : loads[s][m] # "none" => m \in rows

LoadTypes ==
  /\ known \subseteq M!All /\ live \subseteq known
  /\ files \in [M!All -> Nat]
  /\ LoadsOf(load, known)
  /\ \A s \in Servers : lane[s] \in Seq(known)
  /\ DOMAIN lane = Servers
  /\ DOMAIN chain = DOMAIN M!NoChain
  /\ chain.pc \in {"idle", "batch", "each", "wait", "end", "stopped"}
  /\ chain.before \in Nat /\ chain.more \in BOOLEAN
  /\ chain.todo \subseteq known /\ chain.wanted \subseteq known
  /\ chain.tries \in [M!All -> {0, 1}]
  /\ chain.pc \in {"each", "wait"} => chain.todo # {}
  /\ chain.pc \in {"each", "wait"} => chain.server \in Servers

(* A wanted file is kept, or its failure was reported.                     *)
Kept(m) == files[m] > 0 \/ m \in chain.failed

(* The files tried are those from the cursor on, and the one that is tried *)
(* now.                                                                    *)
TriedAbove ==
  /\ \A m \in chain.todo : m < chain.before
  /\ \A m \in M!All : chain.tries[m] > 0 /\ chain.pc # "stopped" =>
       m >= chain.before \/ (chain.pc = "wait" /\ m = M!Newest(chain.todo))

(* Whatever is wanted is dealt with, to do now, or for a later batch.      *)
NonePassed ==
  \A m \in chain.wanted :
    \/ Kept(m)
    \/ chain.pc = "batch" /\ m < chain.before
    \/ /\ chain.pc \in {"each", "wait"}
       /\ m \in chain.todo \/ (chain.more /\ \A n \in chain.todo : m < n)
    \/ chain.pc = "stopped"

LoadInv == LoadTypes /\ TriedAbove /\ NonePassed

LEMMA MediaCount == ASSUME NEW group PROVE M!Cardinality(group) = Cardinality(group)
  BY DEF M!Cardinality, Cardinality

LEMMA FilesAreFinite ==
  /\ M!All \subseteq Nat /\ M!All # {}
  /\ \A group \in SUBSET M!All : IsFiniteSet(group) /\ Cardinality(group) \in Nat
  /\ BatchFiles \in Nat /\ BatchFiles > 0
<1>1. M!All \subseteq Nat /\ M!All # {} /\ IsFiniteSet(M!All) /\ BatchFiles \in Nat /\ BatchFiles > 0
  BY DeskAssumption DEF M!All
<1> QED BY <1>1, FS_Subset, FS_CardinalityType

(* Some files have a newest one.                                           *)
LEMMA NewestIsNewest ==
  ASSUME NEW some \in SUBSET M!All, some # {}
  PROVE  M!Newest(some) \in some /\ \A n \in some : n <= M!Newest(some)
<1> DEFINE Newer(m) == {n \in some : n >= m}
           Size(m) == Cardinality(Newer(m))
           sizes == {Size(m) : m \in some}
<1>1. some \subseteq Nat
  BY FilesAreFinite
<1>2. \A m \in some : IsFiniteSet(Newer(m)) /\ Size(m) \in Nat
  <2>1. \A m \in some : Newer(m) \in SUBSET M!All
    OBVIOUS
  <2> HIDE DEF Newer
  <2> QED BY <2>1, FilesAreFinite
<1>3. sizes \subseteq Nat /\ sizes # {}
  BY <1>2
<1>4. PICK m \in some : \A n \in some : Size(m) <= Size(n)
  <2>1. A!Min(sizes) \in sizes /\ \A y \in sizes : A!Min(sizes) <= y
    <3> HIDE DEF sizes
    <3> QED BY <1>3, NatHasLeast
  <2> QED BY <2>1
<1>5. ASSUME NEW n \in some PROVE n <= m
  <2> SUFFICES ASSUME n > m PROVE FALSE
    BY <1>1
  <2>1. m \in Nat /\ n \in Nat /\ n >= m /\ m >= m /\ ~(m >= n) /\ \A o \in some : o >= n => o >= m
    BY <1>1
  <2>0. Newer(n) \subseteq Newer(m) /\ m \in Newer(m) /\ m \notin Newer(n)
    BY <2>1
  <2>2. Size(n) <= Size(m) /\ (Size(n) = Size(m) => Newer(n) = Newer(m))
    <3>1. IsFiniteSet(Newer(m)) /\ Newer(n) \in SUBSET Newer(m)
      BY <1>2, <2>0
    <3> HIDE DEF Newer
    <3> QED BY <3>1, FS_Subset
  <2>3. Newer(n) # Newer(m) /\ Size(m) <= Size(n) /\ Size(m) \in Nat /\ Size(n) \in Nat
    BY <1>2, <1>4, <2>0
  <2> HIDE DEF Newer, Size
  <2> QED BY <2>2, <2>3
<1> QED BY <1>5 DEF M!Newest

(* A batch holds the newest of what is left: all of it, or the rest is     *)
(* older.                                                                  *)
LEMMA BatchIsNewest ==
  ASSUME NEW below \in SUBSET M!All
  PROVE  LET todo == {m \in below : M!Cardinality({n \in below : n > m}) < BatchFiles}
         IN  /\ below # {} => todo # {}
             /\ ~(M!Cardinality(below) > BatchFiles) => todo = below
             /\ \A m \in below \ todo, n \in todo : m < n
<1> DEFINE Newer(m) == {n \in below : n > m}
           todo == {m \in below : M!Cardinality(Newer(m)) < BatchFiles}
<1>1. below \subseteq Nat /\ BatchFiles \in Nat /\ BatchFiles > 0
  BY FilesAreFinite
<1>2. \A m \in below : /\ IsFiniteSet(Newer(m)) /\ Cardinality(Newer(m)) \in Nat
                       /\ M!Cardinality(Newer(m)) = Cardinality(Newer(m))
  <2>1. \A m \in below : Newer(m) \in SUBSET M!All
    OBVIOUS
  <2> HIDE DEF Newer
  <2> QED BY <2>1, FilesAreFinite, MediaCount
<1>3. IsFiniteSet(below) /\ Cardinality(below) \in Nat /\ M!Cardinality(below) = Cardinality(below)
  <2>1. IsFiniteSet(below) /\ Cardinality(below) \in Nat
    BY FilesAreFinite
  <2> QED BY <2>1, MediaCount
<1>4. ASSUME below # {} PROVE todo # {}
  <2>1. M!Newest(below) \in below /\ \A n \in below : n <= M!Newest(below)
    BY <1>4, NewestIsNewest
  <2>2. Newer(M!Newest(below)) = {}
    <3> DEFINE top == M!Newest(below)
    <3>2. top \in Nat /\ \A n \in below : n \in Nat /\ n <= top
      BY <1>1, <2>1
    <3> HIDE DEF top
    <3>1. \A n \in below : ~(n > top)
      BY <3>2
    <3> USE DEF top
    <3> QED BY <3>1
  <2>3. Cardinality(Newer(M!Newest(below))) = 0
    BY <2>2, FS_EmptySet
  <2> QED BY <1>1, <1>2, <2>1, <2>3
<1>5. ASSUME ~(M!Cardinality(below) > BatchFiles) PROVE todo = below
  <2>1. ASSUME NEW m \in below PROVE Cardinality(Newer(m)) < BatchFiles
    <3>1. Newer(m) \in SUBSET below /\ Newer(m) # below
      BY <1>1
    <3>2. Cardinality(Newer(m)) <= Cardinality(below)
          /\ (Cardinality(Newer(m)) = Cardinality(below) => Newer(m) = below)
      <4> HIDE DEF Newer
      <4> QED BY <1>3, <3>1, FS_Subset
    <3> QED BY <1>1, <1>2, <1>3, <1>5, <3>1, <3>2
  <2> QED BY <1>2, <2>1
<1>6. ASSUME NEW m \in below \ todo, NEW n \in todo PROVE m < n
  <2> SUFFICES ASSUME n <= m PROVE FALSE
    BY <1>1
  <2>1. Newer(m) \in SUBSET Newer(n) /\ IsFiniteSet(Newer(n))
    <3>1. \A o \in below : o > m => o > n
      BY <1>1
    <3> QED BY <1>2, <3>1
  <2>2. Cardinality(Newer(m)) <= Cardinality(Newer(n))
    <3> HIDE DEF Newer
    <3> QED BY <2>1, FS_Subset
  <2> QED BY <1>1, <1>2, <1>6, <2>2
<1> QED BY <1>4, <1>5, <1>6

LEMMA LoadInit == ASSUME M!Init PROVE LoadInv
<1>1. known \subseteq M!All /\ files \in [M!All -> Nat] /\ live = {} /\ LoadsOf(load, known)
  BY DEF M!Init, M!All, LoadsOf
<1>2. DOMAIN lane = Servers /\ \A s \in Servers : lane[s] \in Seq(known)
  BY DEF M!Init
<1>3. /\ chain.pc = "idle" /\ chain.before = 0 /\ chain.more = FALSE /\ chain.todo = {} /\ chain.wanted = {}
      /\ chain.tries = [m \in M!All |-> 0] /\ chain = M!NoChain
  BY DEF M!Init, M!NoChain
<1>4. DOMAIN chain = DOMAIN M!NoChain
  BY <1>3
<1>8. chain.tries \in [M!All -> {0, 1}] /\ chain.before \in Nat
  BY <1>3
<1>9. chain.pc \in {"idle", "batch", "each", "wait", "end", "stopped"} /\ chain.more \in BOOLEAN
      /\ chain.todo \subseteq known /\ chain.wanted \subseteq known /\ chain.pc \notin {"each", "wait"}
  BY <1>3
<1>5. LoadTypes
  BY <1>1, <1>2, <1>4, <1>8, <1>9 DEF LoadTypes
<1>6. TriedAbove
  BY <1>3 DEF TriedAbove
<1>7. NonePassed
  BY <1>3 DEF NonePassed
<1> QED BY <1>5, <1>6, <1>7 DEF LoadInv

(* What the chain does not see: files only come to be.                     *)
LEMMA ChainStays ==
  ASSUME LoadInv, UNCHANGED chain, known \subseteq known', known' \subseteq M!All, live' \subseteq known',
         files' \in [M!All -> Nat], \A m \in M!All : files'[m] >= files[m],
         LoadsOf(load', known'),
         \A s \in Servers : lane'[s] \in Seq(known'), DOMAIN lane' = Servers
  PROVE  LoadInv'
<1>1. LoadTypes' /\ TriedAbove'
  BY DEF LoadInv, LoadTypes, TriedAbove
<1>2. NonePassed'
  BY DEF LoadInv, LoadTypes, NonePassed, Kept
<1> QED BY <1>1, <1>2 DEF LoadInv

(* The chain goes on once a file is dealt with.                            *)
LEMMA ChainGoesOn ==
  ASSUME LoadInv, NEW s \in Servers, NEW m \in M!All, NEW how,
         M!Ends(s, m, how), UNCHANGED <<known, live>>,
         files' \in [M!All -> Nat], \A n \in M!All : files'[n] >= files[n],
         how = "ok" => files'[m] > 0,
         \A t \in Servers : lane'[t] \in Seq(known), DOMAIN lane' = Servers
  PROVE  LoadInv'
<1> DEFINE c == IF how = "gone" THEN [chain EXCEPT !.failed = @ \union {m}] ELSE chain
<1>1. LoadsOf(load', known)
  BY DEF M!Ends, LoadInv, LoadTypes, LoadsOf
<1>2. CASE UNCHANGED chain
  BY <1>1, <1>2, ChainStays DEF LoadInv, LoadTypes
<1>3. CASE chain' # chain /\ how \notin {"ok", "gone"}
  <2>1. chain' = [chain EXCEPT !.pc = "stopped"]
    BY <1>3 DEF M!Ends
  <2>2. DOMAIN chain' = DOMAIN M!NoChain /\ chain'.pc = "stopped" /\ chain'.before = chain.before
        /\ chain'.more = chain.more /\ chain'.todo = chain.todo /\ chain'.wanted = chain.wanted
        /\ chain'.tries = chain.tries
    BY <2>1 DEF LoadInv, LoadTypes, M!NoChain
  <2>3. LoadTypes'
    BY <1>1, <2>2 DEF LoadInv, LoadTypes
  <2> QED BY <2>2, <2>3 DEF LoadInv, TriedAbove, NonePassed
<1>4. CASE chain' # chain /\ how \in {"ok", "gone"}
  <2>1. chain.pc = "wait" /\ chain.server = s /\ M!Newest(chain.todo) = m /\ chain' = M!Next1(c, m)
    BY <1>4 DEF M!Ends
  <2>2. chain.todo \in SUBSET M!All /\ chain.todo # {}
    BY <2>1 DEF LoadInv, LoadTypes
  <2>3. m \in chain.todo /\ \A n \in chain.todo : n <= m
    BY <2>1, <2>2, NewestIsNewest
  <2>4. \A n \in M!All : n \in Nat
    BY FilesAreFinite
  <2>5. /\ DOMAIN c = DOMAIN M!NoChain /\ c.pc = chain.pc /\ c.before = chain.before /\ c.more = chain.more
        /\ c.todo = chain.todo /\ c.wanted = chain.wanted /\ c.tries = chain.tries /\ c.server = chain.server
        /\ c.failed = IF how = "gone" THEN chain.failed \cup {m} ELSE chain.failed
    BY DEF LoadInv, LoadTypes, M!NoChain
  <2> HIDE DEF c
  <2>6. /\ DOMAIN chain' = DOMAIN M!NoChain
        /\ chain'.pc = IF chain.todo # {m} THEN "each" ELSE IF chain.more THEN "batch" ELSE "end"
        /\ chain'.todo = chain.todo \ {m} /\ chain'.before = m /\ chain'.more = chain.more
        /\ chain'.wanted = chain.wanted /\ chain'.tries = chain.tries /\ chain'.server = s
        /\ chain'.failed = IF how = "gone" THEN chain.failed \cup {m} ELSE chain.failed
    BY <2>1, <2>5 DEF M!Next1, M!Below, M!NoChain
  <2>7. LoadTypes'
    BY <1>1, <2>3, <2>4, <2>6 DEF LoadInv, LoadTypes
  <2>8. TriedAbove'
    <3>1. \A n \in chain'.todo : n < chain'.before
      BY <2>2, <2>3, <2>4, <2>6
    <3>2. ASSUME NEW n \in M!All, chain'.tries[n] > 0 PROVE n >= chain'.before
      <4>1. n >= chain.before \/ n = m
        BY <2>1, <2>6, <3>2 DEF LoadInv, TriedAbove
      <4>2. m < chain.before
        BY <2>3 DEF LoadInv, TriedAbove
      <4> QED BY <2>4, <2>6, <4>1, <4>2 DEF LoadInv, LoadTypes
    <3> QED BY <3>1, <3>2 DEF TriedAbove
  <2>9. NonePassed'
    <3> SUFFICES ASSUME NEW n \in chain.wanted
                 PROVE  \/ Kept(n)'
                        \/ chain'.pc = "batch" /\ n < chain'.before
                        \/ /\ chain'.pc \in {"each", "wait"}
                           /\ n \in chain'.todo \/ (chain'.more /\ \A o \in chain'.todo : n < o)
      BY <2>6 DEF NonePassed
    <3>1. n \in M!All
      BY DEF LoadInv, LoadTypes
    <3>2. Kept(n) => Kept(n)'
      BY <2>6, <3>1 DEF Kept, LoadInv, LoadTypes
    <3>3. Kept(m)'
      BY <1>4, <2>6 DEF Kept
    <3>4. Kept(n) \/ n \in chain.todo \/ (chain.more /\ \A o \in chain.todo : n < o)
      BY <2>1 DEF LoadInv, NonePassed
    <3> QED BY <2>3, <2>6, <3>2, <3>3, <3>4
  <2> QED BY <2>7, <2>8, <2>9 DEF LoadInv
<1> QED BY <1>2, <1>3, <1>4

LEMMA ChainBegins == ASSUME LoadInv, M!Begins PROVE LoadInv'
<1>1. M!End \in Nat /\ \A m \in M!All : m < M!End
  <2>1. M!All \in SUBSET M!All /\ M!All # {} /\ M!All \subseteq Nat
    BY FilesAreFinite
  <2>2. M!Newest(M!All) \in M!All /\ \A m \in M!All : m <= M!Newest(M!All)
    BY <2>1, NewestIsNewest
  <2> DEFINE top == M!Newest(M!All)
  <2>3. top \in Nat /\ \A n \in M!All : n \in Nat /\ n <= top
    BY <2>1, <2>2
  <2> HIDE DEF top
  <2>4. top + 1 \in Nat /\ \A n \in M!All : n < top + 1
    BY <2>3
  <2> QED BY <2>4 DEF M!End, top
<1>2. /\ chain'.pc = "batch" /\ chain'.before = M!End /\ chain'.wanted = M!Pending /\ chain'.todo = {}
      /\ chain'.more = FALSE /\ chain'.tries = [m \in M!All |-> 0] /\ DOMAIN chain' = DOMAIN M!NoChain
      /\ UNCHANGED <<known, files, live, load, lane>>
  BY DEF M!Begins, M!NoChain
<1>3. M!Pending \subseteq known
  BY DEF M!Pending
<1>4. LoadTypes'
  BY <1>1, <1>2, <1>3 DEF LoadInv, LoadTypes
<1> QED BY <1>1, <1>2, <1>3, <1>4 DEF LoadInv, LoadTypes, TriedAbove, NonePassed

LEMMA BatchRead == ASSUME LoadInv, NEW s \in Servers, M!Batch(s) PROVE LoadInv'
<1> DEFINE below == {m \in M!Pending : m < chain.before}
           todo == {m \in below : M!Cardinality({n \in below : n > m}) < BatchFiles}
           more == M!Cardinality(below) > BatchFiles
<1>1. /\ chain.pc = "batch"
      /\ chain' = [chain EXCEPT !.server = s, !.todo = todo, !.more = more,
                                !.pc = IF todo = {} THEN "end" ELSE "each"]
      /\ UNCHANGED <<known, files, live, load, lane>>
  BY DEF M!Batch
<1>2. below \in SUBSET M!All /\ below \subseteq known /\ \A m \in below : m < chain.before
  BY DEF M!Pending, LoadInv, LoadTypes
<1>3. todo \subseteq below /\ more \in BOOLEAN
  OBVIOUS
<1>4. /\ below # {} => todo # {}
      /\ ~more => todo = below
      /\ \A m \in below \ todo, n \in todo : m < n
  BY <1>2, BatchIsNewest
<1>5. \A m \in known : files[m] = 0 /\ m < chain.before => m \in below
  BY DEF M!Pending
<1> HIDE DEF below, todo, more
<1>6. /\ DOMAIN chain' = DOMAIN M!NoChain /\ chain'.server = s /\ chain'.todo = todo /\ chain'.more = more
      /\ chain'.pc = IF todo = {} THEN "end" ELSE "each"
      /\ chain'.before = chain.before /\ chain'.wanted = chain.wanted /\ chain'.tries = chain.tries
      /\ chain'.failed = chain.failed
  BY <1>1 DEF LoadInv, LoadTypes, M!NoChain
<1>7. LoadTypes'
  BY <1>1, <1>2, <1>3, <1>6 DEF LoadInv, LoadTypes
<1>8. TriedAbove'
  BY <1>1, <1>2, <1>3, <1>6 DEF LoadInv, TriedAbove
<1>9. NonePassed'
  <2> SUFFICES ASSUME NEW m \in chain.wanted
               PROVE  \/ Kept(m)'
                      \/ /\ chain'.pc = "each"
                         /\ m \in todo \/ (more /\ \A n \in todo : m < n)
    BY <1>6 DEF NonePassed
  <2>1. Kept(m) => Kept(m)'
    BY <1>1, <1>6 DEF Kept
  <2>2. m \in known /\ (Kept(m) \/ m < chain.before)
    BY <1>1 DEF LoadInv, LoadTypes, NonePassed
  <2>3. Kept(m) \/ m \in below
    BY <1>5, <2>2 DEF Kept, LoadInv, LoadTypes
  <2> QED BY <1>3, <1>4, <1>6, <2>1, <2>3
<1> QED BY <1>7, <1>8, <1>9 DEF LoadInv

LEMMA FileTried == ASSUME LoadInv, M!Each PROVE LoadInv'
<1> DEFINE m == M!Newest(chain.todo)
<1>1. chain.pc = "each" /\ chain.todo \in SUBSET M!All /\ chain.todo # {} /\ chain.server \in Servers
  BY DEF M!Each, LoadInv, LoadTypes
<1>2. m \in chain.todo /\ m \in M!All
  BY <1>1, NewestIsNewest
<1> HIDE DEF m
<1>3. /\ chain' = [chain EXCEPT !.pc = "wait", !.tries[m] = @ + 1]
      /\ load' = IF load[chain.server][m] = "none" THEN [load EXCEPT ![chain.server][m] = "look"] ELSE load
      /\ UNCHANGED <<known, files, live, lane>>
  BY DEF M!Each, m
<1>4. /\ DOMAIN chain' = DOMAIN M!NoChain /\ chain'.pc = "wait" /\ chain'.tries = [chain.tries EXCEPT ![m] = @ + 1]
      /\ chain'.server = chain.server /\ chain'.todo = chain.todo /\ chain'.more = chain.more
      /\ chain'.before = chain.before /\ chain'.wanted = chain.wanted /\ chain'.failed = chain.failed
  BY <1>3 DEF LoadInv, LoadTypes, M!NoChain
<1>5. LoadsOf(load', known)
  <2>1. m \in known
    BY <1>2 DEF LoadInv, LoadTypes
  <2>2. LoadsOf(load, known)
    BY DEF LoadInv, LoadTypes
  <2> QED BY <1>1, <1>2, <1>3, <2>1, <2>2 DEF LoadsOf
<1>6. chain.tries[m] = 0
  <2>1. m < chain.before /\ m \in Nat /\ chain.before \in Nat /\ chain.tries[m] \in 0..1
    BY <1>2, FilesAreFinite DEF LoadInv, LoadTypes, TriedAbove
  <2> QED BY <1>1, <1>2, <2>1 DEF LoadInv, TriedAbove
<1>7. chain'.tries \in [M!All -> {0, 1}] /\ \A n \in M!All \ {m} : chain'.tries[n] = chain.tries[n]
  BY <1>2, <1>4, <1>6 DEF LoadInv, LoadTypes
<1>8. LoadTypes'
  BY <1>1, <1>3, <1>4, <1>5, <1>7 DEF LoadInv, LoadTypes
<1>9. TriedAbove'
  BY <1>1, <1>4, <1>7 DEF LoadInv, TriedAbove, m
<1>10. NonePassed'
  BY <1>1, <1>3, <1>4 DEF LoadInv, NonePassed, Kept
<1> QED BY <1>8, <1>9, <1>10 DEF LoadInv

(* The step of a file.                                                     *)
LEMMA FileMoves ==
  ASSUME LoadInv, NEW m \in M!All, M!Arrives(m) \/ M!LiveKeeps(m) \/ M!LiveFails(m)
  PROVE  LoadInv'
<1>1. UNCHANGED <<load, lane, chain>> /\ known \subseteq known' /\ known' \subseteq M!All /\ live' \subseteq known'
  BY DEF M!Arrives, M!LiveKeeps, M!LiveFails, LoadInv, LoadTypes
<1>2. files' \in [M!All -> Nat] /\ \A n \in M!All : files'[n] >= files[n]
  <2>1. files \in [M!All -> Nat]
    BY DEF LoadInv, LoadTypes
  <2>2. files' = files \/ files' = [files EXCEPT ![m] = @ + 1]
    BY DEF M!Arrives, M!LiveKeeps, M!LiveFails
  <2> QED BY <2>1, <2>2
<1>3. \A s \in Servers : lane'[s] \in Seq(known')
  BY <1>1 DEF LoadInv, LoadTypes
<1>4. LoadsOf(load, known')
  BY <1>1 DEF LoadInv, LoadTypes, LoadsOf
<1> QED BY <1>1, <1>2, <1>3, <1>4, ChainStays DEF LoadInv, LoadTypes

LEMMA FileSteps ==
  ASSUME LoadInv, NEW s \in Servers, NEW m \in M!All,
         \/ M!Open(s, m) \/ M!Saved(s, m) \/ M!Lines(s, m) \/ M!Fetched(s, m) \/ M!FetchFails(s, m)
         \/ M!StoreFails(s, m) \/ M!Inserts(s, m) \/ M!Inserted(s, m)
  PROVE  LoadInv'
<1>1. \A n \in M!All : files[n] \in Nat /\ files[n] >= files[n]
  BY DEF LoadInv, LoadTypes
<1>10. /\ LoadsOf(load, known) /\ live \subseteq known /\ known \subseteq M!All /\ files \in [M!All -> Nat]
       /\ DOMAIN lane = Servers /\ \A t \in Servers : lane[t] \in Seq(known)
  BY DEF LoadInv, LoadTypes
<1>11. ASSUME NEW to \in {"look", "lane", "store", "insert"}, m \in known, load' = [load EXCEPT ![s][m] = to]
       PROVE  LoadsOf(load', known)
  BY <1>10, <1>11 DEF LoadsOf
<1>12. load[s][m] # "none" => m \in known
  BY <1>10 DEF LoadsOf
<1>2. CASE M!Open(s, m)
  BY <1>1, <1>2, <1>10, <1>11, ChainStays DEF M!Open
<1>3. CASE M!Saved(s, m)
  BY <1>1, <1>3, ChainGoesOn DEF M!Saved, LoadInv, LoadTypes
<1>4. CASE M!Lines(s, m)
  <2>1. m \in known /\ LoadsOf(load', known)
    BY <1>4, <1>11, <1>12 DEF M!Lines
  <2>2. lane' = [lane EXCEPT ![s] = Append(lane[s], m)]
    BY <1>4 DEF M!Lines
  <2>3. DOMAIN lane' = Servers /\ \A t \in Servers : lane'[t] \in Seq(known)
    BY <1>10, <2>1, <2>2
  <2> QED BY <1>1, <1>4, <1>10, <2>1, <2>3, ChainStays DEF M!Lines
<1>5. CASE M!Fetched(s, m)
  <2>1. LoadsOf(load', known)
    BY <1>5, <1>11, <1>12 DEF M!Fetched, M!Turn
  <2>2. lane[s] # <<>> /\ lane' = [lane EXCEPT ![s] = Tail(lane[s])]
    BY <1>5 DEF M!Fetched, M!Turn
  <2>3. DOMAIN lane' = Servers /\ \A t \in Servers : lane'[t] \in Seq(known)
    BY <1>10, <2>2
  <2> QED BY <1>1, <1>5, <1>10, <2>1, <2>3, ChainStays DEF M!Fetched
<1>6. CASE M!FetchFails(s, m)
  <2>1. lane[s] # <<>> /\ lane' = [lane EXCEPT ![s] = Tail(lane[s])]
    BY <1>6 DEF M!FetchFails, M!Turn
  <2>2. DOMAIN lane' = Servers /\ \A t \in Servers : lane'[t] \in Seq(known)
    BY <1>10, <2>1
  <2>3. PICK how \in {"gone", "offline"} : M!Ends(s, m, how)
    BY <1>6 DEF M!FetchFails
  <2>4. how # "ok" /\ UNCHANGED <<known, files, live>>
    BY <1>6 DEF M!FetchFails
  <2> QED BY <1>1, <1>10, <2>2, <2>3, <2>4, ChainGoesOn
<1>7. CASE M!StoreFails(s, m)
  BY <1>1, <1>7, ChainGoesOn DEF M!StoreFails, LoadInv, LoadTypes
<1>8. CASE M!Inserts(s, m)
  <2>1. CASE files[m] > 0
    BY <1>1, <1>8, <2>1, ChainGoesOn DEF M!Inserts, LoadInv, LoadTypes
  <2>2. CASE ~(files[m] > 0)
    <3>1. LoadsOf(load', known)
      BY <1>8, <2>2, <1>11, <1>12 DEF M!Inserts
    <3> QED BY <1>1, <1>8, <1>10, <2>2, <3>1, ChainStays DEF M!Inserts
  <2> QED BY <2>1, <2>2
<1>9. CASE M!Inserted(s, m)
  <2>1. files' \in [M!All -> Nat] /\ files'[m] > 0 /\ \A n \in M!All : files'[n] >= files[n]
    BY <1>9 DEF M!Inserted, LoadInv, LoadTypes
  <2> QED BY <1>9, <2>1, ChainGoesOn DEF M!Inserted, LoadInv, LoadTypes
<1> QED BY <1>2, <1>3, <1>4, <1>5, <1>6, <1>7, <1>8, <1>9

LEMMA LoadNext == ASSUME LoadInv, [M!Next]_(M!vars) PROVE LoadInv'
<1>1. CASE UNCHANGED M!vars
  BY <1>1 DEF M!vars, LoadInv, LoadTypes, TriedAbove, NonePassed, Kept
<1> QED BY <1>1, ChainBegins, BatchRead, FileTried, FileMoves, FileSteps DEF M!Next

LEMMA LoadedWhole == ASSUME LoadInv PROVE M!ChatIsLoaded
<1>1. \A m \in M!All : chain.tries[m] <= 1
  BY DEF LoadInv, LoadTypes
<1>2. chain.pc = "end" => \A m \in chain.wanted : files[m] > 0 \/ m \in chain.failed
  BY DEF LoadInv, NonePassed, Kept
<1> QED BY <1>1, <1>2 DEF M!ChatIsLoaded

(* What is read page by page is complete, whatever changes meanwhile: the  *)
(* list of chats with its compound cursor, caught up after every change    *)
(* (getConversations, getConversationChanges), and the files of a chat,    *)
(* batch by batch, each tried once (fetchPendingMedia).                    *)
THEOREM PagesMissNothingHolds == SpecMC => []PagesMissNothing
<1> DEFINE Inv == (part = "view" => ViewInv) /\ (part = "media" => LoadInv)
<1>1. InitMC => Inv
  BY PartInit, ViewInit, LoadInit
<1>2. Inv /\ [NextMC]_all => Inv'
  BY PartStep, ViewNext, LoadNext
<1>3. Inv => PagesMissNothing
  BY LoadedWhole DEF PagesMissNothing, ViewInv
<1> QED BY <1>1, <1>2, <1>3, PTL DEF SpecMC

-----------------------------------------------------------------------------
(* What the variables of each part are, whatever it does.                  *)

(* Listings.                                                               *)
ListingStatuses == {"draft", "available", "reserved", "sold", "rented", "withdrawn", "gone"}
ListingRow == [status : ListingStatuses, fields : SUBSET Fields, viewings : {0, 1}]
ListingWork ==
  [asks : {"nothing", "write", "verify", "delete"}, saw : ListingStatuses,
   fields : SUBSET Fields, status : ListingStatuses]
ListingTypes ==
  listingRow \in ListingRow /\ checks \in Nat /\ listingDoing \in [Agents -> ListingWork]

LEMMA ListingTyped ==
  /\ H!Init => ListingTypes
  /\ ListingTypes /\ [H!Next]_(H!vars) => ListingTypes'
  /\ ListingTypes => H!TypeOK
<1>1. H!Nothing \in ListingWork
  BY DEF H!Nothing, ListingWork, ListingStatuses
<1>2. H!Init => ListingTypes
  BY <1>1 DEF H!Init, ListingTypes, ListingRow, ListingStatuses
<1>3. ASSUME ListingTypes, NEW p \in Agents, H!Reads(p) PROVE ListingTypes'
  <2>1. PICK work \in ListingWork : listingDoing' = [listingDoing EXCEPT ![p] = work]
    <3>1. CASE \E fields \in SUBSET Fields, status \in H!Statuses :
                 listingDoing' = [listingDoing EXCEPT ![p] =
                   [asks |-> "write", saw |-> listingRow.status, fields |-> fields, status |-> status]]
      BY <1>3, <3>1 DEF ListingTypes, ListingRow, ListingWork, ListingStatuses, H!Statuses
    <3>2. ASSUME NEW wants \in {"verify", "delete"},
                 listingDoing' = [listingDoing EXCEPT ![p] =
                   [H!Nothing EXCEPT !.asks = wants, !.saw = listingRow.status]]
          PROVE  \E work \in ListingWork : listingDoing' = [listingDoing EXCEPT ![p] = work]
      <4>1. [H!Nothing EXCEPT !.asks = wants, !.saw = listingRow.status] \in ListingWork
        BY <1>3, <3>2 DEF ListingTypes, ListingRow, ListingWork, ListingStatuses, H!Nothing
      <4> QED BY <3>2, <4>1
    <3> QED BY <1>3, <3>1, <3>2 DEF H!Reads
  <2>2. UNCHANGED <<listingRow, checks>>
    BY <1>3 DEF H!Reads
  <2> QED BY <1>3, <2>1, <2>2 DEF ListingTypes
<1>4. ASSUME ListingTypes, NEW p \in Agents, H!Writes(p) PROVE ListingTypes'
  <2>1. listingDoing' \in [Agents -> ListingWork]
    BY <1>1, <1>4 DEF H!Writes, ListingTypes
  <2>2. /\ \/ listingRow' = listingRow
           \/ listingRow' = [listingRow EXCEPT !.status = listingDoing[p].status, !.fields = listingDoing[p].fields]
        /\ checks' \in {checks, checks + 1}
    BY <1>4 DEF H!Writes, H!Written
  <2>3. listingDoing[p].status \in ListingStatuses /\ listingDoing[p].fields \in SUBSET Fields
    BY <1>4 DEF ListingTypes, ListingWork
  <2>4. listingRow' \in ListingRow
    BY <1>4, <2>2, <2>3 DEF ListingTypes, ListingRow
  <2> QED BY <1>4, <2>1, <2>2, <2>4 DEF ListingTypes
<1>5. ASSUME ListingTypes, NEW p \in Agents, H!Verifies(p) \/ H!Deletes(p) PROVE ListingTypes'
  <2>1. listingDoing' \in [Agents -> ListingWork]
    BY <1>1, <1>5 DEF H!Verifies, H!Deletes, ListingTypes
  <2>2. /\ listingRow' \in {listingRow, [listingRow EXCEPT !.status = "gone", !.viewings = 0]}
        /\ checks' \in {checks, checks + 1}
    BY <1>5 DEF H!Verifies, H!Deletes
  <2>3. listingRow' \in ListingRow
    BY <1>5, <2>2 DEF ListingTypes, ListingRow, ListingStatuses
  <2> QED BY <1>5, <2>1, <2>2, <2>3 DEF ListingTypes
<1>6. ASSUME ListingTypes, H!Booked PROVE ListingTypes'
  BY <1>6 DEF H!Booked, ListingTypes, ListingRow
<1>7. ASSUME ListingTypes, UNCHANGED H!vars PROVE ListingTypes'
  BY <1>7 DEF H!vars, ListingTypes
<1>8. ListingTypes => H!TypeOK
  BY DEF ListingTypes, ListingRow, ListingWork, ListingStatuses, H!TypeOK, H!Statuses
<1> QED BY <1>2, <1>3, <1>4, <1>5, <1>6, <1>7, <1>8 DEF H!Next

-----------------------------------------------------------------------------
(* Live events.                                                            *)
OwnerState == R!Rows \cup {"waiting", "reading"}
LiveTypes ==
  /\ owner \in R!Rows /\ cache \in [owner : Listeners \cup {Nobody}, until : Nat]
  /\ DOMAIN lookups \subseteq R!Events \cup {R!Lead} /\ lookups \in [DOMAIN lookups -> OwnerState]
  /\ realtimeSent \in 0..MaxEvents /\ realtimeClock \in Nat

LEMMA LiveTyped ==
  /\ R!Init => LiveTypes
  /\ LiveTypes /\ [R!Next]_(R!vars) => LiveTypes'
  /\ LiveTypes => R!TypeOK
<1>1. R!Init => LiveTypes
  BY DeskAssumption DEF R!Init, LiveTypes, R!Rows, Listeners, R!Forgotten
<1>2. ASSUME LiveTypes, NEW e \in R!Events \cup {R!Lead}, R!Raise(e) PROVE LiveTypes'
  <2>1. realtimeSent' \in 0..MaxEvents
    BY <1>2, DeskAssumption DEF R!Raise, LiveTypes, R!Events
  <2>2. DOMAIN lookups' \subseteq R!Events \cup {R!Lead} /\ lookups' \in [DOMAIN lookups' -> OwnerState]
    BY <1>2 DEF R!Raise, LiveTypes, R!Pending, R!Waiting, OwnerState
  <2> QED BY <1>2, <2>1, <2>2 DEF R!Raise, LiveTypes
<1>3. ASSUME LiveTypes, NEW e, NEW to, lookups' = R!Without(e)
      PROVE DOMAIN lookups' \subseteq R!Events \cup {R!Lead} /\ lookups' \in [DOMAIN lookups' -> OwnerState]
  BY <1>3 DEF R!Without, LiveTypes, R!Pending
<1>4. ASSUME LiveTypes, NEW e, NEW state \in OwnerState, lookups' = [lookups EXCEPT ![e] = state]
      PROVE DOMAIN lookups' \subseteq R!Events \cup {R!Lead} /\ lookups' \in [DOMAIN lookups' -> OwnerState]
  BY <1>4 DEF LiveTypes
<1>5. ASSUME LiveTypes, NEW e, R!LookUp(e) PROVE LiveTypes'
  <2>1. cache' = cache /\ (lookups' = R!Without(e) \/ lookups' = [lookups EXCEPT ![e] = "reading"])
    BY <1>5 DEF R!LookUp, R!Emit, R!Remembered, R!Reading
  <2>2. "reading" \in OwnerState
    BY DEF OwnerState
  <2> QED BY <1>3, <1>4, <1>5, <2>1, <2>2 DEF R!LookUp, LiveTypes
<1>6. ASSUME LiveTypes, NEW e, R!Read(e) PROVE LiveTypes'
  <2>1. owner \in OwnerState
    BY <1>6 DEF LiveTypes, OwnerState
  <2> QED BY <1>4, <1>6, <2>1 DEF R!Read, LiveTypes
<1>7. ASSUME LiveTypes, NEW e, R!Answered(e) PROVE LiveTypes'
  <2>1. cache' \in [owner : Listeners \cup {Nobody}, until : Nat]
    <3>1. \/ cache' = cache
          \/ /\ lookups[e] \in Listeners \cup {Nobody}
             /\ cache' = [owner |-> lookups[e], until |-> realtimeClock + Ttl]
      BY <1>7 DEF R!Answered, R!Rows, R!NoRow, Listeners
    <3>2. realtimeClock + Ttl \in Nat
      BY <1>7, DeskAssumption DEF LiveTypes
    <3> QED BY <1>7, <3>1, <3>2 DEF LiveTypes
  <2> QED BY <1>3, <1>7, <2>1 DEF R!Answered, R!Emit, LiveTypes
<1>8. ASSUME LiveTypes, NEW e, R!LookUpFails(e) PROVE LiveTypes'
  BY <1>3, <1>8 DEF R!LookUpFails, LiveTypes
<1>9. ASSUME LiveTypes, R!ChangeOwner \/ R!ForgetSessionOwner \/ R!Tick PROVE LiveTypes'
  BY <1>9 DEF R!ChangeOwner, R!ForgetSessionOwner, R!Tick, LiveTypes, R!Rows, R!Forgotten, Listeners
<1>10. ASSUME LiveTypes, UNCHANGED R!vars PROVE LiveTypes'
  BY <1>10 DEF R!vars, LiveTypes
<1>11. LiveTypes => R!TypeOK
  BY DEF LiveTypes, R!TypeOK, R!Pending, Listeners, OwnerState, R!Waiting, R!Reading
<1> QED BY <1>1, <1>2, <1>5, <1>6, <1>7, <1>8, <1>9, <1>10, <1>11 DEF R!Next

-----------------------------------------------------------------------------
(* Follow-ups.                                                             *)
FollowTask == [due : 0..MaxChanges, who : Agents, done : BOOLEAN, claimed : SUBSET F!Kinds]
FollowTypes ==
  /\ followUpClock \in 0..MaxChanges /\ task \in FollowTask /\ leadOpen \in BOOLEAN
  /\ followUpChanges \in 0..MaxChanges /\ version \in 1..followUpChanges + 1
  /\ followUpCrashes \in 0..MaxFaults

LEMMA FollowTyped ==
  /\ F!Init => FollowTypes
  /\ RemindInv /\ FollowTypes /\ [F!Next]_(F!vars) => FollowTypes'
  /\ RemindInv /\ FollowTypes => F!TypeOK
<1>1. F!Init => FollowTypes
  BY DeskAssumption DEF F!Init, FollowTypes, FollowTask
<1>2. ASSUME RemindInv, FollowTypes, NEW s \in Servers, F!Job(s) \/ F!Crashes(s) PROVE FollowTypes'
  <2>1. \/ task' = task
        \/ followUpServer[s].pc = "claim" /\ task' = [task EXCEPT !.claimed = @ \cup {followUpServer[s].kind}]
    BY <1>2 DEF F!Job, F!Lists, F!Claims, F!Tells, F!Crashes
  <2>2. followUpServer[s].pc = "claim" => followUpServer[s].kind \in F!Kinds
    BY <1>2 DEF RemindInv, RemindShape, AtWork, F!Idle
  <2>3. task' \in FollowTask
    BY <1>2, <2>1, <2>2 DEF FollowTypes, FollowTask
  <2>4. /\ UNCHANGED <<followUpClock, leadOpen, followUpChanges, version>>
        /\ followUpCrashes' = followUpCrashes \/ (followUpCrashes < MaxFaults /\ followUpCrashes' = followUpCrashes + 1)
    BY <1>2 DEF F!Job, F!Lists, F!Claims, F!Tells, F!Crashes
  <2> QED BY <1>2, <2>3, <2>4, DeskAssumption DEF FollowTypes
<1>3. ASSUME FollowTypes, NEW due \in 0..MaxChanges, F!Moves(due) PROVE FollowTypes'
  <2>1. task' \in FollowTask
    BY <1>3 DEF F!Moves, F!Reset, FollowTypes, FollowTask
  <2> QED BY <1>3, <2>1, DeskAssumption DEF F!Moves, F!Changes, FollowTypes
<1>4. ASSUME FollowTypes, NEW who \in Agents, F!Gives(who) PROVE FollowTypes'
  <2>1. task' \in FollowTask
    BY <1>4 DEF F!Gives, F!Reset, FollowTypes, FollowTask
  <2> QED BY <1>4, <2>1, DeskAssumption DEF F!Gives, F!Changes, FollowTypes
<1>5. ASSUME FollowTypes, NEW done \in BOOLEAN, F!Ticks(done) PROVE FollowTypes'
  <2>1. task' \in FollowTask
    BY <1>5 DEF F!Ticks, FollowTypes, FollowTask
  <2> QED BY <1>5, <2>1, DeskAssumption DEF F!Ticks, F!Changes, FollowTypes
<1>6. ASSUME FollowTypes, F!Tick \/ F!LeadMoves PROVE FollowTypes'
  <2>1. leadOpen' \in BOOLEAN
    BY <1>6, Zenon DEF F!Tick, F!LeadMoves, FollowTypes
  <2>2. /\ UNCHANGED <<task, version, followUpCrashes>>
        /\ followUpClock' \in {followUpClock} \/ (followUpClock < MaxChanges /\ followUpClock' = followUpClock + 1)
        /\ \/ followUpChanges' = followUpChanges
           \/ followUpChanges < MaxChanges /\ followUpChanges' = followUpChanges + 1
    BY <1>6 DEF F!Tick, F!LeadMoves, F!Changes
  <2> QED BY <1>6, <2>1, <2>2, DeskAssumption DEF FollowTypes
<1>7. ASSUME FollowTypes, UNCHANGED F!vars PROVE FollowTypes'
  BY <1>7 DEF F!vars, FollowTypes
<1>8. ASSUME RemindInv, FollowTypes PROVE F!TypeOK
  <2>1. \A s \in Servers : followUpServer[s].pc \in {"idle", "claim", "tell"}
    BY <1>8 DEF RemindInv, RemindShape, AtWork, F!Idle
  <2>2. task.due \in 0..MaxChanges /\ task.who \in Agents /\ task.done \in BOOLEAN /\ task.claimed \subseteq F!Kinds
    BY <1>8 DEF FollowTypes, FollowTask
  <2> QED BY <1>8, <2>1, <2>2, DeskAssumption DEF FollowTypes, F!TypeOK
<1> QED BY <1>1, <1>2, <1>3, <1>4, <1>5, <1>6, <1>7, <1>8 DEF F!Next

-----------------------------------------------------------------------------
(* Prepared replies.                                                       *)
PrepTypes ==
  /\ latest = 0 => waits = FALSE
  /\ insight.of <= latest /\ insight.seen <= latest
  /\ insight.status # "none" => insight.of > 0
  /\ \A s \in Servers : /\ prep[s].pc \in {"idle", "claim", "think", "ready", "failed"}
                        /\ prep[s].pc # "idle" => prep[s].of > 0
                        /\ prep[s].seen <= latest

LEMMA PrepTyped ==
  /\ P!Init => PrepTypes
  /\ PrepInv /\ PrepTypes /\ [P!Next]_(P!vars) => PrepTypes'
  /\ PrepInv /\ PrepTypes => P!TypeOK
<1>1. P!Init => PrepTypes
  BY DEF P!Init, PrepTypes, P!NoPrep
<1> DEFINE Typed(s) == /\ prep[s].pc \in {"idle", "claim", "think", "ready", "failed"}
                       /\ prep[s].pc # "idle" => prep[s].of > 0
                       /\ prep[s].seen <= latest
<1>2. ASSUME PrepInv, PrepTypes, NEW s \in Servers, P!Job(s) \/ P!Crash(s) PROVE PrepTypes'
  <2>1. UNCHANGED <<latest, waits>>
    BY <1>2 DEF P!Job, P!Finds, P!Takes, P!Thinks, P!Keeps, P!Crash
  <2>2. /\ DOMAIN prep = Servers /\ DOMAIN prep[s] = {"pc", "of", "seen"} /\ latest \in Nat /\ Typed(s)
        /\ DOMAIN insight = {"of", "status", "seen", "old"}
        /\ prep[s].of \in Nat /\ prep[s].of <= latest
    BY <1>2 DEF PrepInv, AtPrep, PrepTypes
  <2>6. P!Finds(s) => latest # 0
    BY <1>2, Zenon DEF P!Finds, PrepTypes
  <2>3. Typed(s)' /\ \A t \in Servers \ {s} : prep'[t] = prep[t]
    BY <1>2, <2>1, <2>2, <2>6 DEF P!Job, P!Finds, P!Takes, P!Thinks, P!Keeps, P!Crash, P!NoPrep
  <2>4. \/ insight' = insight
        \/ /\ prep[s].pc = "claim"
           /\ insight' = [insight EXCEPT !.of = prep[s].of, !.status = "working", !.old = FALSE]
        \/ /\ prep[s].pc \in {"ready", "failed"} /\ insight.of = prep[s].of
           /\ \E n \in {prep[s].seen, insight.seen} :
                insight' = [insight EXCEPT !.status = prep[s].pc, !.old = FALSE, !.seen = n]
    BY <1>2 DEF P!Job, P!Finds, P!Takes, P!Thinks, P!Keeps, P!Crash, P!StillFor
  <2>5. /\ insight'.of <= latest /\ insight'.seen <= latest
        /\ insight'.status # "none" => insight'.of > 0
    BY <1>2, <2>2, <2>4 DEF PrepTypes
  <2> QED BY <1>2, <2>1, <2>3, <2>5 DEF PrepTypes
<1>3. ASSUME PrepInv, PrepTypes, P!Writes \/ P!Answered PROVE PrepTypes'
  <2>1. /\ latest' \in {latest, latest + 1} /\ latest \in Nat
        /\ latest' = latest + 1 \/ waits' = FALSE
        /\ UNCHANGED <<insight, prep>>
    BY <1>3 DEF P!Writes, P!Answered, PrepInv
  <2>2. /\ insight.of \in Nat /\ insight.seen \in Nat
        /\ \A s \in Servers : prep[s].seen \in Nat
    BY <1>3 DEF PrepInv, AtPrep
  <2> QED BY <1>3, <2>1, <2>2 DEF PrepTypes
<1>4. ASSUME PrepInv, PrepTypes, P!GrowsOld PROVE PrepTypes'
  <2>1. /\ UNCHANGED <<latest, waits, prep>> /\ insight'.of = insight.of
        /\ insight'.seen = insight.seen /\ insight'.status = insight.status
    BY <1>4 DEF P!GrowsOld, PrepInv
  <2> QED BY <1>4, <2>1 DEF PrepTypes
<1>5. ASSUME PrepTypes, UNCHANGED P!vars PROVE PrepTypes'
  BY <1>5 DEF P!vars, PrepTypes
<1>6. PrepInv /\ PrepTypes => P!TypeOK
  BY DEF PrepInv, AtPrep, PrepTypes, P!TypeOK
<1> QED BY <1>1, <1>2, <1>3, <1>4, <1>5, <1>6 DEF P!Next

-----------------------------------------------------------------------------
(* Labels.                                                                 *)
Tags == SUBSET LabelNames
TagTypes ==
  /\ tags \in [Prospects -> Tags]
  /\ \A w \in Requests : /\ tx[w].pc \in {"idle", "resync", "wait", "commit"}
                         /\ tx[w].seen \in [Prospects -> Tags]

(* A change that opens has read nothing yet.                               *)
LEMMA TagsOpened ==
  ASSUME TagInv, TagTypes, NEW w \in Requests, NEW t, T!Open(w, t),
         DOMAIN t = TxFields, t.seen = T!NoTx.seen
  PROVE  TagTypes'
<1>1. /\ tags' = tags
      /\ \A v \in Requests : tx'[v] \in {[t EXCEPT !.pc = "resync", !.alone = TRUE],
                                         [t EXCEPT !.pc = "resync", !.alone = FALSE],
                                         [tx[v] EXCEPT !.alone = FALSE], tx[v]}
  BY DEF T!Open
<1>2. T!NoTx.seen \in [Prospects -> Tags]
  BY DEF T!NoTx, Tags
<1>3. \A v \in Requests : DOMAIN tx[v] = TxFields
  BY DEF TagInv, RowsInv, TxShape
<1>4. ASSUME NEW v \in Requests
      PROVE  tx'[v].pc \in {"idle", "resync", "wait", "commit"} /\ tx'[v].seen \in [Prospects -> Tags]
  <2>1. tx[v].pc \in {"idle", "resync", "wait", "commit"} /\ tx[v].seen \in [Prospects -> Tags]
    BY DEF TagTypes
  <2>2. /\ \/ tx'[v].pc = "resync" /\ tx'[v].seen = t.seen
           \/ tx'[v].pc = tx[v].pc /\ tx'[v].seen = tx[v].seen
    BY <1>1, <1>3 DEF TxFields
  <2> QED BY <1>2, <2>1, <2>2
<1> QED BY <1>1, <1>4 DEF TagTypes

LEMMA TagsStart ==
  ASSUME TagInv, TagTypes, NEW w \in Requests,
         \/ \E c \in Prospects : \/ \E n \in LabelNames : T!AddTag(w, c, n)
                                 \/ \E l \in LabelIds : T!RemoveLabel(w, c, l)
                                 \/ \E ls \in SUBSET LabelIds : T!SetLabels(w, c, ls)
         \/ \E l \in LabelIds : T!DeleteLabel(w, l) \/ \E n \in LabelNames : T!UpdateLabel(w, l, n)
  PROVE  TagTypes'
<1> DEFINE Reads == \E t : T!Open(w, t) /\ DOMAIN t = TxFields /\ t.seen = T!NoTx.seen
<1>1. ASSUME NEW adds, NEW who, T!Open(w, [T!NoTx EXCEPT !.adds = adds, !.who = who]) PROVE Reads
  <2> DEFINE t == [T!NoTx EXCEPT !.adds = adds, !.who = who]
  <2>1. DOMAIN t = TxFields /\ t.seen = T!NoTx.seen
    BY DEF T!NoTx, TxFields
  <2> HIDE DEF t
  <2> QED BY <1>1, <2>1 DEF t
<1>2. ASSUME NEW adds, NEW who, NEW named,
             T!Open(w, [T!NoTx EXCEPT !.adds = adds, !.who = who, !.named = named])
      PROVE  Reads
  <2> DEFINE t == [T!NoTx EXCEPT !.adds = adds, !.who = who, !.named = named]
  <2>1. DOMAIN t = TxFields /\ t.seen = T!NoTx.seen
    BY DEF T!NoTx, TxFields
  <2> HIDE DEF t
  <2> QED BY <1>2, <2>1 DEF t
<1>3. ASSUME NEW cuts, NEW who, T!Open(w, [T!NoTx EXCEPT !.cuts = cuts, !.who = who]) PROVE Reads
  <2> DEFINE t == [T!NoTx EXCEPT !.cuts = cuts, !.who = who]
  <2>1. DOMAIN t = TxFields /\ t.seen = T!NoTx.seen
    BY DEF T!NoTx, TxFields
  <2> HIDE DEF t
  <2> QED BY <1>3, <2>1 DEF t
<1>4. ASSUME NEW adds, NEW cuts, NEW who, NEW locks,
             T!Open(w, [T!NoTx EXCEPT !.adds = adds, !.cuts = cuts, !.who = who, !.locks = locks])
      PROVE  Reads
  <2> DEFINE t == [T!NoTx EXCEPT !.adds = adds, !.cuts = cuts, !.who = who, !.locks = locks]
  <2>1. DOMAIN t = TxFields /\ t.seen = T!NoTx.seen
    BY DEF T!NoTx, TxFields
  <2> HIDE DEF t
  <2> QED BY <1>4, <2>1 DEF t
<1>5. ASSUME NEW named, NEW who, T!Open(w, [T!NoTx EXCEPT !.named = named, !.who = who]) PROVE Reads
  <2> DEFINE t == [T!NoTx EXCEPT !.named = named, !.who = who]
  <2>1. DOMAIN t = TxFields /\ t.seen = T!NoTx.seen
    BY DEF T!NoTx, TxFields
  <2> HIDE DEF t
  <2> QED BY <1>5, <2>1 DEF t
<1>6. ASSUME NEW named, NEW cuts, NEW who,
             T!Open(w, [T!NoTx EXCEPT !.named = named, !.cuts = cuts, !.who = who])
      PROVE  Reads
  <2> DEFINE t == [T!NoTx EXCEPT !.named = named, !.cuts = cuts, !.who = who]
  <2>1. DOMAIN t = TxFields /\ t.seen = T!NoTx.seen
    BY DEF T!NoTx, TxFields
  <2> HIDE DEF t
  <2> QED BY <1>6, <2>1 DEF t
<1> HIDE DEF Reads
<1>7. Reads
  BY <1>1, <1>2, <1>3, <1>4, <1>5, <1>6, Zenon DEF T!AddTag, T!RemoveLabel, T!SetLabels, T!DeleteLabel, T!UpdateLabel
<1> QED BY <1>7, TagsOpened DEF Reads

(* What a copy holds are names.                                            *)
LEMMA CopyIsNames ==
  ASSUME TagInv, NEW w \in Requests, NEW c \in Prospects
  PROVE  T!CopyIn(tx[w], c) \in Tags
<1>1. PICK t : t = tx[w]
  OBVIOUS
<1>2. TxShape(t) /\ links \subseteq TagPairs
  BY <1>1 DEF TagInv, RowsInv
<1>3. ASSUME NEW k \in (links \cup t.adds) \ t.cuts, k[1] = c PROVE T!NameIn(t, k[2]) \in LabelNames
  <2>1. k \in TagPairs
    BY <1>2, <1>3 DEF TxShape
  <2>2. PICK l \in LabelIds : k = <<c, l>> /\ k[2] = l
    BY <1>3, <2>1 DEF TagPairs
  <2>3. CASE \E n \in NameOrNone : <<l, n>> \in t.named
    <3>1. PICK n \in NameOrNone : <<l, n>> \in t.named
      BY <2>3
    <3>2. n # Absent
      BY <1>2, <1>3, <2>2, <3>1 DEF TxShape
    <3>3. T!NameIn(t, l) = n
      BY <1>2, <3>1, NameSeen
    <3> QED BY <2>2, <3>2, <3>3 DEF NameOrNone
  <2>4. CASE ~Held(t, l)
    <3>1. T!NameIn(t, l) = name[l] /\ name[l] \in NameOrNone
      BY <1>2, <2>4, NameSeen DEF TagInv, RowsInv
    <3>2. CASE k \in links
      <4>1. name[l] # Absent
        BY <2>2, <3>2 DEF TagInv, RowsInv
      <4> QED BY <2>2, <3>1, <4>1 DEF NameOrNone
    <3>3. CASE k \in t.adds
      <4>1. T!NameIn(t, l) # Absent
        BY <1>1, <2>2, <3>3 DEF TagInv, LinkedInv
      <4> QED BY <2>2, <3>1, <4>1 DEF NameOrNone
    <3> QED BY <1>3, <3>2, <3>3
  <2> QED BY <2>3, <2>4 DEF Held
<1>4. T!CopyIn(t, c) = {T!NameIn(t, k[2]) : k \in {j \in (links \cup t.adds) \ t.cuts : j[1] = c}}
  BY CopySeen
<1>5. T!CopyIn(t, c) \in Tags
  BY <1>3, <1>4 DEF Tags
<1> QED BY <1>1, <1>5

LEMMA TagsTyped ==
  /\ T!Init => TagTypes
  /\ TagInv /\ TagTypes /\ [T!Next]_(T!vars) => TagTypes'
  /\ TagInv /\ TagTypes => T!TypeOK
<1>1. T!Init => TagTypes
  BY DEF T!Init, TagTypes, Tags, T!NoTx
<1>2. ASSUME TagInv, TagTypes, NEW w \in Requests, T!Resync(w) PROVE TagTypes'
  <2> DEFINE seen == [c \in Prospects |-> IF c \in tx[w].who THEN T!CopyIn(tx[w], c) ELSE {}]
  <2>1. seen \in [Prospects -> Tags]
    BY <1>2, CopyIsNames DEF Tags
  <2>2. /\ tags' = tags
        /\ \E pc \in {"commit", "wait"} : tx' = [tx EXCEPT ![w].seen = seen, ![w].pc = pc]
    BY <1>2 DEF T!Resync
  <2>3. DOMAIN tx = Requests /\ \A v \in Requests : DOMAIN tx[v] = TxFields
    BY <1>2 DEF TagInv, RowsInv, TxShape
  <2> HIDE DEF seen
  <2> QED BY <1>2, <2>1, <2>2, <2>3 DEF TagTypes, TxFields
<1>3. ASSUME TagInv, TagTypes, NEW w \in Requests, T!Waited(w) PROVE TagTypes'
  <2>1. DOMAIN tx = Requests /\ \A v \in Requests : DOMAIN tx[v] = TxFields
    BY <1>3 DEF TagInv, RowsInv, TxShape
  <2> QED BY <1>3, <2>1 DEF T!Waited, TagTypes, TxFields
<1>4. ASSUME TagInv, TagTypes, NEW w \in Requests, T!Commit(w) PROVE TagTypes'
  <2>1. /\ tags' = [c \in Prospects |-> IF c \in tx[w].who THEN tx[w].seen[c] ELSE tags[c]]
        /\ tx' = [tx EXCEPT ![w] = T!NoTx]
    BY <1>4 DEF T!Commit
  <2>2. DOMAIN tx = Requests /\ T!NoTx.pc = "idle" /\ T!NoTx.seen \in [Prospects -> Tags]
    BY <1>4 DEF TagInv, RowsInv, T!NoTx, Tags
  <2>3. tags' \in [Prospects -> Tags]
    BY <1>4, <2>1 DEF TagTypes
  <2> QED BY <1>4, <2>1, <2>2, <2>3 DEF TagTypes
<1>5. ASSUME TagTypes, UNCHANGED T!vars PROVE TagTypes'
  BY <1>5 DEF T!vars, TagTypes
<1>6. ASSUME TagInv, TagTypes PROVE T!TypeOK
  <2>1. \A k \in links : name[k[2]] # Absent
    BY <1>6 DEF TagInv, RowsInv, TagPairs
  <2> QED BY <1>6, <2>1 DEF TagInv, RowsInv, TagTypes, T!TypeOK, NameOrNone, TagPairs, Tags
<1> QED BY <1>1, <1>2, <1>3, <1>4, <1>5, <1>6, TagsStart DEF T!Next

-----------------------------------------------------------------------------
(* Who is there, and what each server does with a new chat.                *)
TeamChat == [owner : A!Owners, closed : BOOLEAN, first : {"none", "waits", "served"}]
TeamWork(job) ==
  \/ job.pc = "free"
  \/ job.pc \in {"choose", "done"} /\ job.chat \in NewChats
  \/ job.pc \in {"assign", "follow"} /\ job.chat \in NewChats /\ job.who \in Rota

TeamTypes ==
  /\ chats \in [NewChats -> TeamChat] /\ leadOwner \in [NewChats -> A!Owners]
  /\ available \in [Rota -> BOOLEAN] /\ enabled \in BOOLEAN
  /\ mode \in {"round_robin", "least_busy"} /\ last \in A!Owners
  /\ DOMAIN teamServer = Servers /\ \A s \in Servers : TeamWork(teamServer[s])
  /\ turns \in [Rota -> Nat] /\ byTeam \subseteq NewChats /\ teamActs \in 0..MaxActs

LEMMA TeamCount == ASSUME NEW group PROVE A!Cardinality(group) = Cardinality(group)
  BY DEF A!Cardinality, Cardinality

(* Whoever is picked is of the team.                                       *)
LEMMA PickIsThere == ASSUME A!Room # {} PROVE A!Pick \in Rota
<1>1. A!Room \subseteq Rota /\ Rota \subseteq Nat
  BY DeskAssumption DEF A!Room
<1>2. \A m \in Rota : A!OpenChats(m) \in Nat
  <2> SUFFICES ASSUME NEW m \in Rota PROVE A!OpenChats(m) \in Nat
    OBVIOUS
  <2> DEFINE group == {c \in NewChats : chats[c].owner = m /\ ~chats[c].closed}
  <2>1. IsFiniteSet(group)
    BY DeskAssumption, FS_Subset
  <2>2. Cardinality(group) \in Nat
    BY <2>1, FS_CardinalityType
  <2> QED BY <2>2, TeamCount DEF A!OpenChats
<1>3. A!LeastBusy(A!Room) # {} /\ A!LeastBusy(A!Room) \subseteq Rota
  <2> DEFINE loads == {A!OpenChats(m) : m \in A!Room}
  <2>1. loads \subseteq Nat /\ loads # {}
    BY <1>1, <1>2
  <2>2. A!Min(loads) \in loads /\ \A y \in loads : A!Min(loads) <= y
    <3> HIDE DEF loads
    <3> QED BY <2>1, NatHasLeast
  <2>3. PICK m \in A!Room : A!OpenChats(m) = A!Min(loads)
    BY <2>2
  <2>4. m \in A!LeastBusy(A!Room)
    BY <2>2, <2>3 DEF A!LeastBusy
  <2> QED BY <1>1, <2>4 DEF A!LeastBusy
<1>4. ASSUME NEW people, people \subseteq Rota, people # {} PROVE A!Next1(people) \in Rota
  <2> DEFINE later == {m \in people : m > last}
             some == IF later = {} THEN people ELSE later
  <2>1. some \subseteq Rota /\ some # {}
    BY <1>4
  <2>2. A!Min(some) \in some
    <3> HIDE DEF some
    <3> QED BY <1>1, <2>1, NatHasLeast
  <2>3. A!Next1(people) = A!Min(some)
    BY DEF A!Next1
  <2> QED BY <2>1, <2>2, <2>3
<1> QED BY <1>1, <1>3, <1>4 DEF A!Pick

(* A step of one server, with what it does to the rest.                    *)
LEMMA TeamServer ==
  ASSUME TeamTypes, NEW s \in Servers, NEW job, TeamWork(job), teamServer' = [teamServer EXCEPT ![s] = job]
  PROVE  DOMAIN teamServer' = Servers /\ \A t \in Servers : TeamWork(teamServer[t])'
  BY DEF TeamTypes, TeamWork

LEMMA TeamActsTyped == ASSUME TeamTypes, A!Acts PROVE teamActs' \in 0..MaxActs
  BY DeskAssumption DEF TeamTypes, A!Acts

LEMMA TeamTyped ==
  /\ A!Init => TeamTypes
  /\ TeamTypes /\ [A!Next]_(A!vars) => TeamTypes'
  /\ TeamTypes => A!TypeOK
<1>1. A!Init => TeamTypes
  <2>1. A!Min(Rota) \in Rota
    BY DeskAssumption, NatHasLeast
  <2> QED BY <2>1, DeskAssumption DEF A!Init, TeamTypes, TeamChat, TeamWork, A!Owners, A!Unassigned, A!Free
<1>2. ASSUME TeamTypes, NEW c \in NewChats, A!Arrives(c) PROVE TeamTypes'
  <2>1. chats' \in [NewChats -> TeamChat]
    BY <1>2 DEF A!Arrives, TeamTypes, TeamChat
  <2> QED BY <1>2, <2>1 DEF A!Arrives, TeamTypes, TeamWork
<1>3. ASSUME TeamTypes, NEW c \in NewChats, A!Closes(c) PROVE TeamTypes'
  <2>1. chats' \in [NewChats -> TeamChat]
    BY <1>3 DEF A!Closes, TeamTypes, TeamChat
  <2> QED BY <1>3, <2>1, TeamActsTyped DEF A!Closes, TeamTypes, TeamWork
<1>4. ASSUME TeamTypes, NEW c \in NewChats, NEW m \in A!Owners, A!Assigns(c, m) PROVE TeamTypes'
  <2>1. chats' \in [NewChats -> TeamChat]
    BY <1>4 DEF A!Assigns, TeamTypes, TeamChat
  <2>2. leadOwner' \in [NewChats -> A!Owners] /\ byTeam' \subseteq NewChats
    BY <1>4 DEF A!Assigns, TeamTypes
  <2> QED BY <1>4, <2>1, <2>2, TeamActsTyped DEF A!Assigns, TeamTypes, TeamWork
<1>5. ASSUME TeamTypes, NEW s \in Servers, NEW c \in NewChats, A!Serves(s, c) PROVE TeamTypes'
  <2>1. chats' \in [NewChats -> TeamChat]
    BY <1>5 DEF A!Serves, TeamTypes, TeamChat
  <2>2. teamServer' = teamServer \/ teamServer' = [teamServer EXCEPT ![s] = [pc |-> "choose", chat |-> c]]
    BY <1>5 DEF A!Serves
  <2>3. TeamWork([pc |-> "choose", chat |-> c])
    BY DEF TeamWork
  <2>4. DOMAIN teamServer' = Servers /\ \A t \in Servers : TeamWork(teamServer[t])'
    BY <1>5, <2>2, <2>3, TeamServer DEF TeamTypes, TeamWork
  <2> QED BY <1>5, <2>1, <2>4 DEF A!Serves, TeamTypes
<1>6. ASSUME TeamTypes, NEW s \in Servers, A!Chooses(s) PROVE TeamTypes'
  <2> DEFINE c == teamServer[s].chat
  <2>1. c \in NewChats /\ UNCHANGED <<chats, leadOwner, available, enabled, mode, byTeam, teamActs>>
    BY <1>6 DEF A!Chooses, TeamTypes, TeamWork
  <2>2. CASE teamServer' = [teamServer EXCEPT ![s] = [pc |-> "done", chat |-> c]] /\ UNCHANGED <<last, turns>>
    <3>1. TeamWork([pc |-> "done", chat |-> c])
      BY <2>1 DEF TeamWork
    <3> HIDE DEF c
    <3> QED BY <1>6, <2>1, <2>2, <3>1, TeamServer DEF TeamTypes
  <2>3. ASSUME NEW who \in Rota,
               teamServer' = [teamServer EXCEPT ![s] = [pc |-> "assign", chat |-> c, who |-> who]],
               \/ UNCHANGED <<last, turns>>
               \/ last' = who /\ turns' = [turns EXCEPT ![who] = @ + 1]
        PROVE  TeamTypes'
    <3>1. TeamWork([pc |-> "assign", chat |-> c, who |-> who])
      BY <2>1 DEF TeamWork
    <3>2. last' \in A!Owners /\ turns' \in [Rota -> Nat]
      BY <1>6, <2>3 DEF TeamTypes, A!Owners
    <3> HIDE DEF c
    <3> QED BY <1>6, <2>1, <2>3, <3>1, <3>2, TeamServer DEF TeamTypes
  <2>4. A!Returning(c) => leadOwner[c] \in Rota
    BY <1>6, <2>1 DEF A!Returning, TeamTypes, A!Owners, A!Unassigned
  <2>5. CASE ~enabled \/ (~A!Returning(c) /\ A!Room = {})
    BY <1>6, <2>2, <2>5 DEF A!Chooses
  <2>6. CASE A!Returning(c) /\ enabled
    BY <1>6, <2>3, <2>4, <2>6 DEF A!Chooses
  <2>7. CASE ~A!Returning(c) /\ A!Room # {} /\ enabled
    BY <1>6, <2>3, <2>7, PickIsThere DEF A!Chooses
  <2> QED BY <2>5, <2>6, <2>7
<1>7. ASSUME TeamTypes, NEW s \in Servers, A!Gives(s) PROVE TeamTypes'
  <2> DEFINE c == teamServer[s].chat
             who == teamServer[s].who
             follow == [pc |-> "follow", chat |-> c, who |-> who]
             done == [pc |-> "done", chat |-> c]
  <2>1. c \in NewChats /\ who \in Rota /\ UNCHANGED <<leadOwner, available, enabled, mode, last, turns, byTeam, teamActs>>
    BY <1>7 DEF A!Gives, TeamTypes, TeamWork
  <2>2. \/ chats' = [chats EXCEPT ![c].owner = who] /\ teamServer' = [teamServer EXCEPT ![s] = follow]
        \/ chats' = chats /\ teamServer' = [teamServer EXCEPT ![s] = done]
    BY <1>7 DEF A!Gives, TeamTypes
  <2>3. TeamWork(follow) /\ TeamWork(done)
    BY <2>1 DEF TeamWork
  <2>4. chats' \in [NewChats -> TeamChat]
    BY <1>7, <2>1, <2>2 DEF TeamTypes, TeamChat, A!Owners
  <2> HIDE DEF c, who, follow, done
  <2> QED BY <1>7, <2>1, <2>2, <2>3, <2>4, TeamServer DEF TeamTypes
<1>8. ASSUME TeamTypes, NEW s \in Servers, A!Follows(s) PROVE TeamTypes'
  <2> DEFINE c == teamServer[s].chat
             done == [pc |-> "done", chat |-> c]
  <2>1. c \in NewChats /\ teamServer[s].who \in Rota
        /\ UNCHANGED <<chats, available, enabled, mode, last, turns, byTeam, teamActs>>
    BY <1>8 DEF A!Follows, TeamTypes, TeamWork
  <2>2. leadOwner' \in [NewChats -> A!Owners]
    BY <1>8, <2>1 DEF A!Follows, TeamTypes, A!Owners
  <2>3. TeamWork(done) /\ teamServer' = [teamServer EXCEPT ![s] = done]
    BY <1>8, <2>1 DEF A!Follows, TeamWork
  <2> HIDE DEF c, done
  <2> QED BY <1>8, <2>1, <2>2, <2>3, TeamServer DEF TeamTypes
<1>9. ASSUME TeamTypes, NEW s \in Servers, A!Finishes(s) \/ A!Crashes(s) PROVE TeamTypes'
  <2>1. TeamWork(A!Free) /\ teamServer' = [teamServer EXCEPT ![s] = A!Free]
    BY <1>9 DEF A!Finishes, A!Crashes, TeamWork, A!Free
  <2>2. chats' \in [NewChats -> TeamChat]
    BY <1>9 DEF A!Finishes, A!Crashes, TeamTypes, TeamChat
  <2>3. teamActs' \in 0..MaxActs /\ UNCHANGED <<leadOwner, available, enabled, mode, last, turns, byTeam>>
    BY <1>9, DeskAssumption DEF A!Finishes, A!Crashes, TeamTypes
  <2> QED BY <1>9, <2>1, <2>2, <2>3, TeamServer DEF TeamTypes
<1>10. ASSUME TeamTypes, (\E m \in Rota : A!GoesAway(m)) \/ A!SwitchesOff PROVE TeamTypes'
  BY <1>10, TeamActsTyped DEF A!GoesAway, A!SwitchesOff, TeamTypes, TeamWork
<1>11. ASSUME TeamTypes, UNCHANGED A!vars PROVE TeamTypes'
  BY <1>11 DEF A!vars, TeamTypes, TeamWork
<1>12. TeamTypes => A!TypeOK
  BY DEF TeamTypes, TeamChat, TeamWork, A!TypeOK
<1> QED BY <1>1, <1>2, <1>3, <1>4, <1>5, <1>6, <1>7, <1>8, <1>9, <1>10, <1>11, <1>12 DEF A!Next


-----------------------------------------------------------------------------
(* The chat: a row, a reply and a server's work are about what was said.   *)
Said == 0..Len(said)
Logged(m) ==
  /\ log[m].prior \in Said
  /\ log[m].outcome # "none" => m <= Len(said) /\ log[m].at \in 1..waitingClock
Replied(m) == ~Unsent(m) => log[m].outcome # "none" /\ said[m] = "question"
Piloted(s) ==
  /\ pilot[s].prior \in Said
  /\ pilot[s].pc # "idle" => pilot[s].of <= Len(said)
  /\ pilot[s].pc \in {"hold", "choose", "send"} => said[pilot[s].of] = "question"
WaitTypes ==
  /\ awaiting \in Said /\ answered \in Said /\ waitingClock \in Nat \ {0}
  /\ \A m \in Msgs : Logged(m) /\ Replied(m)
  /\ \A s \in Servers : Piloted(s)

(* What the customer and the team do adds to what was said.                *)
LEMMA TeamTypesKept == ASSUME AutoInv, WaitTypes, W!Team PROVE WaitTypes'
<1>1. UNCHANGED <<log, waitingSent, pilot, undo>>
  BY DEF W!Team, W!Writes, W!AsksForPerson, W!Answers, W!Assigned, W!QuietPasses, W!auto
<1>2. /\ said \in Seq(Kinds) /\ Len(said) \in Nat
      /\ \A m \in Msgs : m \in Nat \ {0}
      /\ \A s \in Servers : pilot[s].pc # "idle" => pilot[s].of \in Nat \ {0}
  BY MsgsFacts, DeskAssumption DEF AutoInv, SaidInv, WorkInv
<1>3. /\ \/ said' = said
         \/ \E k \in Kinds : said' = Append(said, k)
      /\ awaiting' \in {0, awaiting, Len(said')}
      /\ answered' \in {answered, Len(said)}
      /\ waitingClock' \in {waitingClock, waitingClock + 1}
  <2>1. ASSUME NEW k \in Kinds, W!Writes(k)
        PROVE  /\ said' = Append(said, k) /\ awaiting' \in {awaiting, Len(said')}
               /\ answered' = answered /\ waitingClock' = waitingClock
    <3>1. Len(Append(said, k)) = Len(said) + 1
      BY <1>2
    <3> QED BY <2>1, <3>1 DEF W!Writes, W!Latest
  <2> QED BY <2>1 DEF W!Team, W!AsksForPerson, W!Answers, W!Assigned, W!QuietPasses, W!Latest, Kinds
<1>4. /\ Len(said') \in Nat /\ Len(said) <= Len(said')
      /\ \A m \in 1..Len(said) : said'[m] = said[m]
  <2>1. ASSUME NEW k \in Kinds, said' = Append(said, k)
        PROVE  Len(said') = Len(said) + 1 /\ \A m \in 1..Len(said) : said'[m] = said[m]
    BY <1>2, <2>1
  <2> QED BY <1>2, <1>3, <2>1
<1>5. Said \subseteq Said'
  BY <1>2, <1>4 DEF Said
<1>6. awaiting' \in Said' /\ answered' \in Said' /\ waitingClock' \in Nat \ {0} /\ waitingClock <= waitingClock'
  BY <1>2, <1>3, <1>4 DEF WaitTypes, Said
<1>7. ASSUME NEW m \in Msgs PROVE Logged(m)' /\ Replied(m)'
  <2>1. Logged(m) /\ Replied(m) /\ m \in Nat \ {0}
    BY <1>2 DEF WaitTypes
  <2>2. Logged(m)'
    BY <1>1, <1>2, <1>4, <1>5, <1>6, <2>1 DEF Logged, WaitTypes
  <2>3. Replied(m)'
    BY <1>1, <1>2, <1>4, <2>1 DEF Replied, Logged, Unsent
  <2> QED BY <2>2, <2>3
<1>8. ASSUME NEW s \in Servers PROVE Piloted(s)'
  <2>1. Piloted(s)
    BY DEF WaitTypes
  <2> QED BY <1>1, <1>2, <1>4, <1>5, <2>1 DEF Piloted
<1> QED BY <1>6, <1>7, <1>8 DEF WaitTypes

(* A server's step moves one row, one reply and its own work.              *)
LEMMA ServerTypesKept ==
  ASSUME AutoInv, WaitTypes, NEW s \in Servers, W!Autopilot(s) \/ W!Crash(s)
  PROVE  WaitTypes'
<1>1. /\ DOMAIN log = Msgs /\ \A m \in Msgs : DOMAIN log[m] = {"outcome", "prior", "at"}
      /\ DOMAIN waitingSent = Msgs /\ \A m \in Msgs : DOMAIN waitingSent[m] = {"way", "unsure", "blind", "shown"}
      /\ DOMAIN pilot = Servers /\ \A t \in Servers : DOMAIN pilot[t] = {"pc", "of", "prior", "asked", "owned"}
      /\ Msgs \subseteq Nat \ {0} /\ Len(said) \in Nat /\ 0 \in Said
  BY MsgsFacts, DeskAssumption DEF AutoInv, PilotShape, SaidInv, Said
<1>2. UNCHANGED <<said, answered>>
  BY DEF W!Autopilot, W!Looks, W!Claims, W!Clears, W!Holds, W!Chooses, W!Sends, W!Finishes, W!Crash, W!chat
<1>0. PICK m : m = pilot[s].of
  OBVIOUS
<1>3. /\ Piloted(s) /\ (pilot[s].pc # "idle" => m \in Msgs)
      /\ (Working(s) => log[m].outcome = "working")
      /\ awaiting \in Said /\ answered \in Said /\ waitingClock \in Nat \ {0}
  BY <1>0 DEF AutoInv, WorkInv, WaitTypes
<1>4. ASSUME NEW pc, W!Step(s, pc), UNCHANGED <<log, waitingSent, waitingClock>>, awaiting' \in {0, awaiting},
             pilot[s].pc # "idle", pc \in {"hold", "choose", "send"} => said[m] = "question"
      PROVE  WaitTypes'
  <2>1. /\ pilot'[s].pc = pc /\ pilot'[s].of = m /\ pilot'[s].prior = pilot[s].prior
        /\ \A t \in Servers \ {s} : pilot'[t] = pilot[t]
    BY <1>0, <1>1, <1>4 DEF W!Step
  <2>2. Piloted(s)'
    BY <1>0, <1>2, <1>3, <1>4, <2>1 DEF Piloted, Said
  <2> QED BY <1>0, <1>1, <1>2, <1>4, <2>1, <2>2 DEF WaitTypes, Logged, Replied, Unsent, Piloted, Said
<1>5. ASSUME W!Looks(s) PROVE WaitTypes'
  <2>1. /\ pilot'[s].pc = "claim" /\ pilot'[s].of = Len(said) /\ pilot'[s].prior = awaiting
        /\ \A t \in Servers \ {s} : pilot'[t] = pilot[t]
        /\ UNCHANGED <<log, waitingSent, waitingClock, awaiting>>
    BY <1>0, <1>1, <1>5 DEF W!Looks, W!Latest, W!chat
  <2>2. Piloted(s)'
    BY <1>0, <1>1, <1>2, <1>3, <2>1 DEF Piloted, Said
  <2> QED BY <1>0, <1>1, <1>2, <2>1, <2>2 DEF WaitTypes, Logged, Replied, Unsent, Piloted, Said
<1>6. ASSUME W!Claims(s), log[m].outcome = "none" PROVE WaitTypes'
  <2>1. /\ log' = [log EXCEPT ![m] = [outcome |-> "working", prior |-> pilot[s].prior, at |-> waitingClock]]
        /\ pilot[s].pc = "claim" /\ waitingClock' = waitingClock + 1
        /\ W!Step(s, IF said[m] = "thanks" THEN "clear" ELSE "hold")
        /\ UNCHANGED <<waitingSent, awaiting>>
    BY <1>0, <1>6 DEF W!Claims
  <2>2. said[m] \in Kinds
    <3>1. said \in Seq(Kinds) /\ m \in 1..Len(said)
      <4>1. said \in Seq(Kinds)
        BY DEF AutoInv, SaidInv
      <4>2. m <= Len(said) /\ m \in Nat \ {0}
        BY <1>0, <1>1, <1>3, <2>1 DEF Piloted
      <4> QED BY <1>0, <1>1, <4>1, <4>2
    <3> QED BY <3>1
  <2>3. /\ pilot'[s].pc \in {"clear", "hold"} /\ pilot'[s].of = m /\ pilot'[s].prior = pilot[s].prior
        /\ pilot'[s].pc = "hold" => said[m] = "question"
        /\ \A t \in Servers \ {s} : pilot'[t] = pilot[t]
    BY <1>0, <1>1, <2>1, <2>2 DEF W!Step, Kinds
  <2>4. Piloted(s)'
    BY <1>0, <1>2, <1>3, <2>1, <2>3 DEF Piloted, Said
  <2>5. /\ log'[m].outcome = "working" /\ log'[m].prior = pilot[s].prior /\ log'[m].at = waitingClock
        /\ \A k \in Msgs \ {m} : log'[k] = log[k]
    BY <1>0, <1>1, <1>3, <2>1
  <2>6. Logged(m)' /\ Replied(m)'
    <3>1. Unsent(m)
      BY <1>0, <1>3, <1>6, <2>1 DEF AutoInv, ReplyInv
    <3>2. Replied(m)'
      BY <1>0, <2>1, <3>1 DEF Replied, Unsent
    <3>3. m \in Msgs /\ m <= Len(said) /\ pilot[s].prior \in Said
      BY <1>0, <1>3, <2>1 DEF Piloted
    <3>4. Logged(m)'
      BY <1>0, <1>2, <1>3, <2>1, <2>5, <3>3 DEF Logged, Said
    <3> QED BY <3>2, <3>4
  <2>7. ASSUME NEW k \in Msgs \ {m} PROVE Logged(k)' /\ Replied(k)'
    <3>1. Logged(k) /\ Replied(k)
      BY DEF WaitTypes
    <3> QED BY <1>0, <1>2, <1>3, <2>1, <2>5, <3>1 DEF Logged, Replied, Unsent, Said
  <2>8. ASSUME NEW t \in Servers \ {s} PROVE Piloted(t)'
    <3>1. Piloted(t)
      BY DEF WaitTypes
    <3> QED BY <1>0, <1>2, <2>3, <3>1 DEF Piloted, Said
  <2>9. awaiting' \in Said' /\ answered' \in Said' /\ waitingClock' \in Nat \ {0}
    BY <1>0, <1>2, <1>3, <2>1 DEF Said
  <2>10. \A k \in Msgs : Logged(k)' /\ Replied(k)'
    BY <1>0, <2>6, <2>7
  <2> QED BY <1>0, <2>4, <2>8, <2>9, <2>10 DEF WaitTypes
<1>7. ASSUME W!Sends(s) PROVE WaitTypes'
  <2>1. /\ pilot[s].pc = "send" /\ W!Step(s, "sent") /\ awaiting' \in {0, awaiting}
        /\ UNCHANGED <<log, waitingClock>>
        /\ \E way : waitingSent' = [waitingSent EXCEPT ![m].way = way]
    BY <1>0, <1>7 DEF W!Sends
  <2>2. /\ pilot'[s].pc = "sent" /\ pilot'[s].of = m /\ pilot'[s].prior = pilot[s].prior
        /\ \A t \in Servers \ {s} : pilot'[t] = pilot[t]
    BY <1>0, <1>1, <2>1 DEF W!Step
  <2>3. \A k \in Msgs \ {m} : waitingSent'[k] = waitingSent[k]
    BY <1>0, <1>1, <2>1
  <2>4. log[m].outcome # "none" /\ said[m] = "question"
    BY <1>0, <1>3, <2>1 DEF Working, Piloted
  <2>5. \A k \in Msgs : Logged(k)' /\ Replied(k)'
    BY <1>0, <1>2, <2>1, <2>3, <2>4 DEF WaitTypes, Logged, Replied, Unsent, Said
  <2>6. \A t \in Servers : Piloted(t)'
    BY <1>0, <1>2, <1>3, <2>1, <2>2 DEF WaitTypes, Piloted, Said
  <2> QED BY <1>0, <1>1, <1>2, <1>3, <2>1, <2>5, <2>6 DEF WaitTypes, Said
<1>8. ASSUME pilot' = [pilot EXCEPT ![s] = W!NoWork], UNCHANGED <<waitingSent, waitingClock, awaiting>>,
             \A k \in Msgs : /\ log'[k].prior = log[k].prior /\ log'[k].at = log[k].at
                             /\ log'[k].outcome = "none" <=> log[k].outcome = "none"
      PROVE  WaitTypes'
  <2>1. /\ pilot'[s].pc = "idle" /\ pilot'[s].prior = 0
        /\ \A t \in Servers \ {s} : pilot'[t] = pilot[t]
    BY <1>0, <1>1, <1>8 DEF W!NoWork
  <2>2. \A t \in Servers : Piloted(t)'
    BY <1>0, <1>1, <1>2, <2>1 DEF WaitTypes, Piloted, Said
  <2>3. ASSUME NEW k \in Msgs PROVE Logged(k)' /\ Replied(k)'
    <3>1. Logged(k) /\ Replied(k)
      BY DEF WaitTypes
    <3> QED BY <1>0, <1>2, <1>8, <3>1 DEF Logged, Replied, Unsent, Said
  <2> QED BY <1>0, <1>2, <1>3, <1>8, <2>2, <2>3 DEF WaitTypes, Said
<1>9. CASE W!Claims(s) /\ log[m].outcome # "none"
  BY <1>0, <1>4, <1>9 DEF W!Claims
<1>10. CASE W!Clears(s)
  BY <1>0, <1>4, <1>10 DEF W!Clears
<1>11. CASE W!Holds(s) \/ W!Chooses(s)
  <2>1. PICK pc : W!Step(s, pc)
    BY <1>0, <1>11 DEF W!Holds, W!Chooses
  <2>2. pilot[s].pc \in {"hold", "choose"} /\ UNCHANGED <<log, waitingSent, waitingClock, awaiting>>
    BY <1>0, <1>11 DEF W!Holds, W!Chooses, W!chat
  <2> QED BY <1>0, <1>3, <1>4, <2>1, <2>2 DEF Piloted
<1>12. CASE W!Finishes(s)
  <2>1. /\ pilot[s].pc \in {"cleared", "skipped", "sent"}
        /\ log' = [log EXCEPT ![m].outcome = pilot[s].pc]
        /\ pilot' = [pilot EXCEPT ![s] = W!NoWork]
        /\ UNCHANGED <<waitingSent, waitingClock, awaiting>>
    BY <1>0, <1>12 DEF W!Finishes, W!chat
  <2>2. log[m].outcome = "working" /\ m \in Msgs
    BY <1>0, <1>3, <2>1 DEF Working
  <2>3. \A k \in Msgs : /\ log'[k].prior = log[k].prior /\ log'[k].at = log[k].at
                        /\ log'[k].outcome = "none" <=> log[k].outcome = "none"
    BY <1>0, <1>1, <2>1, <2>2
  <2> QED BY <1>0, <1>8, <2>1, <2>3
<1>13. CASE W!Crash(s)
  BY <1>0, <1>8, <1>13 DEF W!Crash, W!chat
<1> QED BY <1>5, <1>6, <1>7, <1>9, <1>10, <1>11, <1>12, <1>13 DEF W!Autopilot

(* The outbox and a teammate who takes an action back.                     *)
LEMMA UndoTypesKept ==
  ASSUME AutoInv, WaitTypes, (\E m \in Msgs : W!Leaves(m)) \/ W!Undo
  PROVE  WaitTypes'
<1>1. /\ DOMAIN log = Msgs /\ \A m \in Msgs : DOMAIN log[m] = {"outcome", "prior", "at"}
      /\ DOMAIN waitingSent = Msgs /\ \A m \in Msgs : DOMAIN waitingSent[m] = {"way", "unsure", "blind", "shown"}
  BY DEF AutoInv, PilotShape
<1>2. UNCHANGED <<said, answered, pilot, waitingClock>>
  BY DEF W!Leaves, W!Undo, W!Wanted, W!Checks, W!Deletes, W!PutsBack, W!Marks, W!chat
<1>3. ASSUME awaiting' \in Said,
             \A k \in Msgs : /\ log'[k].prior = log[k].prior /\ log'[k].at = log[k].at
                             /\ log'[k].outcome = "none" <=> log[k].outcome = "none"
                             /\ Unsent(k)' <=> Unsent(k)
      PROVE  WaitTypes'
  <2>1. ASSUME NEW k \in Msgs PROVE Logged(k)' /\ Replied(k)'
    <3>1. Logged(k) /\ Replied(k)
      BY DEF WaitTypes
    <3> QED BY <1>2, <1>3, <3>1 DEF Logged, Replied, Said
  <2>2. \A t \in Servers : Piloted(t)'
    BY <1>2 DEF WaitTypes, Piloted, Said
  <2> QED BY <1>2, <1>3, <2>1, <2>2 DEF WaitTypes, Said
<1>4. awaiting \in Said
  BY DEF WaitTypes
<1>5. ASSUME NEW m \in Msgs, W!Leaves(m) PROVE WaitTypes'
  <2>1. UNCHANGED <<log, awaiting>> /\ ~Unsent(m)
    BY <1>5 DEF W!Leaves, W!chat, Unsent
  <2>2. PICK way, unsure, shown : way # "none" /\ W!Becomes(m, way, unsure, shown)
    BY <1>5 DEF W!Leaves
  <2>3. \A k \in Msgs : Unsent(k)' <=> Unsent(k)
    BY <1>1, <2>1, <2>2 DEF Unsent, W!Becomes
  <2> QED BY <1>3, <1>4, <2>1, <2>3
<1>6. ASSUME (\E m \in Msgs : W!Wanted(m)) \/ W!Checks PROVE WaitTypes'
  BY <1>3, <1>4, <1>6 DEF W!Wanted, W!Checks, W!chat, Unsent
<1>7. ASSUME W!Deletes PROVE WaitTypes'
  <2>1. UNCHANGED <<log, awaiting>>
    BY <1>7 DEF W!Deletes, W!chat
  <2>2. \/ waitingSent' = [waitingSent EXCEPT ![undo.of] = W!Deleted(waitingSent[undo.of])]
        \/ waitingSent' = waitingSent
    BY <1>7 DEF W!Deletes
  <2>3. \A k \in Msgs : Unsent(k)' <=> Unsent(k)
    BY <1>1, <2>2 DEF Unsent, W!Deleted
  <2> QED BY <1>3, <1>4, <2>1, <2>3
<1>8. undo.pc # "idle" => undo.of \in Msgs /\ log[undo.of].outcome # "none"
  BY DEF AutoInv, UndoInv, Done
<1>9. ASSUME W!PutsBack PROVE WaitTypes'
  <2>1. /\ UNCHANGED <<log, waitingSent>> /\ undo.pc = "back"
        /\ awaiting' \in {awaiting, log[undo.of].prior}
    BY <1>9 DEF W!PutsBack
  <2>2. awaiting' \in Said
    BY <1>4, <1>8, <2>1 DEF WaitTypes, Logged
  <2> QED BY <1>3, <2>1, <2>2 DEF Unsent
<1>10. ASSUME W!Marks PROVE WaitTypes'
  <2>1. /\ UNCHANGED <<waitingSent, awaiting>> /\ undo.pc = "mark"
        /\ log' = [log EXCEPT ![undo.of].outcome = "undone"]
    BY <1>10 DEF W!Marks, W!chat
  <2>2. \A k \in Msgs : /\ log'[k].prior = log[k].prior /\ log'[k].at = log[k].at
                        /\ log'[k].outcome = "none" <=> log[k].outcome = "none"
    BY <1>1, <1>8, <2>1
  <2> QED BY <1>3, <1>4, <2>1, <2>2 DEF Unsent
<1> QED BY <1>5, <1>6, <1>7, <1>9, <1>10 DEF W!Undo, Msgs

LEMMA WaitTyped ==
  /\ W!Init => WaitTypes
  /\ AutoInv /\ WaitTypes /\ [W!Next]_(W!vars) => WaitTypes'
  /\ AutoInv /\ WaitTypes => W!TypeOK
<1>1. W!Init => WaitTypes
  BY DEF W!Init, WaitTypes, Said, Logged, Replied, Unsent, Piloted, Msgs, W!NoLog, W!NoReply, W!NoWork
<1>2. ASSUME AutoInv, WaitTypes, W!Next PROVE WaitTypes'
  BY <1>2, TeamTypesKept, ServerTypesKept, UndoTypesKept DEF W!Next, Msgs
<1>3. ASSUME WaitTypes, UNCHANGED W!vars PROVE WaitTypes'
  BY <1>3 DEF W!vars, W!chat, W!auto, WaitTypes, Said, Logged, Replied, Unsent, Piloted
<1>4. AutoInv /\ WaitTypes => W!TypeOK
  BY DEF WaitTypes, W!TypeOK, W!Latest, Said, Logged, Replied, Unsent, Msgs
<1> QED BY <1>1, <1>2, <1>3, <1>4


-----------------------------------------------------------------------------
(* What a request on leads is at is about leads and steps there may be.    *)
AllSteps == Steps \cup {"won", "lost"}
LeadRow == [status : {"none", "open", "won", "lost"}, step : AllSteps \cup {"none"}, owner : D!Owners]
SaleWork(work) ==
  \/ work.does = "idle"
  \/ work.does = "create" /\ work.owner \in D!Owners /\ work.step \in AllSteps
  \/ work.does \in {"own", "share"} /\ work.lead \in Ids /\ work.owner \in D!Owners
  \/ work.does = "follow" /\ work.owner \in D!Owners
  \/ work.does \in {"move", "advance"} /\ work.lead \in Ids /\ work.step \in AllSteps
  \/ /\ work.does = "save"
     /\ \E wanted \in SUBSET Steps : work.new \subseteq wanted /\ work.wanted \in [wanted -> Nat]
PipeTypes == DOMAIN pipeline \subseteq AllSteps /\ \A s \in DOMAIN pipeline : pipeline[s] \in Nat
WorkTypes == DOMAIN salesDoing = Requests /\ \A r \in Requests : SaleWork(salesDoing[r])
SaleTypes ==
  /\ PipeTypes /\ leads \in [Ids -> LeadRow] /\ assigned \in D!Owners /\ WorkTypes
  /\ salesAlone \in [Requests -> BOOLEAN] /\ advanced \in BOOLEAN /\ salesAsks \in 0..MaxAsks + 1

(* Where a wanted order places its steps, and the two closing ones.        *)
LEMMA PlacesAreNats ==
  ASSUME NEW wanted \in SUBSET Steps, NEW order \in [wanted -> Nat]
  PROVE  D!Placed(order) \in [wanted \cup {"won", "lost"} -> Nat]
<1>1. Cardinality(wanted) \in Nat
  BY DeskAssumption, FS_Subset, FS_CardinalityType
<1>2. D!Cardinality(DOMAIN order) \in Nat
  BY <1>1, SalesCount
<1> QED BY <1>2 DEF D!Placed, D!Closing

LEMMA OrdersAreNats ==
  ASSUME NEW wanted \in SUBSET Steps, NEW order \in D!Orders(wanted)
  PROVE  order \in [wanted -> Nat]
<1>1. Cardinality(wanted) \in Nat
  BY DeskAssumption, FS_Subset, FS_CardinalityType
<1>2. D!Cardinality(wanted) \in Nat
  BY <1>1, SalesCount
<1> QED BY <1>2 DEF D!Orders

(* A request that starts, and one that goes on.                            *)
LEMMA StartTyped ==
  ASSUME SaleTypes, NEW r \in Requests, NEW work, SaleWork(work), D!Starts(r, work)
  PROVE  WorkTypes' /\ salesAlone' \in [Requests -> BOOLEAN] /\ salesAsks' \in 0..MaxAsks + 1
<1>1. WorkTypes'
  BY DEF D!Starts, SaleTypes, WorkTypes, SaleWork
<1>2. salesAlone' \in [Requests -> BOOLEAN]
  BY Zenon DEF D!Starts
<1>3. salesAsks' \in 0..MaxAsks + 1
  BY ViewingsAssumption DEF D!Starts, SaleTypes
<1> QED BY <1>1, <1>2, <1>3

LEMMA GoesOnTyped ==
  ASSUME SaleTypes, NEW r \in Requests, NEW work, SaleWork(work), D!Next1(r, work)
  PROVE  WorkTypes' /\ salesAlone' \in [Requests -> BOOLEAN] /\ salesAsks' \in 0..MaxAsks + 1
<1>1. WorkTypes'
  BY DEF D!Next1, SaleTypes, WorkTypes, SaleWork
<1>2. salesAlone' \in [Requests -> BOOLEAN]
  BY Zenon DEF D!Next1, SaleTypes
<1> QED BY <1>1, <1>2 DEF D!Next1, SaleTypes

LEMMA SaleTyped ==
  /\ D!Init => SaleTypes
  /\ SaleTypes /\ [D!Next]_(D!vars) => SaleTypes'
  /\ SaleTypes => D!TypeOK
<1>0. SaleWork(D!Idle)
  BY DEF SaleWork, D!Idle
<1>1. ASSUME D!Init PROVE SaleTypes
  <2>1. PipeTypes
    <3>1. PICK s \in Steps : \E order \in D!Orders(Steps \ {s}) : pipeline = D!Placed(order)
      BY <1>1 DEF D!Init
    <3>2. PICK order \in D!Orders(Steps \ {s}) : pipeline = D!Placed(order)
      BY <3>1
    <3>3. pipeline \in [(Steps \ {s}) \cup {"won", "lost"} -> Nat]
      BY <3>2, OrdersAreNats, PlacesAreNats
    <3> QED BY <3>3 DEF PipeTypes, AllSteps
  <2>2. leads \in [Ids -> LeadRow]
    <3>1. D!NoLead \in LeadRow
      BY DEF D!NoLead, LeadRow, D!Owners
    <3>2. [D!NoLead EXCEPT !.status = "won", !.step = "won"] \in LeadRow
      BY DEF D!NoLead, LeadRow, D!Owners, AllSteps
    <3>3. \A l \in Ids : leads[l] \in {D!NoLead, [D!NoLead EXCEPT !.status = "won", !.step = "won"]}
      BY <1>1 DEF D!Init
    <3>4. leads = [l \in Ids |-> leads[l]]
      BY <1>1 DEF D!Init
    <3> QED BY <3>1, <3>2, <3>3, <3>4
  <2>3. WorkTypes
    BY <1>0, <1>1 DEF D!Init, WorkTypes
  <2>4. salesAlone \in [Requests -> BOOLEAN] /\ advanced \in BOOLEAN
    BY <1>1, Zenon DEF D!Init
  <2>5. assigned \in D!Owners /\ salesAsks \in 0..MaxAsks + 1
    BY <1>1, ViewingsAssumption DEF D!Init, D!Owners
  <2> QED BY <2>1, <2>2, <2>3, <2>4, <2>5 DEF SaleTypes
<1> DEFINE Asked == WorkTypes' /\ salesAlone' \in [Requests -> BOOLEAN] /\ salesAsks' \in 0..MaxAsks + 1
<1>2. ASSUME SaleTypes, NEW r \in Requests, D!FindForCreate(r) PROVE SaleTypes'
  <2>1. PICK who \in D!Owners, s \in Steps : D!Starts(r, [does |-> "create", owner |-> who, step |-> s])
    BY <1>2 DEF D!FindForCreate
  <2>2. Asked
    BY <1>2, <2>1, StartTyped DEF SaleWork, AllSteps
  <2> QED BY <1>2, <2>2 DEF D!FindForCreate, SaleTypes, PipeTypes
<1>3. ASSUME SaleTypes, NEW r \in Requests, D!Insert(r) PROVE SaleTypes'
  <2>1. UNCHANGED <<pipeline, assigned, advanced>> /\ salesDoing[r].does = "create"
    BY <1>3 DEF D!Insert
  <2>2. salesDoing[r].owner \in D!Owners /\ salesDoing[r].step \in AllSteps
    BY <1>3, <2>1 DEF SaleTypes, WorkTypes, SaleWork
  <2>3. CASE D!Next1(r, D!Idle) /\ leads' = leads
    BY <1>0, <1>3, <2>1, <2>3, GoesOnTyped DEF SaleTypes, PipeTypes
  <2>4. CASE \E l \in Ids : /\ leads' = [leads EXCEPT ![l] = [status |-> "open", step |-> salesDoing[r].step,
                                                              owner |-> salesDoing[r].owner]]
                            /\ D!Next1(r, IF salesDoing[r].owner = Nobody THEN D!Idle
                                          ELSE [does |-> "share", lead |-> l, owner |-> salesDoing[r].owner])
    <3>1. PICK l \in Ids : /\ leads' = [leads EXCEPT ![l] = [status |-> "open", step |-> salesDoing[r].step,
                                                              owner |-> salesDoing[r].owner]]
                           /\ D!Next1(r, IF salesDoing[r].owner = Nobody THEN D!Idle
                                         ELSE [does |-> "share", lead |-> l, owner |-> salesDoing[r].owner])
      BY <2>4
    <3>2. [status |-> "open", step |-> salesDoing[r].step, owner |-> salesDoing[r].owner] \in LeadRow
      BY <2>2 DEF LeadRow
    <3>3. leads' \in [Ids -> LeadRow]
      BY <1>3, <3>1, <3>2 DEF SaleTypes
    <3>4. SaleWork([does |-> "share", lead |-> l, owner |-> salesDoing[r].owner])
      BY <2>2 DEF SaleWork
    <3>5. Asked
      BY <1>0, <1>3, <3>1, <3>4, GoesOnTyped
    <3> QED BY <1>3, <2>1, <3>3, <3>5 DEF SaleTypes, PipeTypes
  <2> QED BY <1>3, <2>3, <2>4 DEF D!Insert
<1>4. ASSUME SaleTypes, NEW r \in Requests, D!FindForOwner(r) PROVE SaleTypes'
  <2>1. PICK l \in D!Made, who \in D!Owners :
          D!Starts(r, [does |-> "own", lead |-> l, owner |-> who, changes |-> who # leads[l].owner])
    BY <1>4 DEF D!FindForOwner
  <2>2. Asked
    BY <1>4, <2>1, StartTyped DEF SaleWork, D!Made
  <2> QED BY <1>4, <2>2 DEF D!FindForOwner, SaleTypes, PipeTypes
<1>5. ASSUME SaleTypes, NEW r \in Requests, D!SetOwner(r) PROVE SaleTypes'
  <2>1. /\ UNCHANGED <<pipeline, assigned, advanced>> /\ salesDoing[r].does = "own"
        /\ leads' \in {leads, [leads EXCEPT ![salesDoing[r].lead].owner = salesDoing[r].owner]}
        /\ D!Next1(r, IF salesDoing[r].changes
                      THEN [does |-> "share", lead |-> salesDoing[r].lead, owner |-> salesDoing[r].owner] ELSE D!Idle)
    BY <1>5 DEF D!SetOwner
  <2>2. salesDoing[r].owner \in D!Owners /\ salesDoing[r].lead \in Ids
    BY <1>5, <2>1 DEF SaleTypes, WorkTypes, SaleWork
  <2>3. leads' \in [Ids -> LeadRow]
    BY <1>5, <2>1, <2>2 DEF SaleTypes, LeadRow
  <2>4. SaleWork([does |-> "share", lead |-> salesDoing[r].lead, owner |-> salesDoing[r].owner])
    BY <2>2 DEF SaleWork
  <2>5. Asked
    BY <1>0, <1>5, <2>1, <2>4, GoesOnTyped
  <2> QED BY <1>5, <2>1, <2>3, <2>5 DEF SaleTypes, PipeTypes
<1>6. ASSUME SaleTypes, NEW r \in Requests, D!Share(r) PROVE SaleTypes'
  <2>1. D!Next1(r, D!Idle) /\ UNCHANGED <<pipeline, leads, advanced>>
        /\ assigned' = salesDoing[r].owner /\ salesDoing[r].does = "share"
    BY <1>6 DEF D!Share
  <2>2. assigned' \in D!Owners
    BY <1>6, <2>1 DEF SaleTypes, WorkTypes, SaleWork
  <2> QED BY <1>0, <1>6, <2>1, <2>2, GoesOnTyped DEF SaleTypes, PipeTypes
<1>7. ASSUME SaleTypes, NEW r \in Requests, D!Assign(r) PROVE SaleTypes'
  <2>1. PICK who \in D!Owners : D!Starts(r, [does |-> "follow", owner |-> who]) /\ assigned' = who
    BY <1>7 DEF D!Assign
  <2>2. Asked
    BY <1>7, <2>1, StartTyped DEF SaleWork
  <2> QED BY <1>7, <2>1, <2>2 DEF D!Assign, SaleTypes, PipeTypes
<1>8. ASSUME SaleTypes, NEW r \in Requests, D!Follow(r) PROVE SaleTypes'
  <2>1. salesDoing[r].does = "follow" /\ D!Next1(r, D!Idle) /\ UNCHANGED <<pipeline, assigned, advanced>>
        /\ leads' = [l \in Ids |-> IF l \in D!Opens THEN [leads[l] EXCEPT !.owner = salesDoing[r].owner] ELSE leads[l]]
    BY <1>8 DEF D!Follow
  <2>2. salesDoing[r].owner \in D!Owners
    BY <1>8, <2>1 DEF SaleTypes, WorkTypes, SaleWork
  <2>3. leads' \in [Ids -> LeadRow]
    BY <1>8, <2>1, <2>2 DEF SaleTypes, LeadRow
  <2> QED BY <1>0, <1>8, <2>1, <2>3, GoesOnTyped DEF SaleTypes, PipeTypes
<1>9. ASSUME SaleTypes, NEW r \in Requests, D!FindForMove(r) PROVE SaleTypes'
  <2>1. PICK l \in D!Made, s \in DOMAIN pipeline : D!Starts(r, [does |-> "move", lead |-> l, step |-> s])
    BY <1>9 DEF D!FindForMove
  <2>2. Asked
    BY <1>9, <2>1, StartTyped DEF SaleWork, D!Made, SaleTypes, PipeTypes
  <2> QED BY <1>9, <2>2 DEF D!FindForMove, SaleTypes, PipeTypes
<1>10. ASSUME SaleTypes, NEW r \in Requests, D!Move(r) PROVE SaleTypes'
  <2> DEFINE s == salesDoing[r].step
             l == salesDoing[r].lead
  <2>1. /\ UNCHANGED <<pipeline, assigned, advanced>> /\ salesDoing[r].does = "move" /\ D!Next1(r, D!Idle)
        /\ leads' \in {leads, [leads EXCEPT ![l] = [@ EXCEPT !.status = D!Kind(s), !.step = s]]}
    BY <1>10 DEF D!Move
  <2>2. l \in Ids /\ s \in AllSteps
    BY <1>10, <2>1 DEF SaleTypes, WorkTypes, SaleWork
  <2>3. D!Kind(s) \in {"open", "won", "lost"}
    BY DEF D!Kind, D!Closing
  <2> HIDE DEF s, l
  <2>4. [leads[l] EXCEPT !.status = D!Kind(s), !.step = s] \in LeadRow
    BY <1>10, <2>2, <2>3 DEF SaleTypes, LeadRow
  <2>5. leads' \in [Ids -> LeadRow]
    BY <1>10, <2>1, <2>2, <2>4 DEF SaleTypes
  <2> QED BY <1>0, <1>10, <2>1, <2>5, GoesOnTyped DEF SaleTypes, PipeTypes
<1>11. ASSUME SaleTypes, NEW r \in Requests, D!FindForAdvance(r) PROVE SaleTypes'
  <2>1. PICK l \in D!Opens, s \in DOMAIN pipeline : D!Starts(r, [does |-> "advance", lead |-> l, step |-> s])
    BY <1>11 DEF D!FindForAdvance
  <2>2. Asked
    BY <1>11, <2>1, StartTyped DEF SaleWork, D!Opens, SaleTypes, PipeTypes
  <2> QED BY <1>11, <2>2 DEF D!FindForAdvance, SaleTypes, PipeTypes
<1>12. ASSUME SaleTypes, NEW r \in Requests, D!Advance(r) PROVE SaleTypes'
  <2> DEFINE s == salesDoing[r].step
             l == salesDoing[r].lead
  <2>1. /\ UNCHANGED <<pipeline, assigned>> /\ salesDoing[r].does = "advance" /\ D!Next1(r, D!Idle)
        /\ leads' \in {leads, [leads EXCEPT ![l] = [@ EXCEPT !.step = s]]}
    BY <1>12 DEF D!Advance
  <2>2. advanced' \in BOOLEAN
    BY <1>12, Zenon DEF D!Advance, SaleTypes
  <2>3. l \in Ids /\ s \in AllSteps
    BY <1>12, <2>1 DEF SaleTypes, WorkTypes, SaleWork
  <2> HIDE DEF s, l
  <2>4. [leads[l] EXCEPT !.step = s] \in LeadRow
    BY <1>12, <2>3 DEF SaleTypes, LeadRow
  <2>5. leads' \in [Ids -> LeadRow]
    BY <1>12, <2>1, <2>3, <2>4 DEF SaleTypes
  <2> QED BY <1>0, <1>12, <2>1, <2>2, <2>5, GoesOnTyped DEF SaleTypes, PipeTypes
<1>13. ASSUME SaleTypes, NEW r \in Requests, D!FindForSave(r) PROVE SaleTypes'
  <2>0. PICK wanted \in SUBSET Steps : \E order \in D!Orders(wanted) : \E removed :
          D!Starts(r, [does |-> "save", wanted |-> order, removed |-> removed, new |-> wanted \ DOMAIN pipeline])
    BY <1>13 DEF D!FindForSave
  <2>1. PICK order \in D!Orders(wanted) : \E removed :
          D!Starts(r, [does |-> "save", wanted |-> order, removed |-> removed, new |-> wanted \ DOMAIN pipeline])
    BY <2>0
  <2>2. PICK removed :
          D!Starts(r, [does |-> "save", wanted |-> order, removed |-> removed, new |-> wanted \ DOMAIN pipeline])
    BY <2>1
  <2>3. order \in [wanted -> Nat]
    BY OrdersAreNats
  <2>4. SaleWork([does |-> "save", wanted |-> order, removed |-> removed, new |-> wanted \ DOMAIN pipeline])
    BY <2>3 DEF SaleWork
  <2>5. Asked
    BY <1>13, <2>2, <2>4, StartTyped
  <2> QED BY <1>13, <2>5 DEF D!FindForSave, SaleTypes, PipeTypes
<1>14. ASSUME SaleTypes, NEW r \in Requests, D!Save(r) PROVE SaleTypes'
  <2> DEFINE work == salesDoing[r]
             placed == D!Placed(work.wanted)
             there == (DOMAIN pipeline \ work.removed) \cup work.new
  <2>1. /\ UNCHANGED <<leads, assigned, advanced>> /\ work.does = "save" /\ D!Next1(r, D!Idle)
        /\ pipeline' \in {pipeline, [s \in there |-> IF s \in DOMAIN placed THEN placed[s] ELSE pipeline[s] + 1000]}
    BY <1>14 DEF D!Save
  <2>2. PICK wanted \in SUBSET Steps : work.new \subseteq wanted /\ work.wanted \in [wanted -> Nat]
    BY <1>14, <2>1 DEF SaleTypes, WorkTypes, SaleWork
  <2>3. placed \in [wanted \cup {"won", "lost"} -> Nat]
    BY <2>2, PlacesAreNats
  <2>4. there \subseteq AllSteps
    BY <1>14, <2>2 DEF SaleTypes, PipeTypes, AllSteps
  <2>5. \A s \in there : s \in DOMAIN placed \/ s \in DOMAIN pipeline
    BY <2>2, <2>3
  <2>6. \A s \in DOMAIN pipeline : pipeline[s] \in Nat /\ pipeline[s] + 1000 \in Nat
    BY <1>14 DEF SaleTypes, PipeTypes
  <2> HIDE DEF placed, there
  <2>7. \A s \in there : (IF s \in DOMAIN placed THEN placed[s] ELSE pipeline[s] + 1000) \in Nat
    BY <2>3, <2>5, <2>6
  <2>8. PipeTypes'
    BY <1>14, <2>1, <2>4, <2>7 DEF SaleTypes, PipeTypes
  <2> HIDE DEF work
  <2>9. WorkTypes' /\ salesAlone' \in [Requests -> BOOLEAN] /\ salesAsks' \in 0..MaxAsks + 1
    BY <1>0, <1>14, <2>1, GoesOnTyped
  <2> QED BY <1>14, <2>1, <2>8, <2>9 DEF SaleTypes
<1>15. ASSUME SaleTypes, NEW l \in Ids, D!Delete(l) PROVE SaleTypes'
  <2>1. leads' = [leads EXCEPT ![l] = D!NoLead] /\ D!NoLead \in LeadRow
    BY <1>15 DEF D!Delete, D!NoLead, LeadRow, D!Owners
  <2>2. salesAlone' \in [Requests -> BOOLEAN]
    BY <1>15, Zenon DEF D!Delete
  <2>3. UNCHANGED <<pipeline, assigned, salesDoing, advanced, salesAsks>>
    BY <1>15 DEF D!Delete
  <2>4. leads' \in [Ids -> LeadRow]
    BY <1>15, <2>1 DEF SaleTypes
  <2> QED BY <1>15, <2>2, <2>3, <2>4 DEF SaleTypes, PipeTypes, WorkTypes
<1>16. ASSUME SaleTypes, UNCHANGED D!vars PROVE SaleTypes'
  <2>1. salesAlone' \in [Requests -> BOOLEAN] /\ advanced' \in BOOLEAN
    BY <1>16, Zenon DEF D!vars, SaleTypes
  <2> QED BY <1>16, <2>1 DEF D!vars, SaleTypes, PipeTypes, WorkTypes
<1>17. ASSUME SaleTypes PROVE D!TypeOK
  <2>1. salesAlone \in [Requests -> BOOLEAN] /\ advanced \in BOOLEAN
    BY <1>17, Zenon DEF SaleTypes
  <2>2. \A r \in Requests :
          salesDoing[r].does \in {"idle", "create", "own", "share", "follow", "move", "advance", "save"}
    BY <1>17 DEF SaleTypes, WorkTypes, SaleWork
  <2>3. {"none", "open"} \cup D!Closing = {"none", "open", "won", "lost"} /\ Steps \cup D!Closing = AllSteps
    BY DEF D!Closing, AllSteps
  <2>4. leads \in [Ids -> [status : {"none", "open"} \cup D!Closing,
                           step : Steps \cup D!Closing \cup {"none"}, owner : D!Owners]]
    BY <1>17, <2>3, Zenon DEF SaleTypes, LeadRow
  <2>5. DOMAIN pipeline \subseteq Steps \cup D!Closing /\ \A s \in DOMAIN pipeline : pipeline[s] \in Nat
    BY <1>17, <2>3 DEF SaleTypes, PipeTypes
  <2>6. assigned \in D!Owners /\ salesAsks \in 0..MaxAsks + 1
    BY <1>17 DEF SaleTypes
  <2> QED BY <2>1, <2>2, <2>4, <2>5, <2>6, Zenon DEF D!TypeOK
<1> QED BY <1>1, <1>2, <1>3, <1>4, <1>5, <1>6, <1>7, <1>8, <1>9, <1>10, <1>11, <1>12, <1>13, <1>14, <1>15, <1>16,
           <1>17 DEF D!Next


-----------------------------------------------------------------------------
(* The conversations' rows are never ahead of the phone, what is stored is *)
(* filed under a conversation there is, and so is what a pass and a reader *)
(* are about to store.                                                     *)
Convs == S!Conversations
PhoneTimes == 0..Len(phone)
OnPhone == 1..Len(phone)
FiledTypes == filed \in Seq(Convs) /\ Len(filed) = Len(phone)
RowTypes == DOMAIN chat = Convs /\ \A c \in Convs : chat[c].epoch \in PhoneTimes /\ chat[c].preview \in PhoneTimes
FiledThere == \A m \in OnPhone : S!Known(m) => chat[filed[m]].exists
PassTypes ==
  /\ DOMAIN pass = {"at", "known", "remote", "todo", "batch"}
  /\ \A c \in SyncedChats : pass.known[c] \in PhoneTimes /\ pass.remote[c] \in PhoneTimes
  /\ DOMAIN pass.known = SyncedChats /\ DOMAIN pass.remote = SyncedChats
  /\ pass.todo \subseteq SyncedChats /\ pass.batch \subseteq OnPhone
  /\ pass.at = "merge" => \A c \in SyncedChats : pass.remote[c] > 0 => c \in pass.todo \/ chat[c].exists
  /\ pass.at \in {"chats", "store"} => \A c \in pass.todo : chat[c].exists
  /\ pass.at = "store" => pass.todo # {}
ReaderTypes ==
  /\ DOMAIN reader = {"at", "of", "batch"} /\ reader.of \in Convs /\ reader.batch \subseteq OnPhone
  /\ reader.at = "store" => chat[reader.of].exists
SyncTypes == FiledTypes /\ RowTypes /\ FiledThere /\ events \subseteq OnPhone /\ PassTypes /\ ReaderTypes

(* The newest and the oldest of some messages.                             *)
LEMMA HasGreatest ==
  ASSUME NEW n \in Nat, NEW some, some \subseteq 0..n, some # {}
  PROVE  \E m \in some : \A k \in some : k <= m
<1> DEFINE rest == {n - k : k \in some}
<1>1. rest \subseteq Nat /\ rest # {}
  <2>1. \A k \in some : k \in Nat /\ n - k \in Nat
    OBVIOUS
  <2> QED BY <2>1
<1>2. A!Min(rest) \in rest /\ \A y \in rest : A!Min(rest) <= y
  <2> HIDE DEF rest
  <2> QED BY <1>1, NatHasLeast
<1>3. PICK m \in some : A!Min(rest) = n - m
  BY <1>2
<1>4. ASSUME NEW k \in some PROVE k <= m
  <2>1. n - m <= n - k
    BY <1>2, <1>3
  <2> QED BY <2>1
<1> QED BY <1>4

LEMMA OldestIsThere ==
  ASSUME NEW batch, batch \subseteq Nat, batch # {} PROVE S!Oldest(batch) \in batch
<1>1. A!Min(batch) \in batch /\ \A k \in batch : A!Min(batch) <= k
  BY NatHasLeast
<1> QED BY <1>1 DEF S!Oldest

LEMMA NewestIsTime ==
  ASSUME StoreInv, NEW c PROVE S!Newest(c) \in PhoneTimes /\ (S!Newest(c) # 0 => S!Of(c) # {})
<1>1. Len(phone) \in Nat /\ S!Of(c) \subseteq 0..Len(phone)
  BY DEF StoreInv, StoreShape, S!Of, S!Messages
<1>2. CASE S!Of(c) # {}
  <2>1. PICK m \in S!Of(c) : \A k \in S!Of(c) : k <= m
    BY <1>1, <1>2, HasGreatest
  <2>2. S!Newest(c) \in S!Of(c)
    BY <1>2, <2>1 DEF S!Newest
  <2> QED BY <1>1, <1>2, <2>2 DEF PhoneTimes
<1>3. CASE S!Of(c) = {}
  BY <1>1, <1>3 DEF S!Newest, PhoneTimes
<1> QED BY <1>2, <1>3

LEMMA CurrentIsThere ==
  ASSUME StoreInv, PassTypes, pass.todo # {} PROVE S!Current \in pass.todo
<1> DEFINE some == {pass.remote[c] : c \in pass.todo}
<1>1. Len(phone) \in Nat /\ some \subseteq 0..Len(phone) /\ some # {}
  BY DEF StoreInv, StoreShape, PassTypes, PhoneTimes
<1>2. \E m \in some : \A k \in some : k <= m
  <2> HIDE DEF some
  <2> QED BY <1>1, HasGreatest
<1>3. PICK c \in pass.todo : \A d \in pass.todo : pass.remote[d] <= pass.remote[c]
  BY <1>2
<1> QED BY <1>3 DEF S!Current

(* A message that is stored, or already is.                                *)
LEMMA HandleTyped ==
  ASSUME StoreInv, SyncTypes, NEW m \in OnPhone, NEW c \in Convs, NEW how \in {"live", "history"},
         S!Handle(m, c, how), phone' = phone
  PROVE  /\ FiledTypes' /\ RowTypes' /\ FiledThere'
         /\ \A d \in Convs : chat[d].exists => chat'[d].exists
<1>1. CASE S!Known(m)
  BY <1>1 DEF S!Handle, SyncTypes, FiledTypes, RowTypes, FiledThere, OnPhone, PhoneTimes, S!Known
<1>2. CASE ~S!Known(m)
  <2>1. /\ stored' = [stored EXCEPT ![m] = how] /\ filed' = [filed EXCEPT ![m] = c]
        /\ chat' = [chat EXCEPT ![c] = S!Touched(chat[c], m)]
    BY <1>2 DEF S!Handle
  <2>2. /\ Len(phone) \in Nat /\ DOMAIN stored = OnPhone /\ filed \in Seq(Convs) /\ Len(filed) = Len(phone)
        /\ DOMAIN filed = OnPhone
    BY DEF StoreInv, StoreShape, SyncTypes, FiledTypes, OnPhone
  <2>3. /\ filed' \in Seq(Convs) /\ Len(filed') = Len(phone)
        /\ \A k \in OnPhone : filed'[k] = IF k = m THEN c ELSE filed[k]
    BY <2>1, <2>2, ExceptSeq DEF OnPhone
  <2>4. /\ DOMAIN chat' = Convs /\ \A d \in Convs \ {c} : chat'[d] = chat[d]
        /\ chat'[c] = S!Touched(chat[c], m)
    BY <2>1 DEF SyncTypes, RowTypes
  <2>5. /\ chat'[c].exists
        /\ chat'[c].epoch \in {m, chat[c].epoch} /\ chat'[c].preview \in {m, chat[c].preview}
    BY <2>4 DEF S!Touched
  <2>6. m \in PhoneTimes
    BY <2>2 DEF OnPhone, PhoneTimes
  <2>7. RowTypes'
    <3>1. \A d \in Convs : chat'[d].epoch \in PhoneTimes /\ chat'[d].preview \in PhoneTimes
      BY <2>4, <2>5, <2>6 DEF SyncTypes, RowTypes
    <3> QED BY <2>4, <3>1 DEF RowTypes, PhoneTimes
  <2>8. \A k \in OnPhone : stored'[k] = IF k = m THEN how ELSE stored[k]
    BY <2>1, <2>2
  <2>9. ASSUME NEW k \in OnPhone, S!Known(k)' PROVE chat'[filed'[k]].exists
    <3>1. k # m => chat[filed[k]].exists /\ filed[k] \in Convs
      BY <2>2, <2>8, <2>9 DEF S!Known, SyncTypes, FiledThere, OnPhone
    <3> QED BY <2>3, <2>4, <2>5, <3>1
  <2>10. FiledThere' /\ FiledTypes'
    BY <2>3, <2>9 DEF FiledThere, FiledTypes, OnPhone
  <2> QED BY <2>4, <2>5, <2>7, <2>10
<1> QED BY <1>1, <1>2

(* A step that touches no message, and keeps every conversation.           *)
LEMMA RestTyped ==
  ASSUME SyncTypes, phone' = phone, \A d \in Convs : chat[d].exists => chat'[d].exists
  PROVE  /\ events' \subseteq events => (events \subseteq OnPhone)'
         /\ reader' = reader => ReaderTypes'
         /\ pass' = pass => PassTypes'
<1>1. SyncedChats \subseteq Convs
  BY DEF Convs, S!Conversations
<1>2. reader' = reader => ReaderTypes'
  BY DEF SyncTypes, ReaderTypes, OnPhone
<1>3. pass' = pass => PassTypes'
  BY <1>1 DEF SyncTypes, PassTypes, OnPhone, PhoneTimes
<1> QED BY <1>2, <1>3 DEF SyncTypes, OnPhone

LEMMA SyncArrives ==
  ASSUME StoreInv, SyncTypes, NEW c \in SyncedChats, NEW from \in {"customer", "phone"}, S!Arrives(c, from)
  PROVE  SyncTypes'
<1>1. /\ stored' = Append(stored, "no") /\ filed' = Append(filed, c)
      /\ phone' = Append(phone, [chat |-> c, from |-> from])
      /\ events' \subseteq events \cup {Len(phone) + 1} /\ UNCHANGED <<chat, pass, reader>>
  BY DEF S!Arrives
<1>2. /\ phone \in Seq(PhoneMessages) /\ stored \in Seq(Ways) /\ filed \in Seq(Convs) /\ Len(phone) \in Nat
      /\ Len(stored) = Len(phone) /\ Len(filed) = Len(phone) /\ c \in Convs
      /\ [chat |-> c, from |-> from] \in PhoneMessages /\ "no" \in Ways
  BY DEF StoreInv, StoreShape, SyncTypes, FiledTypes, PhoneMessages, Ways, Convs, S!Conversations
<1>3. /\ Len(phone') = Len(phone) + 1 /\ filed' \in Seq(Convs) /\ Len(filed') = Len(phone) + 1
      /\ stored'[Len(phone) + 1] = "no"
      /\ \A m \in OnPhone : filed'[m] = filed[m] /\ stored'[m] = stored[m]
  BY <1>1, <1>2, AppendProperties DEF OnPhone
<1>4. OnPhone' = OnPhone \cup {Len(phone) + 1} /\ PhoneTimes \subseteq PhoneTimes'
  BY <1>2, <1>3 DEF OnPhone, PhoneTimes
<1>5. FiledTypes' /\ RowTypes' /\ (events \subseteq OnPhone)'
  BY <1>1, <1>3, <1>4 DEF FiledTypes, SyncTypes, RowTypes
<1>6. FiledThere'
  BY <1>1, <1>3, <1>4 DEF SyncTypes, FiledThere, S!Known
<1>7. PassTypes' /\ ReaderTypes'
  BY <1>1, <1>4 DEF SyncTypes, PassTypes, ReaderTypes
<1> QED BY <1>5, <1>6, <1>7 DEF SyncTypes

LEMMA SyncStores ==
  ASSUME StoreInv, SyncTypes, (\E m \in events : S!Live(m)) \/ S!Store \/ S!Reads
  PROVE  SyncTypes'
<1> DEFINE Table == FiledTypes' /\ RowTypes' /\ FiledThere'
                    /\ \A d \in Convs : chat[d].exists => chat'[d].exists
<1>0. SyncedChats \subseteq Convs /\ Alias \in Convs /\ OnPhone \subseteq Nat
  BY DEF Convs, S!Conversations, OnPhone
<1>1. ASSUME NEW m \in events, S!Live(m) PROVE SyncTypes'
  <2>1. m \in OnPhone /\ events' \subseteq events /\ UNCHANGED <<phone, pass, reader>>
    BY <1>1 DEF S!Live, SyncTypes
  <2>2. phone[m].chat \in Convs
    <3>1. phone \in Seq(PhoneMessages) /\ m \in 1..Len(phone)
      BY <2>1 DEF StoreInv, StoreShape, OnPhone
    <3>2. phone[m] \in PhoneMessages
      BY <3>1
    <3> QED BY <1>0, <3>2 DEF PhoneMessages
  <2>3. PICK c \in Convs : S!Handle(m, c, "live")
    BY <1>0, <1>1, <2>2 DEF S!Live
  <2>4. Table
    BY <2>1, <2>3, HandleTyped
  <2> QED BY <2>1, <2>4, RestTyped DEF SyncTypes
<1>2. ASSUME S!Store PROVE SyncTypes'
  <2>1. /\ pass.at = "store" /\ pass.batch # {} /\ UNCHANGED <<phone, events, reader>>
        /\ S!Handle(S!Oldest(pass.batch), S!Current, "history")
        /\ pass' = [pass EXCEPT !.batch = pass.batch \ {S!Oldest(pass.batch)}]
    BY <1>2 DEF S!Store
  <2>2. pass.batch \subseteq OnPhone /\ PassTypes /\ pass.todo # {} /\ pass.todo \subseteq SyncedChats
    BY <2>1 DEF SyncTypes, PassTypes
  <2>3. PICK m \in OnPhone : m = S!Oldest(pass.batch)
    BY <1>0, <2>1, <2>2, OldestIsThere
  <2>4. PICK c \in Convs : c = S!Current
    BY <1>0, <2>2, CurrentIsThere
  <2>5. Table
    BY <2>1, <2>3, <2>4, HandleTyped
  <2>6. PassTypes'
    BY <1>0, <2>1, <2>2, <2>5 DEF PassTypes, OnPhone, PhoneTimes
  <2> QED BY <2>1, <2>5, <2>6, RestTyped DEF SyncTypes
<1>3. ASSUME S!Reads, reader.batch # {} PROVE SyncTypes'
  <2>1. /\ reader.at = "store" /\ UNCHANGED <<phone, events, pass>>
        /\ S!Handle(S!Oldest(reader.batch), reader.of, "history")
        /\ reader' = [reader EXCEPT !.batch = reader.batch \ {S!Oldest(reader.batch)}]
    BY <1>3 DEF S!Reads
  <2>2. reader.batch \subseteq OnPhone /\ reader.of \in Convs /\ ReaderTypes
    BY DEF SyncTypes, ReaderTypes
  <2>3. PICK m \in OnPhone : m = S!Oldest(reader.batch)
    BY <1>0, <1>3, <2>2, OldestIsThere
  <2>4. Table
    BY <2>1, <2>2, <2>3, HandleTyped
  <2>5. ReaderTypes'
    BY <2>1, <2>2, <2>4 DEF ReaderTypes, OnPhone
  <2> QED BY <2>1, <2>4, <2>5, RestTyped DEF SyncTypes
<1>4. ASSUME S!Reads, reader.batch = {} PROVE SyncTypes'
  <2>1. UNCHANGED <<phone, events, pass, stored, filed, chat>> /\ reader' = S!NoReader
    BY <1>4 DEF S!Reads
  <2>2. ReaderTypes'
    BY <1>0, <2>1 DEF S!NoReader, ReaderTypes
  <2> QED BY <2>1, <2>2, RestTyped DEF SyncTypes, FiledTypes, RowTypes, FiledThere, OnPhone, PhoneTimes, S!Known
<1> QED BY <1>1, <1>2, <1>3, <1>4

(* Messages that move to the chat they are read for.                       *)
LEMMA AdoptTyped ==
  ASSUME StoreInv, SyncTypes, NEW c \in Convs, chat[c].exists, NEW ids, S!Adopt(c, ids),
         UNCHANGED <<phone, stored, chat>>
  PROVE  FiledTypes' /\ RowTypes' /\ FiledThere'
<1>1. /\ filed \in Seq(Convs) /\ Len(filed) = Len(phone) /\ DOMAIN filed = OnPhone /\ Len(phone) \in Nat
      /\ \A m \in OnPhone : filed[m] \in Convs
  BY DEF StoreInv, StoreShape, SyncTypes, FiledTypes, OnPhone
<1>2. /\ DOMAIN filed' = OnPhone /\ \A m \in OnPhone : filed'[m] \in {c, filed[m]}
      /\ filed' = [m \in OnPhone |-> filed'[m]]
  BY <1>1 DEF S!Adopt
<1>3. filed' \in [1..Len(phone) -> Convs]
  BY <1>1, <1>2 DEF OnPhone
<1>4. filed' \in Seq(Convs) /\ Len(filed') = Len(phone)
  BY <1>1, <1>3, SeqDef
<1>5. FiledThere'
  BY <1>2 DEF SyncTypes, FiledThere, OnPhone, S!Known
<1> QED BY <1>4, <1>5 DEF SyncTypes, FiledTypes, RowTypes, PhoneTimes

LEMMA SyncMoves ==
  ASSUME StoreInv, SyncTypes,
         \/ S!Down \/ S!Up \/ S!CallFails
         \/ S!Pass /\ ~S!Store
         \/ \E c \in Convs : S!Opens(c)
  PROVE  SyncTypes'
<1>0. SyncedChats \subseteq Convs /\ Alias \in Convs /\ Len(phone) \in Nat /\ 0 \in PhoneTimes
  BY DEF Convs, S!Conversations, StoreInv, StoreShape, PhoneTimes
<1> DEFINE Stays == UNCHANGED <<phone, stored, filed, chat>>
<1>1. Stays => FiledTypes' /\ RowTypes' /\ FiledThere'
  BY DEF SyncTypes, FiledTypes, RowTypes, FiledThere, OnPhone, PhoneTimes, S!Known
<1>2. ASSUME Stays, events' \subseteq events, reader' = reader, PassTypes' PROVE SyncTypes'
  BY <1>1, <1>2, RestTyped DEF SyncTypes
<1>3. pass' = S!Idle => PassTypes'
  BY <1>0, SMTT(60) DEF S!Idle, PassTypes, PhoneTimes
<1>4. ASSUME S!Down PROVE SyncTypes'
  <2>1. Stays /\ events' = {} /\ pass' = S!Idle /\ reader' = S!NoReader
    BY <1>4 DEF S!Down
  <2>2. ReaderTypes'
    BY <1>0, <2>1 DEF S!NoReader, ReaderTypes
  <2> QED BY <1>1, <1>3, <2>1, <2>2 DEF SyncTypes
<1>5. ASSUME S!Up PROVE SyncTypes'
  <2>1. Stays /\ UNCHANGED <<events, pass, reader>>
    BY <1>5 DEF S!Up
  <2> QED BY <1>2, <2>1, RestTyped
<1>6. ASSUME S!PassBegins PROVE SyncTypes'
  <2> DEFINE was == [c \in SyncedChats |-> IF chat[c].exists THEN chat[c].epoch ELSE 0]
  <2>1. Stays /\ UNCHANGED <<events, reader>> /\ pass' = [pass EXCEPT !.at = "list", !.known = was]
    BY <1>6 DEF S!PassBegins
  <2>2. DOMAIN was = SyncedChats /\ \A c \in SyncedChats : was[c] \in PhoneTimes
    BY <1>0 DEF SyncTypes, RowTypes
  <2> HIDE DEF was
  <2>3. PassTypes'
    BY <2>1, <2>2 DEF SyncTypes, PassTypes, OnPhone, PhoneTimes
  <2> QED BY <1>2, <2>1, <2>3
<1>7. ASSUME S!Listed PROVE SyncTypes'
  <2> DEFINE news == [c \in SyncedChats |-> S!Newest(c)]
             some == {c \in SyncedChats : S!Of(c) # {}}
  <2>1. Stays /\ UNCHANGED <<events, reader>>
        /\ pass' = [pass EXCEPT !.at = "merge", !.remote = news, !.todo = some]
    BY <1>7 DEF S!Listed
  <2>2. /\ DOMAIN news = SyncedChats /\ \A c \in SyncedChats : news[c] \in PhoneTimes
        /\ \A c \in SyncedChats : news[c] > 0 => c \in some
        /\ some \subseteq SyncedChats
    BY NewestIsTime DEF PhoneTimes
  <2> HIDE DEF news, some
  <2>3. PassTypes'
    BY <2>1, <2>2 DEF SyncTypes, PassTypes, OnPhone, PhoneTimes
  <2> QED BY <1>2, <2>1, <2>3
<1>8. ASSUME S!Merge PROVE SyncTypes'
  <2>1. PICK c \in pass.todo : /\ chat' = [chat EXCEPT ![c] = S!Touched(chat[c], pass.remote[c])]
                               /\ pass' = [pass EXCEPT !.todo = pass.todo \ {c}]
    BY <1>8 DEF S!Merge, S!Merged
  <2>2. pass.at = "merge" /\ UNCHANGED <<phone, events, stored, filed, reader>>
    BY <1>8 DEF S!Merge
  <2>3. c \in SyncedChats /\ c \in Convs /\ pass.remote[c] \in PhoneTimes
    BY <1>0 DEF SyncTypes, PassTypes
  <2>4. /\ DOMAIN chat' = Convs /\ chat'[c] = S!Touched(chat[c], pass.remote[c])
        /\ \A d \in Convs \ {c} : chat'[d] = chat[d]
    BY <2>1, <2>3 DEF SyncTypes, RowTypes
  <2>5. /\ chat'[c].exists
        /\ chat'[c].epoch \in {pass.remote[c], chat[c].epoch}
        /\ chat'[c].preview \in {pass.remote[c], chat[c].preview}
    BY <2>4 DEF S!Touched
  <2>6. \A d \in Convs : chat[d].exists => chat'[d].exists
    BY <2>4, <2>5
  <2>7. RowTypes'
    <3>1. \A d \in Convs : chat'[d].epoch \in PhoneTimes /\ chat'[d].preview \in PhoneTimes
      BY <2>3, <2>4, <2>5 DEF SyncTypes, RowTypes
    <3> QED BY <2>2, <2>4, <3>1 DEF RowTypes, PhoneTimes
  <2>8. FiledTypes' /\ FiledThere'
    <3>1. \A m \in OnPhone : filed[m] \in Convs
      BY DEF SyncTypes, FiledTypes, OnPhone
    <3> QED BY <2>2, <2>6, <3>1 DEF SyncTypes, FiledTypes, FiledThere, OnPhone, S!Known
  <2>9. PassTypes'
    BY <1>0, <2>1, <2>2, <2>3, <2>5, <2>6 DEF SyncTypes, PassTypes, OnPhone, PhoneTimes
  <2> QED BY <2>2, <2>6, <2>7, <2>8, <2>9, RestTyped DEF SyncTypes
<1>9. ASSUME S!Chosen PROVE SyncTypes'
  <2>1. Stays /\ UNCHANGED <<events, reader>> /\ pass.at = "merge" /\ pass.todo = {}
        /\ pass' = [pass EXCEPT !.at = "chats", !.todo = S!Pending]
    BY <1>9 DEF S!Chosen
  <2>2. ASSUME NEW c \in S!Pending PROVE c \in SyncedChats /\ chat[c].exists
    <3>1. c \in SyncedChats /\ pass.remote[c] > pass.known[c]
      BY <2>2 DEF S!Pending
    <3>2. pass.remote[c] > 0
      BY <1>0, <3>1 DEF SyncTypes, PassTypes, PhoneTimes
    <3> QED BY <2>1, <3>1, <3>2 DEF SyncTypes, PassTypes
  <2>3. PICK pending : pending = S!Pending
    OBVIOUS
  <2>4. PassTypes'
    BY <2>1, <2>2, <2>3 DEF SyncTypes, PassTypes, OnPhone, PhoneTimes
  <2> QED BY <1>2, <2>1, <2>4
<1>10. ASSUME S!ReadHistory PROVE SyncTypes'
  <2>1. PICK c, h : /\ c = S!Current /\ h = S!History(c, MessageLimit)
    OBVIOUS
  <2>2. /\ pass.at = "chats" /\ pass.todo # {} /\ S!Adopt(c, h) /\ pass' = [pass EXCEPT !.at = "store", !.batch = h]
        /\ UNCHANGED <<phone, events, stored, chat, reader>>
    BY <1>10, <2>1 DEF S!ReadHistory
  <2>3. h \subseteq OnPhone
    BY <2>1 DEF S!History, S!Of, S!Messages, OnPhone
  <2>4. c \in pass.todo /\ c \in Convs /\ chat[c].exists
    BY <1>0, <2>1, <2>2, CurrentIsThere DEF SyncTypes, PassTypes
  <2>5. PassTypes'
    BY <2>2, <2>3 DEF SyncTypes, PassTypes, OnPhone, PhoneTimes
  <2> QED BY <2>2, <2>4, <2>5, AdoptTyped, RestTyped DEF SyncTypes
<1>11. ASSUME S!ChatDone \/ (S!CallFails /\ pass.at = "chats") PROVE SyncTypes'
  <2>1. /\ Stays /\ UNCHANGED <<events, reader>> /\ pass.at \in {"chats", "store"}
        /\ \E some \in SUBSET pass.todo : pass' = [pass EXCEPT !.at = "chats", !.todo = some]
    <3>1. CASE S!ChatDone
      BY <3>1 DEF S!ChatDone
    <3>2. CASE S!CallFails /\ pass.at = "chats"
      <4>1. pass' = [pass EXCEPT !.todo = pass.todo \ {S!Current}] /\ Stays /\ UNCHANGED <<events, reader>>
        BY <3>2 DEF S!CallFails
      <4>2. pass' = [pass EXCEPT !.at = "chats", !.todo = pass.todo \ {S!Current}]
        BY <3>2, <4>1 DEF SyncTypes, PassTypes
      <4> QED BY <3>2, <4>1, <4>2
    <3> QED BY <1>11, <3>1, <3>2
  <2>2. PassTypes'
    BY <2>1 DEF SyncTypes, PassTypes, OnPhone, PhoneTimes
  <2> QED BY <1>2, <2>1, <2>2
<1>12. ASSUME S!PassEnds \/ (S!CallFails /\ pass.at = "list") PROVE SyncTypes'
  <2>1. Stays /\ UNCHANGED <<events, reader>> /\ pass' = S!Idle
    BY <1>12 DEF S!PassEnds, S!CallFails
  <2> QED BY <1>2, <1>3, <2>1
<1>13. ASSUME NEW c \in Convs, S!Opens(c) PROVE SyncTypes'
  <2>1. PICK h : h = IF c = Alias THEN {} ELSE S!History(c, Len(phone))
    OBVIOUS
  <2>2. /\ chat[c].exists /\ S!Adopt(c, h) /\ reader' = [at |-> "store", of |-> c, batch |-> h]
        /\ UNCHANGED <<phone, events, stored, chat, pass>>
    BY <1>13, <2>1 DEF S!Opens
  <2>3. h \subseteq OnPhone
    BY <2>1 DEF S!History, S!Of, S!Messages, OnPhone
  <2>4. ReaderTypes'
    BY <2>2, <2>3 DEF ReaderTypes, OnPhone
  <2> QED BY <2>2, <2>4, AdoptTyped, RestTyped DEF SyncTypes
<1>14. S!CallFails => pass.at \in {"list", "chats"}
  BY DEF S!CallFails
<1> QED BY <1>4, <1>5, <1>6, <1>7, <1>8, <1>9, <1>10, <1>11, <1>12, <1>13, <1>14 DEF S!Pass

LEMMA SyncTyped ==
  /\ S!Init => SyncTypes
  /\ StoreInv /\ SyncTypes /\ [S!Next]_(S!vars) => SyncTypes'
  /\ StoreInv /\ SyncTypes => S!TypeOK
<1>1. ASSUME S!Init PROVE SyncTypes
  <2>1. /\ Len(phone) = 0 /\ filed \in Seq(Convs) /\ Len(filed) = 0 /\ OnPhone = {} /\ 0 \in PhoneTimes
        /\ Alias \in Convs /\ SyncedChats \subseteq Convs
    BY <1>1, EmptySeq DEF S!Init, OnPhone, PhoneTimes, Convs, S!Conversations
  <2>2. RowTypes
    BY <1>1, <2>1 DEF S!Init, S!NoRow, RowTypes, Convs
  <2>3. PassTypes /\ ReaderTypes
    BY <1>1, <2>1 DEF S!Init, S!Idle, S!NoReader, PassTypes, ReaderTypes
  <2> QED BY <1>1, <2>1, <2>2, <2>3 DEF S!Init, SyncTypes, FiledTypes, FiledThere
<1>2. ASSUME StoreInv, SyncTypes, S!Next PROVE SyncTypes'
  BY <1>2, SyncArrives, SyncStores, SyncMoves DEF S!Next, Convs, S!Pass
<1>3. ASSUME SyncTypes, UNCHANGED S!vars PROVE SyncTypes'
  BY <1>3 DEF S!vars, SyncTypes, FiledTypes, RowTypes, FiledThere, PassTypes, ReaderTypes, OnPhone, PhoneTimes, S!Known
<1>4. ASSUME StoreInv, SyncTypes PROVE S!TypeOK
  <2>1. \A m \in OnPhone : stored[m] \in {"no", "live", "history"} /\ filed[m] \in Convs
    BY <1>4 DEF StoreInv, StoreShape, SyncTypes, FiledTypes, Ways, OnPhone
  <2> QED BY <1>4, <2>1 DEF S!TypeOK, StoreInv, StoreShape, SyncTypes, FiledTypes, RowTypes, FiledThere,
                            S!Messages, OnPhone, PhoneTimes, Convs
<1> QED BY <1>1, <1>2, <1>3, <1>4

-----------------------------------------------------------------------------
(* Whichever part runs.                                                   *)

Parts == {"viewing", "sync", "view", "waiting", "preparation", "media", "realtime", "sales", "team", "followUp",
          "label", "listing"}

(* Each part's own invariant, with the values its variables have, and what *)
(* it promises.                                                            *)
LEMMA PartsTyped ==
  ASSUME part = "sync" => StoreInv /\ SyncTypes,
         part = "waiting" => AutoInv /\ WaitTypes,
         part = "preparation" => PrepInv /\ PrepTypes,
         part = "followUp" => RemindInv /\ FollowTypes,
         part = "label" => TagInv /\ TagTypes,
         part = "view" => ViewInv, part = "media" => LoadInv,
         part = "realtime" => LiveTypes, part = "sales" => SaleTypes,
         part = "team" => TeamTypes, part = "listing" => ListingTypes,
         part = "viewing" => TypeOK, part \in Parts
  PROVE  TypeOKMC
<1>1. ViewInv => V!TypeOK
  BY DEF ViewInv, ViewTypes, ViewTimes, V!TypeOK
<1>2. LoadInv => M!TypeOK
  BY DEF LoadInv, LoadTypes, LoadsOf, M!TypeOK
<1>3. /\ part = "viewing" => TypeOK
      /\ part = "sync" => S!TypeOK
      /\ part = "view" => V!TypeOK
      /\ part = "waiting" => W!TypeOK
      /\ part = "preparation" => P!TypeOK
      /\ part = "media" => M!TypeOK
      /\ part = "realtime" => R!TypeOK
      /\ part = "sales" => D!TypeOK
      /\ part = "team" => A!TypeOK
      /\ part = "followUp" => F!TypeOK
      /\ part = "label" => T!TypeOK
      /\ part = "listing" => H!TypeOK
  BY <1>1, <1>2, SyncTyped, WaitTyped, PrepTyped, FollowTyped, TagsTyped, LiveTyped, SaleTyped, TeamTyped, ListingTyped
<1>4. CASE part = "viewing"
  BY <1>3, <1>4 DEF TypeOKMC
<1>5. CASE part = "sync"
  BY <1>3, <1>5 DEF TypeOKMC
<1>6. CASE part = "view"
  BY <1>3, <1>6 DEF TypeOKMC
<1>7. CASE part = "waiting"
  BY <1>3, <1>7 DEF TypeOKMC
<1>8. CASE part = "preparation"
  BY <1>3, <1>8 DEF TypeOKMC
<1>9. CASE part = "media"
  BY <1>3, <1>9 DEF TypeOKMC
<1>10. CASE part = "realtime"
  BY <1>3, <1>10 DEF TypeOKMC
<1>11. CASE part = "sales"
  BY <1>3, <1>11 DEF TypeOKMC
<1>12. CASE part = "team"
  BY <1>3, <1>12 DEF TypeOKMC
<1>13. CASE part = "followUp"
  BY <1>3, <1>13 DEF TypeOKMC
<1>14. CASE part = "label"
  BY <1>3, <1>14 DEF TypeOKMC
<1>15. CASE part = "listing"
  BY <1>3, <1>15 DEF TypeOKMC
<1> QED BY <1>4, <1>5, <1>6, <1>7, <1>8, <1>9, <1>10, <1>11, <1>12, <1>13, <1>14, <1>15 DEF Parts

(* Whichever part runs keeps its types, for any customers, agents, rows    *)
(* and bounds: what a request, a job or a browser read earlier and acts on *)
(* now is of the kind it was, however old it is, and no counter runs past  *)
(* what there is to count.                                                 *)
THEOREM TypeOKMCHolds == SpecMC => []TypeOKMC
<1> DEFINE Inv == /\ part \in Parts
                  /\ IInv
                  /\ part = "sync" => StoreInv /\ SyncTypes
                  /\ part = "waiting" => AutoInv /\ WaitTypes
                  /\ part = "preparation" => PrepInv /\ PrepTypes
                  /\ part = "followUp" => RemindInv /\ FollowTypes
                  /\ part = "label" => TagInv /\ TagTypes
                  /\ part = "view" => ViewInv
                  /\ part = "media" => LoadInv
                  /\ part = "realtime" => LiveTypes
                  /\ part = "sales" => SaleTypes
                  /\ part = "team" => TeamTypes
                  /\ part = "listing" => ListingTypes
<1>1. InitMC => Inv
  <2> SUFFICES ASSUME InitMC PROVE Inv
    OBVIOUS
  <2>1. part \in Parts /\ IInv
    BY IInvInit, PartInit DEF InitMC, Parts
  <2> QED BY <2>1, PartInit, StoreInit, SyncTyped, AutoInit, WaitTyped, PrepInit, PrepTyped, RemindInit, FollowTyped,
             TagsInit, TagsTyped, ViewInit, LoadInit, LiveTyped, SaleTyped, TeamTyped, ListingTyped
<1>2. Inv /\ [NextMC]_all => Inv'
  <2> SUFFICES ASSUME Inv, [NextMC]_all PROVE Inv'
    OBVIOUS
  <2>1. [Next]_vars
    BY DEF NextMC, all, viewing, vars
  <2>2. part' \in Parts /\ IInv'
    BY <2>1, PartStep, IInvNext
  <2> QED BY <2>2, PartStep, StoreNext, SyncTyped, AutoNext, WaitTyped, PrepNext, PrepTyped, RemindNext, FollowTyped,
             TagsNext, TagsTyped, ViewNext, LoadNext, LiveTyped, SaleTyped, TeamTyped, ListingTyped
<1>3. Inv => TypeOKMC
  BY PartsTyped DEF IInv
<1> HIDE DEF Inv
<1> QED BY <1>1, <1>2, <1>3, PTL DEF SpecMC
=============================================================================
