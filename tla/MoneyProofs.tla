---------------------- MODULE MoneyProofs ----------------------
(***************************************************************************)
(* Proofs about money: PaymentSettlement, for any number of orders,        *)
(* payments and callers, and then the parts that MCMoney runs beside it,   *)
(* for any values of its constants.                                        *)
(***************************************************************************)
EXTENDS MCMoney, TLAPS

Kinds == {"new", "renewal", "change"}
Jobs == {"none", "checkout", "webhook", "verify", "check"}
OrderType == [status : OrderStatuses, gid : BOOLEAN, plan : Plans \cup {0},
              kind : Kinds, start : Nat, checked : BOOLEAN]
PayType == [status : PayStatuses, order : Orders \cup {None}]
CallType == [pc : Pcs, job : Jobs, order : Orders \cup {None}, pay : Payments \cup {None},
             event : PayStatuses, seen : PayStatuses,
             todo : SUBSET (Payments \X PayStatuses)]
RowType == [order : Orders, pay : Payments, plan : Plans \cup {0}, end : Nat]

(* TypeOK, one variable at a time.                                         *)
OrderOK == order \in [Orders -> OrderType]
PayOK == /\ pay \in [Payments -> PayType]
         /\ \A p \in Payments : pay[p].status # "none" => pay[p].order \in Orders
CallOK == call \in [Callers -> CallType]
BooksOK == company \in [plan : Plans \cup {0}, end : Nat] /\ ledger \in Seq(RowType)
RestOK == /\ age \in [Orders -> {"fresh", "past", "closed"}]
          /\ handled \subseteq Payments \X PayStatuses
          /\ today \in Nat /\ crashes \in Nat

LEMMA TypeParts == TypeOK <=> OrderOK /\ PayOK /\ CallOK /\ BooksOK /\ RestOK
<1> USE DEF OrderType, PayType, CallType, RowType, Kinds, Jobs
<1>1. TypeOK => OrderOK /\ PayOK
  BY DEF TypeOK, OrderOK, PayOK
<1>2. TypeOK => CallOK
  BY DEF TypeOK, CallOK
<1>3. TypeOK => BooksOK /\ RestOK
  BY DEF TypeOK, BooksOK, RestOK
<1>4. OrderOK /\ PayOK /\ CallOK /\ BooksOK /\ RestOK => TypeOK
  BY DEF TypeOK, OrderOK, PayOK, CallOK, BooksOK, RestOK
<1> QED BY <1>1, <1>2, <1>3, <1>4

LEMMA TypePartsNext == TypeOK' <=> OrderOK' /\ PayOK' /\ CallOK' /\ BooksOK' /\ RestOK'
  BY TypeParts, PTL

-----------------------------------------------------------------------------
(* What a call under way may rely on.                                      *)
Paying == {"fetch", "capture", "settle", "mark"}

Sound(c) ==
  /\ call[c].pc \in Paying =>
       /\ call[c].pay \in Payments /\ call[c].order \in Orders
       /\ pay[call[c].pay].status # "none" /\ pay[call[c].pay].order = call[c].order
       /\ call[c].job \in {"webhook", "verify", "check"}
  /\ call[c].pc \in {"create", "list"} => call[c].order \in Orders
  /\ call[c].pc = "fetch" => call[c].event = "none" /\ call[c].job = "verify"
  /\ call[c].pc = "capture" => call[c].seen = "authorized" /\ call[c].event # "captured"
  /\ call[c].pc = "settle" =>
       /\ call[c].seen # "none"
       /\ call[c].seen = "captured" => pay[call[c].pay].status = "captured"
       /\ call[c].event = "captured" => call[c].seen = "captured"
  /\ call[c].pc = "mark" /\ call[c].event = "captured" => Settled(call[c].order)
  /\ call[c].pc = "list" => order[call[c].order].gid
  /\ call[c].job = "check" => call[c].event = "none"
  /\ call[c].pc = "list" => call[c].job = "check"
  /\ \A x \in call[c].todo :
       /\ pay[x[1]].status # "none" /\ pay[x[1]].order = call[c].order
       /\ x[2] \in {"authorized", "captured"}
       /\ x[2] = "captured" => pay[x[1]].status = "captured"

(* An order the gateway does not know is not paid, listed or closed, and   *)
(* belongs to the one call that makes it.                                  *)
Unknown ==
  /\ \A o \in Orders : ~order[o].gid =>
       /\ order[o].status \in {"none", "created", "failed"} /\ ~order[o].checked
       /\ \A p \in Payments : pay[p].order # o
  /\ \A o \in Orders : order[o].status = "none" => ~order[o].gid
  /\ \A c \in Callers : call[c].pc = "create" =>
       /\ call[c].order \in Orders
       /\ ~order[call[c].order].gid /\ order[call[c].order].status # "none"
  /\ \A c, d \in Callers :
       call[c].pc = "create" /\ call[d].pc = "create" /\ call[c].order = call[d].order => c = d

CallsInv == Unknown /\ \A c \in Callers : Sound(c)

-----------------------------------------------------------------------------
(* What every step leaves alone.                                           *)
Grows ==
  /\ \A o \in Orders : /\ order[o].gid => order'[o].gid
                       /\ Settled(o) => order'[o].status = order[o].status
  /\ \A p \in Payments :
       /\ pay[p].status # "none" => pay'[p].status # "none" /\ pay'[p].order = pay[p].order
       /\ pay[p].status = "captured" => pay'[p].status = "captured"

(* A step that neither makes an order nor makes it known to the gateway.   *)
CalmOrders ==
  \A o \in Orders : /\ order'[o].gid = order[o].gid
                    /\ ~order[o].gid => order'[o] = order[o]
                    /\ order[o].gid => order'[o].status # "none"
CalmPays ==
  \A p \in Payments :
    \/ pay'[p].order = pay[p].order
    \/ pay'[p].order \in Orders /\ order[pay'[p].order].gid
CalmCalls == \A c \in Callers : call'[c].pc = "create" => call'[c] = call[c]

Calm == CalmOrders /\ CalmPays /\ CalmCalls

LEMMA UnknownCalm == ASSUME Unknown, Calm PROVE Unknown'
<1>1. \A o \in Orders : ~order'[o].gid =>
        /\ order'[o].status \in {"none", "created", "failed"} /\ ~order'[o].checked
        /\ \A p \in Payments : pay'[p].order # o
  BY DEF Unknown, Calm, CalmOrders, CalmPays, CalmCalls
<1>2. \A o \in Orders : order'[o].status = "none" => ~order'[o].gid
  BY DEF Unknown, Calm, CalmOrders, CalmPays, CalmCalls
<1>3. \A c \in Callers : call'[c].pc = "create" =>
        /\ call'[c].order \in Orders
        /\ ~order'[call'[c].order].gid /\ order'[call'[c].order].status # "none"
  BY DEF Unknown, Calm, CalmOrders, CalmPays, CalmCalls
<1>4. \A c, d \in Callers :
        call'[c].pc = "create" /\ call'[d].pc = "create" /\ call'[c].order = call'[d].order => c = d
  BY DEF Unknown, Calm, CalmOrders, CalmPays, CalmCalls
<1> QED BY <1>1, <1>2, <1>3, <1>4 DEF Unknown

LEMMA SoundStays == ASSUME TypeOK, Grows, NEW c \in Callers, Sound(c), call'[c] = call[c]
                    PROVE  Sound(c)'
<1>1. \A x \in call[c].todo : x[1] \in Payments
  BY TypeParts DEF CallOK, CallType
<1>2. \A x \in call[c].todo :
        /\ pay'[x[1]].status # "none" /\ pay'[x[1]].order = call[c].order
        /\ x[2] \in {"authorized", "captured"}
        /\ x[2] = "captured" => pay'[x[1]].status = "captured"
  BY <1>1 DEF Sound, Grows
<1>3. call[c].pc \in Paying =>
        pay'[call[c].pay].status # "none" /\ pay'[call[c].pay].order = call[c].order
  BY DEF Sound, Grows
<1>4. call[c].pc = "settle" /\ call[c].seen = "captured" => pay'[call[c].pay].status = "captured"
  BY DEF Sound, Grows, Paying
<1>5. call[c].pc = "mark" /\ call[c].event = "captured" =>
        order'[call[c].order].status \in {"paid", "mismatch"}
  BY DEF Sound, Grows, Paying, Settled
<1>6. call[c].pc = "list" => order'[call[c].order].gid
  BY DEF Sound, Grows
<1> QED BY <1>2, <1>3, <1>4, <1>5, <1>6 DEF Sound, Settled

LEMMA SoundIdle == ASSUME NEW c \in Callers, call'[c] = Idle PROVE Sound(c)'
  BY DEF Sound, Idle, Paying

(* One caller moves, in a step that leaves the rest alone.                 *)
LEMMA CallerMoves ==
  ASSUME TypeOK, CallsInv, Grows, Calm, NEW c \in Callers, Sound(c)',
         \A d \in Callers \ {c} : call'[d] = call[d]
  PROVE  CallsInv'
<1>1. Unknown'
  BY UnknownCalm DEF CallsInv
<1>2. ASSUME NEW d \in Callers PROVE Sound(d)'
  <2>1. CASE d = c
    BY <2>1
  <2>2. CASE d # c
    BY <2>2, SoundStays DEF CallsInv
  <2> QED BY <2>1, <2>2
<1> QED BY <1>1, <1>2 DEF CallsInv

(* No caller moves.                                                        *)
LEMMA NobodyMoves == ASSUME TypeOK, CallsInv, Grows, Calm, UNCHANGED call PROVE CallsInv'
<1>1. Unknown'
  BY UnknownCalm DEF CallsInv
<1>2. \A d \in Callers : Sound(d)'
  BY SoundStays DEF CallsInv
<1> QED BY <1>1, <1>2 DEF CallsInv

-----------------------------------------------------------------------------
(* The small assignments.                                                  *)
LEMMA IdleType == Idle \in CallType
  BY DEF Idle, CallType, Pcs, Jobs, PayStatuses

LEMMA BecomeFacts ==
  ASSUME CallOK, NEW c \in Callers, NEW s \in CallType, Become(c, s)
  PROVE  CallOK' /\ call'[c] = s /\ \A d \in Callers \ {c} : call'[d] = call[d]
  BY DEF CallOK, Become

LEMMA GotoFacts ==
  ASSUME CallOK, NEW c \in Callers, NEW pc \in Pcs, Goto(c, pc)
  PROVE  /\ CallOK' /\ \A d \in Callers \ {c} : call'[d] = call[d]
         /\ call'[c].pc = pc /\ call'[c].job = call[c].job
         /\ call'[c].order = call[c].order /\ call'[c].pay = call[c].pay
         /\ call'[c].event = call[c].event /\ call'[c].seen = call[c].seen
         /\ call'[c].todo = call[c].todo
<1>1. call[c] \in CallType
  BY DEF CallOK
<1>2. [call[c] EXCEPT !.pc = pc] \in CallType
  BY <1>1 DEF CallType
<1>3. call' = [call EXCEPT ![c] = [call[c] EXCEPT !.pc = pc]]
  BY DEF Goto
<1>4. CallOK' /\ call'[c] = [call[c] EXCEPT !.pc = pc] /\ \A d \in Callers \ {c} : call'[d] = call[d]
  BY <1>2, <1>3 DEF CallOK
<1> QED BY <1>1, <1>4 DEF CallType

LEMMA SetStatusFacts ==
  ASSUME OrderOK, NEW o \in Orders, NEW s \in OrderStatuses, SetStatus(o, s)
  PROVE  /\ OrderOK' /\ \A q \in Orders \ {o} : order'[q] = order[q]
         /\ order'[o].status = s /\ order'[o].gid = order[o].gid
         /\ order'[o].kind = order[o].kind /\ order'[o].plan = order[o].plan
<1>1. order[o] \in OrderType
  BY DEF OrderOK
<1>2. [order[o] EXCEPT !.status = s] \in OrderType
  BY <1>1 DEF OrderType
<1>3. order' = [order EXCEPT ![o] = [order[o] EXCEPT !.status = s]]
  BY DEF SetStatus
<1>4. OrderOK' /\ order'[o] = [order[o] EXCEPT !.status = s] /\ \A q \in Orders \ {o} : order'[q] = order[q]
  BY <1>2, <1>3 DEF OrderOK
<1> QED BY <1>1, <1>4 DEF OrderType

-----------------------------------------------------------------------------
(* The steps that touch nothing but one call, and what no invariant reads. *)
LEMMA RestStays == ASSUME RestOK, UNCHANGED <<handled, crashes, clock>> PROVE RestOK'
  BY DEF RestOK, clock

LEMMA CallAndRest ==
  ASSUME TypeOK, CallsInv, NEW c \in Callers, CallOK', RestOK', UNCHANGED <<order, pay, books>>,
         Sound(c)', call'[c].pc # "create", \A d \in Callers \ {c} : call'[d] = call[d]
  PROVE  TypeOK' /\ CallsInv' /\ Grows
<1>1. Grows
  BY DEF Grows
<1>2. Calm
  BY DEF Calm, CalmOrders, CalmPays, CalmCalls, CallsInv, Unknown
<1>3. CallsInv'
  BY <1>1, <1>2, CallerMoves
<1>4. OrderOK' /\ PayOK' /\ BooksOK'
  BY TypeParts DEF OrderOK, PayOK, BooksOK, books
<1> QED BY <1>1, <1>3, <1>4, TypePartsNext

LEMMA CallOnly ==
  ASSUME TypeOK, CallsInv, NEW c \in Callers, CallOK', UNCHANGED <<order, handled, crashes, pay, clock, books>>,
         Sound(c)', call'[c].pc # "create", \A d \in Callers \ {c} : call'[d] = call[d]
  PROVE  TypeOK' /\ CallsInv' /\ Grows
  BY CallAndRest, RestStays, TypeParts

LEMMA IdleFields == /\ Idle.pc = "idle" /\ Idle.job = "none" /\ Idle.order = None /\ Idle.pay = None
                    /\ Idle.event = "none" /\ Idle.seen = "none" /\ Idle.todo = {}
  BY DEF Idle

LEMMA ReceiveStep ==
  ASSUME TypeOK, CallsInv, NEW c \in Callers, NEW e \in Sent, Receive(c, e)
  PROVE  TypeOK' /\ CallsInv' /\ Grows
<1> DEFINE s == [Idle EXCEPT !.pc = IF e[2] = "authorized" THEN "capture" ELSE "settle",
                             !.job = "webhook", !.order = pay[e[1]].order, !.pay = e[1],
                             !.event = e[2], !.seen = e[2]]
<1>1. /\ e[1] \in Payments /\ e[2] \in PayStatuses /\ e[2] # "none"
      /\ pay[e[1]].status # "none" /\ pay[e[1]].order \in Orders
      /\ e[2] = "captured" => pay[e[1]].status = "captured"
  BY TypeParts DEF Sent, PayOK, PayType, PayStatuses
<1>2. Become(c, s)
  BY DEF Receive
<1>3. /\ s.pc = (IF e[2] = "authorized" THEN "capture" ELSE "settle") /\ s.job = "webhook"
      /\ s.order = pay[e[1]].order /\ s.pay = e[1] /\ s.event = e[2] /\ s.seen = e[2] /\ s.todo = {}
  BY IdleType, IdleFields DEF CallType
<1>4. s \in CallType
  BY <1>1, IdleType DEF CallType, Pcs, Jobs
<1> HIDE DEF s
<1>5. CallOK' /\ call'[c] = s /\ \A d \in Callers \ {c} : call'[d] = call[d]
  BY <1>2, <1>4, BecomeFacts, TypeParts
<1>6. UNCHANGED <<order, handled, crashes, pay, clock, books>>
  BY DEF Receive
<1>7. Sound(c)' /\ call'[c].pc # "create"
  BY <1>1, <1>3, <1>5, <1>6 DEF Sound, Paying
<1> QED BY <1>5, <1>6, <1>7, CallOnly

LEMMA FetchStep ==
  ASSUME TypeOK, CallsInv, NEW c \in Callers, Fetch(c)
  PROVE  TypeOK' /\ CallsInv' /\ Grows
<1> DEFINE status == pay[call[c].pay].status
           s == [call[c] EXCEPT !.pc = IF status = "authorized" THEN "capture" ELSE "settle",
                                !.seen = status]
<1>1. call[c].pc = "fetch" /\ UNCHANGED <<order, handled, crashes, pay, clock, books>>
  BY DEF Fetch
<1>2. call[c] \in CallType /\ Sound(c)
  BY TypeParts DEF CallOK, CallsInv
<1>3. status \in PayStatuses /\ status # "none"
  BY <1>1, <1>2, TypeParts DEF PayOK, PayType, Sound, Paying
<1>4. CASE Become(c, s)
  <2>1. s \in CallType
    BY <1>2, <1>3 DEF CallType, Pcs
  <2>2. CallOK' /\ call'[c] = s /\ \A d \in Callers \ {c} : call'[d] = call[d]
    BY <1>4, <2>1, BecomeFacts, TypeParts
  <2>3. /\ s.pc = (IF status = "authorized" THEN "capture" ELSE "settle") /\ s.seen = status
        /\ s.job = call[c].job /\ s.order = call[c].order /\ s.pay = call[c].pay
        /\ s.event = call[c].event /\ s.todo = call[c].todo
    BY <1>2 DEF CallType
  <2>4. Sound(c)'
    BY <1>1, <1>2, <1>3, <2>2, <2>3 DEF Sound, Paying
  <2> HIDE DEF s
  <2> QED BY <1>1, <2>2, <2>3, <2>4, CallOnly
<1>5. CASE Become(c, Idle)
  BY <1>1, <1>5, BecomeFacts, IdleType, SoundIdle, CallOnly, TypeParts DEF Idle
<1> QED BY <1>4, <1>5 DEF Fetch

LEMMA CheckStep ==
  ASSUME TypeOK, CallsInv, NEW o \in Orders, Check(o)
  PROVE  TypeOK' /\ CallsInv' /\ Grows
<1> DEFINE todo == {<<p, pay[p].status>> : p \in {q \in Payments : /\ pay[q].order = o
                                                             /\ pay[q].status \in {"authorized", "captured"}}}
           s == [Idle EXCEPT !.pc = "list", !.job = "check", !.order = o, !.todo = todo]
<1>1. Pump \in Callers /\ UNCHANGED <<order, handled, crashes, pay, clock, books>>
  BY DEF Check, Callers
<1>2. Become(Pump, s)
  BY DEF Check
<1>3. todo \in SUBSET (Payments \X PayStatuses)
  BY TypeParts DEF PayOK, PayType
<1>4. \A x \in todo :
        /\ pay[x[1]].status # "none" /\ pay[x[1]].order = o
        /\ x[2] \in {"authorized", "captured"}
        /\ x[2] = "captured" => pay[x[1]].status = "captured"
  OBVIOUS
<1> HIDE DEF todo
<1>5. /\ s.pc = "list" /\ s.job = "check" /\ s.order = o /\ s.todo = todo
      /\ s.event = "none"
  BY IdleType, IdleFields DEF CallType
<1>6. s \in CallType
  BY <1>3, IdleType DEF CallType, Pcs, Jobs
<1> HIDE DEF s
<1>7. CallOK' /\ call'[Pump] = s /\ \A d \in Callers \ {Pump} : call'[d] = call[d]
  BY <1>1, <1>2, <1>6, BecomeFacts, TypeParts
<1>8. order[o].gid
  BY DEF Check, Due
<1>9. Sound(Pump)' /\ call'[Pump].pc # "create"
  BY <1>1, <1>4, <1>5, <1>7, <1>8 DEF Sound, Paying
<1> QED BY <1>1, <1>7, <1>9, CallOnly

LEMMA CheckNextStep ==
  ASSUME TypeOK, CallsInv, CheckNext
  PROVE  TypeOK' /\ CallsInv' /\ Grows
<1>1. Pump \in Callers /\ call[Pump].pc = "list" /\ UNCHANGED <<order, handled, crashes, pay, clock, books>>
  BY DEF CheckNext, Callers
<1>2. PICK x \in call[Pump].todo :
        Become(Pump, [call[Pump] EXCEPT !.pc = IF x[2] = "authorized" THEN "capture" ELSE "settle",
                                        !.pay = x[1], !.seen = x[2], !.todo = @ \ {x}])
  BY DEF CheckNext
<1> DEFINE s == [call[Pump] EXCEPT !.pc = IF x[2] = "authorized" THEN "capture" ELSE "settle",
                                   !.pay = x[1], !.seen = x[2], !.todo = @ \ {x}]
<1>3. call[Pump] \in CallType /\ Sound(Pump)
  BY <1>1, TypeParts DEF CallOK, CallsInv
<1>4. x[1] \in Payments /\ x[2] \in PayStatuses /\ x[2] \in {"authorized", "captured"}
  BY <1>3 DEF CallType, Sound
<1>5. /\ s.pc = (IF x[2] = "authorized" THEN "capture" ELSE "settle") /\ s.seen = x[2]
      /\ s.job = call[Pump].job /\ s.order = call[Pump].order /\ s.pay = x[1]
      /\ s.event = call[Pump].event /\ s.todo = call[Pump].todo \ {x}
  BY <1>3 DEF CallType
<1>6. s \in CallType
  BY <1>3, <1>4 DEF CallType, Pcs
<1> HIDE DEF s
<1>7. CallOK' /\ call'[Pump] = s /\ \A d \in Callers \ {Pump} : call'[d] = call[d]
  BY <1>1, <1>2, <1>6, BecomeFacts, TypeParts DEF s
<1>8. Sound(Pump)' /\ call'[Pump].pc # "create"
  BY <1>1, <1>3, <1>4, <1>5, <1>7 DEF Sound, Paying
<1> QED BY <1>1, <1>7, <1>8, CallOnly

LEMMA MarkHandledStep ==
  ASSUME TypeOK, CallsInv, NEW c \in Callers, MarkHandled(c)
  PROVE  TypeOK' /\ CallsInv' /\ Grows
<1>1. /\ call[c].pc = "mark" /\ handled' = handled \cup {<<call[c].pay, call[c].event>>}
      /\ Become(c, Idle) /\ UNCHANGED <<order, crashes, pay, clock, books>>
  BY DEF MarkHandled
<1>2. call[c].pay \in Payments /\ call[c].event \in PayStatuses
  BY <1>1, TypeParts DEF CallsInv, Sound, Paying, CallOK, CallType
<1>3. RestOK'
  BY <1>1, <1>2, TypeParts DEF RestOK, clock
<1>4. CallOK' /\ call'[c] = Idle /\ \A d \in Callers \ {c} : call'[d] = call[d]
  BY <1>1, IdleType, BecomeFacts, TypeParts
<1> QED BY <1>1, <1>3, <1>4, SoundIdle, CallAndRest, IdleFields

LEMMA StopStep ==
  ASSUME TypeOK, CallsInv, NEW c \in Callers, Stop(c)
  PROVE  TypeOK' /\ CallsInv' /\ Grows
<1>1. Become(c, Idle) /\ crashes' = crashes + 1 /\ UNCHANGED <<order, handled, pay, clock, books>>
  BY DEF Stop
<1>2. RestOK'
  BY <1>1, TypeParts DEF RestOK, clock
<1>3. CallOK' /\ call'[c] = Idle /\ \A d \in Callers \ {c} : call'[d] = call[d]
  BY <1>1, IdleType, BecomeFacts, TypeParts
<1> QED BY <1>1, <1>2, <1>3, SoundIdle, CallAndRest, IdleFields

-----------------------------------------------------------------------------
(* The gateway: a payment is made, or captured.                            *)
LEMMA CaptureFacts ==
  ASSUME PayOK, NEW p \in Payments, pay[p].status # "none", pay' = [pay EXCEPT ![p].status = "captured"]
  PROVE  /\ PayOK' /\ pay'[p].status = "captured" /\ pay'[p].order = pay[p].order
         /\ \A q \in Payments \ {p} : pay'[q] = pay[q]
<1>1. pay[p] \in PayType
  BY DEF PayOK
<1> DEFINE r == [pay[p] EXCEPT !.status = "captured"]
<1>2. r \in PayType /\ r.status = "captured" /\ r.order = pay[p].order
  BY <1>1 DEF PayType, PayStatuses
<1>3. pay' = [pay EXCEPT ![p] = r]
  OBVIOUS
<1> HIDE DEF r
<1>4. pay' \in [Payments -> PayType] /\ pay'[p] = r /\ \A q \in Payments \ {p} : pay'[q] = pay[q]
  BY <1>2, <1>3 DEF PayOK
<1> QED BY <1>2, <1>4 DEF PayOK

LEMMA AttemptStep ==
  ASSUME TypeOK, CallsInv, NEW p \in Payments, NEW o \in Orders,
         NEW s \in {"authorized", "failed"}, Attempt(p, o, s)
  PROVE  TypeOK' /\ CallsInv' /\ Grows
<1>1. /\ pay[p].status = "none" /\ order[o].gid
      /\ pay' = [pay EXCEPT ![p] = [status |-> s, order |-> o]]
      /\ UNCHANGED <<order, handled, call, crashes, clock, books>>
  BY DEF Attempt
<1>2. PayOK' /\ pay'[p] = [status |-> s, order |-> o] /\ \A q \in Payments \ {p} : pay'[q] = pay[q]
  BY <1>1, TypeParts DEF PayOK, PayType, PayStatuses
<1>3. Grows
  BY <1>1, <1>2 DEF Grows
<1>4. Calm
  BY <1>1, <1>2 DEF Calm, CalmOrders, CalmPays, CalmCalls, CallsInv, Unknown
<1>5. CallsInv'
  BY <1>1, <1>3, <1>4, NobodyMoves
<1>6. OrderOK' /\ CallOK' /\ BooksOK' /\ RestOK'
  BY <1>1, RestStays, TypeParts DEF OrderOK, CallOK, BooksOK, books
<1> QED BY <1>2, <1>3, <1>5, <1>6, TypePartsNext

LEMMA CapturedByItselfStep ==
  ASSUME TypeOK, CallsInv, NEW p \in Payments, CapturedByItself(p)
  PROVE  TypeOK' /\ CallsInv' /\ Grows
<1>1. /\ pay[p].status # "none" /\ pay' = [pay EXCEPT ![p].status = "captured"]
      /\ UNCHANGED <<order, handled, call, crashes, clock, books>>
  BY DEF CapturedByItself, Capturable
<1>2. /\ PayOK' /\ pay'[p].status = "captured" /\ pay'[p].order = pay[p].order
      /\ \A q \in Payments \ {p} : pay'[q] = pay[q]
  BY <1>1, CaptureFacts, TypeParts
<1>3. Grows
  BY <1>1, <1>2 DEF Grows
<1>4. Calm
  BY <1>1, <1>2 DEF Calm, CalmOrders, CalmPays, CalmCalls, CallsInv, Unknown
<1>5. CallsInv'
  BY <1>1, <1>3, <1>4, NobodyMoves
<1>6. OrderOK' /\ CallOK' /\ BooksOK' /\ RestOK'
  BY <1>1, RestStays, TypeParts DEF OrderOK, CallOK, BooksOK, books
<1> QED BY <1>2, <1>3, <1>5, <1>6, TypePartsNext

LEMMA ClockStep ==
  ASSUME TypeOK, CallsInv, Tomorrow \/ \E o \in Orders : Ages(o)
  PROVE  TypeOK' /\ CallsInv' /\ Grows
<1>1. UNCHANGED <<order, handled, call, crashes, pay, books>>
  BY DEF Tomorrow, Ages
<1>2. age' \in [Orders -> {"fresh", "past", "closed"}] /\ today' \in Nat
  BY TypeParts DEF Tomorrow, Ages, RestOK
<1>3. RestOK'
  BY <1>1, <1>2, TypeParts DEF RestOK
<1>4. Grows
  BY <1>1 DEF Grows
<1>5. Calm
  BY <1>1 DEF Calm, CalmOrders, CalmPays, CalmCalls, CallsInv, Unknown
<1>6. CallsInv'
  BY <1>1, <1>4, <1>5, NobodyMoves
<1>7. OrderOK' /\ PayOK' /\ CallOK' /\ BooksOK'
  BY <1>1, TypeParts DEF OrderOK, PayOK, CallOK, BooksOK, books
<1> QED BY <1>3, <1>4, <1>6, <1>7, TypePartsNext

-----------------------------------------------------------------------------
(* What a call knew still holds.                                           *)
LEMMA KnownStays ==
  ASSUME TypeOK, Grows, NEW c \in Callers, Sound(c)
  PROVE  /\ call[c].pc \in Paying =>
              pay'[call[c].pay].status # "none" /\ pay'[call[c].pay].order = call[c].order
         /\ \A x \in call[c].todo :
              /\ pay'[x[1]].status # "none" /\ pay'[x[1]].order = call[c].order
              /\ x[2] \in {"authorized", "captured"}
              /\ x[2] = "captured" => pay'[x[1]].status = "captured"
<1>1. \A x \in call[c].todo : x[1] \in Payments
  BY TypeParts DEF CallOK, CallType
<1> QED BY <1>1 DEF Sound, Grows

LEMMA PayingOrderKnown ==
  ASSUME CallsInv, NEW c \in Callers, call[c].pc \in Paying PROVE order[call[c].order].gid
  BY DEF CallsInv, Sound, Unknown

LEMMA CaptureStep ==
  ASSUME TypeOK, CallsInv, NEW c \in Callers, Capture(c)
  PROVE  TypeOK' /\ CallsInv' /\ Grows
<1> DEFINE goal == IF call[c].job = "check" THEN "list" ELSE "settle"
           s == [call[c] EXCEPT !.pc = "settle", !.seen = "captured"]
<1>1. /\ call[c].pc = "capture" /\ UNCHANGED <<order, handled, crashes, clock, books>>
      /\ call[c].pc \in Paying
  BY DEF Capture, Paying
<1>2. Sound(c) /\ call[c] \in CallType /\ call[c].pay \in Payments
  BY <1>1, TypeParts DEF CallsInv, CallOK, Sound
<1>3. \/ /\ pay' = [pay EXCEPT ![call[c].pay].status = "captured"]
         /\ Goto(c, goal) \/ Become(c, s)
      \/ Goto(c, goal) /\ UNCHANGED pay
  BY DEF Capture
<1>4. /\ PayOK' /\ \A q \in Payments : pay'[q].order = pay[q].order
      /\ \A q \in Payments : pay[q].status # "none" => pay'[q].status # "none"
      /\ \A q \in Payments : pay[q].status = "captured" => pay'[q].status = "captured"
      /\ pay' = [pay EXCEPT ![call[c].pay].status = "captured"] => pay'[call[c].pay].status = "captured"
  <2>1. CASE UNCHANGED pay /\ pay' # [pay EXCEPT ![call[c].pay].status = "captured"]
    BY <2>1, TypeParts DEF PayOK
  <2>2. CASE pay' = [pay EXCEPT ![call[c].pay].status = "captured"]
    <3>1. pay[call[c].pay].status # "none"
      BY <1>1, <1>2 DEF Sound
    <3>2. /\ PayOK' /\ pay'[call[c].pay].status = "captured"
          /\ pay'[call[c].pay].order = pay[call[c].pay].order
          /\ \A q \in Payments \ {call[c].pay} : pay'[q] = pay[q]
      BY <1>2, <2>2, <3>1, CaptureFacts, TypeParts
    <3> QED BY <3>2
  <2> QED BY <1>3, <2>1, <2>2
<1>5. Grows
  BY <1>1, <1>4 DEF Grows
<1>6. OrderOK' /\ BooksOK' /\ RestOK'
  BY <1>1, RestStays, TypeParts DEF OrderOK, BooksOK, books
<1>7. order[call[c].order].gid
  BY <1>1, PayingOrderKnown
<1>8. CASE Goto(c, goal)
  <2>1. goal \in Pcs
    BY DEF Pcs
  <2>2. /\ CallOK' /\ \A d \in Callers \ {c} : call'[d] = call[d]
        /\ call'[c].pc = goal /\ call'[c].job = call[c].job
        /\ call'[c].order = call[c].order /\ call'[c].pay = call[c].pay
        /\ call'[c].event = call[c].event /\ call'[c].seen = call[c].seen
        /\ call'[c].todo = call[c].todo
    BY <1>8, <2>1, GotoFacts, TypeParts
  <2>3. Sound(c)'
    BY <1>1, <1>2, <1>5, <1>7, <2>2, KnownStays DEF Sound, Paying
  <2>4. Calm
    BY <1>1, <1>4, <2>2 DEF Calm, CalmOrders, CalmPays, CalmCalls, CallsInv, Unknown
  <2>5. CallsInv'
    BY <1>5, <2>2, <2>3, <2>4, CallerMoves
  <2> QED BY <1>4, <1>5, <1>6, <2>2, <2>5, TypePartsNext
<1>9. CASE Become(c, s) /\ pay' = [pay EXCEPT ![call[c].pay].status = "captured"]
  <2>1. s \in CallType
    BY <1>2 DEF CallType, Pcs, PayStatuses
  <2>2. /\ s.pc = "settle" /\ s.seen = "captured" /\ s.job = call[c].job
        /\ s.order = call[c].order /\ s.pay = call[c].pay
        /\ s.event = call[c].event /\ s.todo = call[c].todo
    BY <1>2 DEF CallType
  <2> HIDE DEF s
  <2>3. CallOK' /\ call'[c] = s /\ \A d \in Callers \ {c} : call'[d] = call[d]
    BY <1>9, <2>1, BecomeFacts, TypeParts
  <2>4. Sound(c)'
    BY <1>1, <1>2, <1>4, <1>5, <1>9, <2>2, <2>3, KnownStays DEF Sound, Paying
  <2>5. Calm
    BY <1>1, <1>4, <2>2, <2>3 DEF Calm, CalmOrders, CalmPays, CalmCalls, CallsInv, Unknown
  <2>6. CallsInv'
    BY <1>5, <2>3, <2>4, <2>5, CallerMoves
  <2> QED BY <1>4, <1>5, <1>6, <2>3, <2>6, TypePartsNext
<1> QED BY <1>3, <1>8, <1>9

-----------------------------------------------------------------------------
(* The steps that touch an order.                                          *)
LEMMA OneOrderCalm ==
  ASSUME CallsInv, NEW o \in Orders, order[o].gid, \A q \in Orders \ {o} : order'[q] = order[q],
         order'[o].gid = order[o].gid, order'[o].status # "none", pay' = pay,
         NEW c \in Callers, call'[c].pc # "create", \A d \in Callers \ {c} : call'[d] = call[d]
  PROVE  Calm
<1>1. \A q \in Orders : order[q].gid => order[q].status # "none"
  BY DEF CallsInv, Unknown
<1>2. CalmOrders
  BY <1>1 DEF CalmOrders
<1>3. CalmPays
  BY DEF CalmPays
<1>4. CalmCalls
  BY DEF CalmCalls
<1> QED BY <1>2, <1>3, <1>4 DEF Calm

LEMMA VerifyStep ==
  ASSUME TypeOK, CallsInv, NEW c \in Callers, NEW p \in Payments, Verify(c, p)
  PROVE  TypeOK' /\ CallsInv' /\ Grows
<1> DEFINE o == pay[p].order
           s == [Idle EXCEPT !.pc = "fetch", !.job = "verify", !.order = o, !.pay = p]
<1>1. /\ pay[p].status # "none" /\ SetStatus(o, AttemptedFrom(o)) /\ Become(c, s)
      /\ UNCHANGED <<handled, crashes, pay, clock, books>>
  BY DEF Verify
<1>2. o \in Orders /\ order[o] \in OrderType
  BY <1>1, TypeParts DEF PayOK, OrderOK
<1>3. order[o].gid /\ order[o].status # "none"
  BY <1>2 DEF CallsInv, Unknown
<1>4. /\ AttemptedFrom(o) \in OrderStatuses /\ AttemptedFrom(o) # "none"
      /\ Settled(o) => AttemptedFrom(o) = order[o].status
  BY <1>2, <1>3 DEF AttemptedFrom, OrderType, OrderStatuses, Settled
<1>5. /\ s.pc = "fetch" /\ s.job = "verify" /\ s.order = o /\ s.pay = p
      /\ s.event = "none" /\ s.todo = {}
  BY IdleType, IdleFields DEF CallType
<1>6. s \in CallType
  BY <1>2, IdleType DEF CallType, Pcs, Jobs
<1> HIDE DEF s, o
<1>7. /\ OrderOK' /\ \A q \in Orders \ {o} : order'[q] = order[q]
      /\ order'[o].status = AttemptedFrom(o) /\ order'[o].gid = order[o].gid
  BY <1>1, <1>2, <1>4, SetStatusFacts, TypeParts
<1>8. CallOK' /\ call'[c] = s /\ \A d \in Callers \ {c} : call'[d] = call[d]
  BY <1>1, <1>6, BecomeFacts, TypeParts
<1>9. Grows
  BY <1>1, <1>2, <1>4, <1>7 DEF Grows, Settled
<1>10. Calm
  <2>1. call'[c].pc # "create" /\ pay' = pay
    BY <1>1, <1>5, <1>8
  <2> QED BY <1>2, <1>3, <1>4, <1>7, <1>8, <2>1, OneOrderCalm
<1>11. Sound(c)'
  BY <1>1, <1>2, <1>5, <1>8 DEF Sound, Paying, o
<1>12. CallsInv'
  BY <1>8, <1>9, <1>10, <1>11, CallerMoves
<1>13. PayOK' /\ BooksOK' /\ RestOK'
  BY <1>1, RestStays, TypeParts DEF PayOK, BooksOK, books
<1> QED BY <1>7, <1>8, <1>9, <1>12, <1>13, TypePartsNext

LEMMA CheckDoneStep ==
  ASSUME TypeOK, CallsInv, CheckDone
  PROVE  TypeOK' /\ CallsInv' /\ Grows
<1> DEFINE o == call[Pump].order
           r == [order[o] EXCEPT !.checked = age[o] # "fresh"]
<1>1. /\ Pump \in Callers /\ call[Pump].pc = "list" /\ order' = [order EXCEPT ![o] = r]
      /\ Become(Pump, Idle) /\ UNCHANGED <<handled, crashes, pay, clock, books>>
  BY DEF CheckDone, Callers
<1>2. o \in Orders /\ order[o].gid
  BY <1>1 DEF CallsInv, Sound
<1>3. order[o] \in OrderType
  BY <1>2, TypeParts DEF OrderOK
<1>4. r \in OrderType /\ r.gid = order[o].gid /\ r.status = order[o].status
  BY <1>3 DEF OrderType
<1> HIDE DEF r
<1>5. OrderOK' /\ order'[o] = r /\ \A q \in Orders \ {o} : order'[q] = order[q]
  BY <1>1, <1>2, <1>4, TypeParts DEF OrderOK
<1> HIDE DEF o
<1>6. CallOK' /\ call'[Pump] = Idle /\ \A d \in Callers \ {Pump} : call'[d] = call[d]
  BY <1>1, IdleType, BecomeFacts, TypeParts
<1>7. Grows
  BY <1>1, <1>2, <1>4, <1>5 DEF Grows, Settled
<1>8. Calm
  <2>1. call'[Pump].pc # "create" /\ pay' = pay /\ order'[o].status # "none"
    BY <1>1, <1>2, <1>4, <1>5, <1>6, IdleFields DEF CallsInv, Unknown
  <2> QED BY <1>1, <1>2, <1>4, <1>5, <1>6, <2>1, OneOrderCalm
<1>9. CallsInv'
  BY <1>1, <1>6, <1>7, <1>8, SoundIdle, CallerMoves
<1>10. PayOK' /\ BooksOK' /\ RestOK'
  BY <1>1, RestStays, TypeParts DEF PayOK, BooksOK, books
<1> QED BY <1>5, <1>6, <1>7, <1>9, <1>10, TypePartsNext

LEMMA ExpireOrdersStep ==
  ASSUME TypeOK, CallsInv, ExpireOrders
  PROVE  TypeOK' /\ CallsInv' /\ Grows
<1>1. /\ order' = [o \in Orders |-> IF Expirable(o) THEN [order[o] EXCEPT !.status = "expired"] ELSE order[o]]
      /\ UNCHANGED <<handled, call, crashes, pay, clock, books>>
  BY DEF ExpireOrders
<1>2. ASSUME NEW o \in Orders
      PROVE  /\ order'[o] \in OrderType /\ order'[o].gid = order[o].gid
             /\ ~order[o].gid => order'[o] = order[o]
             /\ order[o].gid => order'[o].status # "none"
             /\ Settled(o) => order'[o].status = order[o].status
  <2>1. order[o] \in OrderType
    BY TypeParts DEF OrderOK
  <2>2. CASE Expirable(o)
    <3>1. order'[o] = [order[o] EXCEPT !.status = "expired"] /\ ~Settled(o) /\ order[o].checked
      BY <1>1, <2>2 DEF Expirable, Settled
    <3>2. order[o].gid
      BY <3>1 DEF CallsInv, Unknown
    <3>3. [order[o] EXCEPT !.status = "expired"] \in OrderType
      BY <2>1 DEF OrderType, OrderStatuses
    <3>4. [order[o] EXCEPT !.status = "expired"].gid = order[o].gid
          /\ [order[o] EXCEPT !.status = "expired"].status = "expired"
      BY <2>1 DEF OrderType
    <3> QED BY <3>1, <3>2, <3>3, <3>4
  <2>3. CASE ~Expirable(o)
    BY <1>1, <2>1, <2>3 DEF CallsInv, Unknown
  <2> QED BY <2>2, <2>3
<1>3. OrderOK'
  BY <1>1, <1>2 DEF OrderOK
<1>4. Grows
  BY <1>1, <1>2 DEF Grows
<1>5. Calm
  BY <1>1, <1>2 DEF Calm, CalmOrders, CalmPays, CalmCalls
<1>6. CallsInv'
  BY <1>1, <1>4, <1>5, NobodyMoves
<1>7. PayOK' /\ CallOK' /\ BooksOK' /\ RestOK'
  BY <1>1, RestStays, TypeParts DEF PayOK, CallOK, BooksOK, books
<1> QED BY <1>3, <1>4, <1>6, <1>7, TypePartsNext

-----------------------------------------------------------------------------
(* Making an order.                                                        *)
LEMMA QuoteType == ASSUME TypeOK, NEW plan \in Plans
                   PROVE  Kind(plan) \in Kinds /\ FollowOn \in Nat
<1>1. company.end \in Nat /\ today \in Nat
  BY TypeParts DEF BooksOK, RestOK
<1>2. FollowOn \in Nat
  BY <1>1 DEF FollowOn
<1> QED BY <1>2 DEF Kind, Kinds

LEMMA CheckoutStep ==
  ASSUME TypeOK, CallsInv, NEW c \in Callers, NEW plan \in Plans, Checkout(c, plan)
  PROVE  TypeOK' /\ CallsInv' /\ Grows
<1> DEFINE r == [status |-> "created", gid |-> FALSE, plan |-> plan, kind |-> Kind(plan),
                 start |-> IF Kind(plan) = "change" THEN today ELSE FollowOn, checked |-> FALSE]
<1>1. PICK o \in Orders :
        /\ order[o].status = "none" /\ order' = [order EXCEPT ![o] = r]
        /\ Become(c, [Idle EXCEPT !.pc = "create", !.job = "checkout", !.order = o])
  BY DEF Checkout
<1>2. UNCHANGED <<handled, crashes, pay, clock, books>>
  BY DEF Checkout
<1> DEFINE s == [Idle EXCEPT !.pc = "create", !.job = "checkout", !.order = o]
<1>3. /\ r.status = "created" /\ ~r.gid /\ ~r.checked
      /\ r \in OrderType
  BY QuoteType, TypeParts DEF OrderType, OrderStatuses, RestOK
<1>4. /\ s.pc = "create" /\ s.job = "checkout" /\ s.order = o /\ s.todo = {}
      /\ s \in CallType
  BY IdleType, IdleFields DEF CallType, Pcs, Jobs
<1> HIDE DEF r, s
<1>5. OrderOK' /\ order'[o] = r /\ \A q \in Orders \ {o} : order'[q] = order[q]
  BY <1>1, <1>3, TypeParts DEF OrderOK
<1>6. CallOK' /\ call'[c] = s /\ \A d \in Callers \ {c} : call'[d] = call[d]
  BY <1>1, <1>4, BecomeFacts, TypeParts DEF s
<1>7. ~order[o].gid /\ \A p \in Payments : pay[p].order # o
  BY <1>1 DEF CallsInv, Unknown
<1>8. Grows
  BY <1>1, <1>2, <1>5, <1>7 DEF Grows, Settled
<1>9. ASSUME NEW q \in Orders
      PROVE  /\ ~order'[q].gid =>
                  /\ order'[q].status \in {"none", "created", "failed"} /\ ~order'[q].checked
                  /\ \A p \in Payments : pay'[p].order # q
             /\ order'[q].status = "none" => ~order'[q].gid
  <2>1. CASE q = o
    BY <1>2, <1>3, <1>5, <1>7, <2>1
  <2>2. CASE q # o
    BY <1>2, <1>5, <2>2 DEF CallsInv, Unknown
  <2> QED BY <2>1, <2>2
<1>10. \A d \in Callers \ {c} : call[d].pc = "create" => call[d].order \in Orders /\ call[d].order # o
  BY <1>1 DEF CallsInv, Unknown
<1>11. ASSUME NEW d \in Callers, call'[d].pc = "create"
       PROVE  /\ call'[d].order \in Orders
              /\ ~order'[call'[d].order].gid /\ order'[call'[d].order].status # "none"
  <2>1. CASE d = c
    BY <1>3, <1>4, <1>5, <1>6, <2>1
  <2>2. CASE d # c
    BY <1>5, <1>6, <1>10, <1>11, <2>2 DEF CallsInv, Unknown
  <2> QED BY <2>1, <2>2
<1>12. \A d, e \in Callers :
         call'[d].pc = "create" /\ call'[e].pc = "create" /\ call'[d].order = call'[e].order => d = e
  BY <1>4, <1>6, <1>10 DEF CallsInv, Unknown
<1>13. Unknown'
  BY <1>9, <1>11, <1>12 DEF Unknown
<1>14. Sound(c)'
  BY <1>4, <1>6 DEF Sound, Paying
<1>15. \A d \in Callers : Sound(d)'
  BY <1>6, <1>8, <1>14, SoundStays DEF CallsInv
<1>16. PayOK' /\ BooksOK' /\ RestOK'
  BY <1>2, RestStays, TypeParts DEF PayOK, BooksOK, books
<1> QED BY <1>5, <1>6, <1>8, <1>13, <1>15, <1>16, TypePartsNext DEF CallsInv

LEMMA CheckoutMadeStep ==
  ASSUME TypeOK, CallsInv, NEW c \in Callers, CheckoutMade(c)
  PROVE  TypeOK' /\ CallsInv' /\ Grows
<1> DEFINE o == call[c].order
<1>1. /\ call[c].pc = "create" /\ Become(c, Idle) /\ UNCHANGED <<handled, crashes, pay, clock, books>>
      /\ order' = [order EXCEPT ![o].gid = TRUE] \/ SetStatus(o, "failed")
  BY DEF CheckoutMade
<1>2. /\ o \in Orders /\ ~order[o].gid /\ order[o].status \in {"created", "failed"}
      /\ ~order[o].checked /\ \A p \in Payments : pay[p].order # o
  BY <1>1 DEF CallsInv, Unknown
<1>3. /\ OrderOK' /\ \A q \in Orders \ {o} : order'[q] = order[q]
      /\ order'[o].status \in {"created", "failed"} /\ ~order'[o].checked
  <2>1. order[o] \in OrderType
    BY <1>2, TypeParts DEF OrderOK
  <2>2. PICK r : order' = [order EXCEPT ![o] = r] /\ r \in {[order[o] EXCEPT !.gid = TRUE], [order[o] EXCEPT !.status = "failed"]}
    BY <1>1 DEF SetStatus
  <2>3. r \in OrderType /\ r.status \in {"created", "failed"} /\ ~r.checked
    <3>1. CASE r = [order[o] EXCEPT !.gid = TRUE]
      BY <1>2, <2>1, <3>1 DEF OrderType
    <3>2. CASE r = [order[o] EXCEPT !.status = "failed"]
      BY <1>2, <2>1, <3>2 DEF OrderType, OrderStatuses
    <3> QED BY <2>2, <3>1, <3>2
  <2> QED BY <1>2, <2>2, <2>3, TypeParts DEF OrderOK
<1> HIDE DEF o
<1>4. CallOK' /\ call'[c] = Idle /\ \A d \in Callers \ {c} : call'[d] = call[d]
  BY <1>1, IdleType, BecomeFacts, TypeParts
<1>5. Grows
  BY <1>1, <1>2, <1>3 DEF Grows, Settled
<1>6. ASSUME NEW q \in Orders
      PROVE  /\ ~order'[q].gid =>
                  /\ order'[q].status \in {"none", "created", "failed"} /\ ~order'[q].checked
                  /\ \A p \in Payments : pay'[p].order # q
             /\ order'[q].status = "none" => ~order'[q].gid
  <2>1. CASE q = o
    BY <1>1, <1>2, <1>3, <2>1
  <2>2. CASE q # o
    BY <1>1, <1>3, <2>2 DEF CallsInv, Unknown
  <2> QED BY <2>1, <2>2
<1>7. \A d \in Callers : call'[d].pc = "create" =>
        d # c /\ call'[d] = call[d] /\ call[d].order \in Orders \ {o}
  BY <1>1, <1>4, IdleFields DEF CallsInv, Unknown, o
<1>8. \A d \in Callers : call'[d].pc = "create" =>
        /\ call'[d].order \in Orders
        /\ ~order'[call'[d].order].gid /\ order'[call'[d].order].status # "none"
  BY <1>3, <1>7 DEF CallsInv, Unknown
<1>9. \A d, e \in Callers :
        call'[d].pc = "create" /\ call'[e].pc = "create" /\ call'[d].order = call'[e].order => d = e
  BY <1>7 DEF CallsInv, Unknown
<1>10. Unknown'
  BY <1>6, <1>8, <1>9 DEF Unknown
<1>11. \A d \in Callers : Sound(d)'
  BY <1>4, <1>5, SoundIdle, SoundStays DEF CallsInv
<1>12. PayOK' /\ BooksOK' /\ RestOK'
  BY <1>1, RestStays, TypeParts DEF PayOK, BooksOK, books
<1> QED BY <1>3, <1>4, <1>5, <1>10, <1>11, <1>12, TypePartsNext DEF CallsInv

-----------------------------------------------------------------------------
(* Settling an order.                                                      *)
LEMMA StartType == ASSUME TypeOK, NEW o \in Orders PROVE Start(o) \in Nat /\ FollowOn \in Nat
<1>1. company.end \in Nat /\ today \in Nat
  BY TypeParts DEF BooksOK, RestOK
<1> QED BY <1>1 DEF Start, FollowOn

Row(o, p) == [order |-> o, pay |-> p, plan |-> order[o].plan, end |-> Start(o) + Month]

LEMMA SettleOrderFacts ==
  ASSUME TypeOK, NEW o \in Orders, NEW p \in Payments, NEW seen \in PayStatuses, seen # "none",
         order[o].status # "none", SettleOrder(o, p, seen)
  PROVE  /\ OrderOK' /\ BooksOK' /\ \A q \in Orders \ {o} : order'[q] = order[q]
         /\ order'[o].gid = order[o].gid /\ order'[o].kind = order[o].kind
         /\ order'[o].status # "none"
         /\ Settled(o) => order'[o].status = order[o].status
         /\ seen = "captured" => order'[o].status \in {"paid", "mismatch"}
         /\ \/ /\ UNCHANGED books
               /\ order'[o].status = "paid" => order[o].status = "paid"
            \/ /\ ~Settled(o) /\ order'[o].status = "paid"
               /\ seen = "captured" /\ p \notin Odd
               /\ ledger' = Append(ledger, Row(o, p))
               /\ company' = [plan |-> order[o].plan, end |-> Start(o) + Month]
<1>1. order[o] \in OrderType /\ OrderOK /\ BooksOK
  BY TypeParts DEF OrderOK
<1>2. CASE Settled(o) /\ UNCHANGED <<order, books>>
  BY <1>1, <1>2 DEF OrderOK, BooksOK, books, Settled
<1>3. CASE /\ ~Settled(o) /\ ~Good(p, seen) /\ UNCHANGED books
           /\ SetStatus(o, CASE seen = "failed" -> "failed"
                             [] seen = "authorized" -> "attempted"
                             [] seen = "captured" -> "mismatch")
  <2>1. PICK s \in {"failed", "attempted", "mismatch"} :
          SetStatus(o, s) /\ (seen = "captured" => s = "mismatch")
    <3>1. CASE seen = "failed"
      BY <1>3, <3>1
    <3>2. CASE seen = "authorized"
      BY <1>3, <3>2
    <3>3. CASE seen = "captured"
      BY <1>3, <3>3
    <3> QED BY <3>1, <3>2, <3>3 DEF PayStatuses
  <2>2. s \in OrderStatuses
    BY <2>1 DEF OrderStatuses
  <2>3. /\ OrderOK' /\ \A q \in Orders \ {o} : order'[q] = order[q]
        /\ order'[o].status = s /\ order'[o].gid = order[o].gid
        /\ order'[o].kind = order[o].kind
    BY <1>1, <2>1, <2>2, SetStatusFacts
  <2>4. BooksOK'
    BY <1>1, <1>3 DEF BooksOK, books
  <2> QED BY <1>3, <2>1, <2>3, <2>4
<1>4. CASE /\ ~Settled(o) /\ Good(p, seen) /\ SetStatus(o, "paid")
           /\ company' = [plan |-> order[o].plan, end |-> Start(o) + Month]
           /\ ledger' = Append(ledger, Row(o, p))
  <2>1. "paid" \in OrderStatuses
    BY DEF OrderStatuses
  <2>2. /\ OrderOK' /\ \A q \in Orders \ {o} : order'[q] = order[q]
        /\ order'[o].status = "paid" /\ order'[o].gid = order[o].gid
        /\ order'[o].kind = order[o].kind
    BY <1>1, <1>4, <2>1, SetStatusFacts
  <2>3. Start(o) + Month \in Nat /\ order[o].plan \in Plans \cup {0}
    BY <1>1, StartType, PaymentAssumption DEF OrderType
  <2>4. Row(o, p) \in RowType
    BY <2>3 DEF Row, RowType
  <2>5. BooksOK'
    BY <1>1, <1>4, <2>3, <2>4 DEF BooksOK
  <2>6. seen = "captured" /\ p \notin Odd
    BY <1>4 DEF Good
  <2> QED BY <1>4, <2>2, <2>5, <2>6
<1>5. \/ Settled(o) /\ UNCHANGED <<order, books>>
      \/ /\ ~Settled(o) /\ ~Good(p, seen) /\ UNCHANGED books
         /\ SetStatus(o, CASE seen = "failed" -> "failed"
                           [] seen = "authorized" -> "attempted"
                           [] seen = "captured" -> "mismatch")
      \/ /\ ~Settled(o) /\ Good(p, seen) /\ SetStatus(o, "paid")
         /\ company' = [plan |-> order[o].plan, end |-> Start(o) + Month]
         /\ ledger' = Append(ledger, Row(o, p))
  BY DEF SettleOrder, Row
<1> QED BY <1>2, <1>3, <1>4, <1>5

(* What Settle does, for the invariants about the ledger.                  *)
SettlesOne ==
  \E o \in Orders, p \in Payments :
    /\ order'[o].kind = order[o].kind /\ \A q \in Orders \ {o} : order'[q] = order[q]
    /\ ~Settled(o) /\ order'[o].status = "paid"
    /\ pay[p].status = "captured" /\ pay[p].order = o /\ p \notin Odd
    /\ ledger' = Append(ledger, Row(o, p))
    /\ company' = [plan |-> order[o].plan, end |-> Start(o) + Month]

SettlesNone ==
  /\ UNCHANGED books
  /\ \A o \in Orders : order'[o].status = "paid" => order[o].status = "paid"

LEMMA SettleStep ==
  ASSUME TypeOK, CallsInv, NEW c \in Callers, Settle(c)
  PROVE  /\ TypeOK' /\ CallsInv' /\ Grows
         /\ SettlesNone \/ SettlesOne
<1> DEFINE o == call[c].order
           p == call[c].pay
           seen == call[c].seen
<1>1. /\ call[c].pc = "settle" /\ call[c].pc \in Paying /\ SettleOrder(o, p, seen)
      /\ UNCHANGED <<handled, crashes, pay, clock>>
  BY DEF Settle, Paying
<1>2. Sound(c)
  BY DEF CallsInv
<1>3. /\ o \in Orders /\ p \in Payments /\ seen \in PayStatuses /\ seen # "none"
      /\ pay[p].order = o
      /\ seen = "captured" => pay[p].status = "captured"
  BY <1>1, <1>2, TypeParts DEF Sound, CallOK, CallType
<1>4. order[o].gid /\ order[o].status # "none"
  BY <1>1, <1>3, PayingOrderKnown DEF CallsInv, Unknown
<1>5. /\ OrderOK' /\ BooksOK' /\ \A q \in Orders \ {o} : order'[q] = order[q]
      /\ order'[o].gid = order[o].gid /\ order'[o].kind = order[o].kind
      /\ order'[o].status # "none"
      /\ Settled(o) => order'[o].status = order[o].status
      /\ seen = "captured" => order'[o].status \in {"paid", "mismatch"}
      /\ \/ /\ UNCHANGED books
            /\ order'[o].status = "paid" => order[o].status = "paid"
         \/ /\ ~Settled(o) /\ order'[o].status = "paid"
            /\ seen = "captured" /\ p \notin Odd
            /\ ledger' = Append(ledger, Row(o, p))
            /\ company' = [plan |-> order[o].plan, end |-> Start(o) + Month]
  BY <1>1, <1>3, <1>4, SettleOrderFacts
<1> HIDE DEF o, p, seen
<1>6. SettlesNone \/ SettlesOne
  <2>1. CASE UNCHANGED books /\ (order'[o].status = "paid" => order[o].status = "paid")
    BY <1>3, <1>5, <2>1 DEF SettlesNone
  <2>2. CASE /\ ~Settled(o) /\ order'[o].status = "paid" /\ seen = "captured" /\ p \notin Odd
             /\ ledger' = Append(ledger, Row(o, p))
             /\ company' = [plan |-> order[o].plan, end |-> Start(o) + Month]
    BY <1>3, <1>5, <2>2 DEF SettlesOne
  <2> QED BY <1>5, <2>1, <2>2
<1> USE DEF o, p, seen
<1>7. Grows
  BY <1>1, <1>3, <1>4, <1>5 DEF Grows, Settled
<1>8. \/ Goto(c, "mark") /\ call[c].job = "webhook"
      \/ Become(c, Idle)
      \/ Goto(c, "list") /\ call[c].job = "check"
  BY <1>1, <1>2 DEF Settle, Sound
<1>9. PayOK' /\ RestOK'
  BY <1>1, RestStays, TypeParts DEF PayOK
<1>10. CASE Become(c, Idle)
  <2>1. CallOK' /\ call'[c] = Idle /\ \A d \in Callers \ {c} : call'[d] = call[d]
    BY <1>10, IdleType, BecomeFacts, TypeParts
  <2>2. Calm
    BY <1>1, <1>3, <1>4, <1>5, <2>1, IdleFields, OneOrderCalm
  <2>3. CallsInv'
    BY <1>7, <2>1, <2>2, SoundIdle, CallerMoves
  <2> QED BY <1>5, <1>6, <1>7, <1>9, <2>1, <2>3, TypePartsNext
<1>11. ASSUME NEW pc \in {"mark", "list"}, Goto(c, pc), pc = "list" => call[c].job = "check"
       PROVE  TypeOK' /\ CallsInv'
  <2>1. pc \in Pcs
    BY DEF Pcs
  <2>2. /\ CallOK' /\ \A d \in Callers \ {c} : call'[d] = call[d]
        /\ call'[c].pc = pc /\ call'[c].job = call[c].job
        /\ call'[c].order = o /\ call'[c].pay = p
        /\ call'[c].event = call[c].event /\ call'[c].seen = seen
        /\ call'[c].todo = call[c].todo
    BY <1>11, <2>1, GotoFacts, TypeParts
  <2>3. Calm
    BY <1>1, <1>3, <1>4, <1>5, <1>11, <2>2, OneOrderCalm
  <2>4. call[c].event = "captured" => order'[o].status \in {"paid", "mismatch"}
    BY <1>1, <1>2, <1>5 DEF Sound
  <2>5. Sound(c)'
    BY <1>1, <1>2, <1>3, <1>4, <1>5, <1>7, <1>11, <2>2, <2>4, KnownStays DEF Sound, Paying, Settled
  <2>6. CallsInv'
    BY <1>7, <2>2, <2>3, <2>5, CallerMoves
  <2> QED BY <1>5, <1>9, <2>2, <2>6, TypePartsNext
<1> QED BY <1>6, <1>7, <1>8, <1>10, <1>11

-----------------------------------------------------------------------------
(* Every step.                                                             *)
LEMMA NothingRecorded ==
  ASSUME TypeOK, CallsInv,
         \/ \E c \in Web : Request(c)
         \/ \E c \in Callers : CheckoutMade(c) \/ Fetch(c) \/ Capture(c) \/ MarkHandled(c) \/ Stop(c)
         \/ \E o \in Orders : Check(o) \/ Ages(o)
         \/ CheckNext \/ CheckDone \/ ExpireOrders \/ Tomorrow
         \/ \E p \in Payments : CapturedByItself(p) \/ \E o \in Orders, s \in {"authorized", "failed"} : Attempt(p, o, s)
         \/ UNCHANGED vars
  PROVE  SettlesNone
<1>1. UNCHANGED books
  BY DEF Request, Checkout, Receive, Verify, CheckoutMade, Fetch, Capture, MarkHandled, Stop, Check, Ages,
         CheckNext, CheckDone, ExpireOrders, Tomorrow, CapturedByItself, Attempt, vars, books
<1>2. OrderOK
  BY TypeParts
<1>3. CASE UNCHANGED order
  BY <1>1, <1>3 DEF SettlesNone
<1>4. ASSUME NEW q \in Orders, NEW st \in OrderStatuses, st = "paid" => order[q].status = "paid", SetStatus(q, st)
      PROVE  SettlesNone
  <2>1. order'[q].status = st /\ \A r \in Orders \ {q} : order'[r] = order[r]
    BY <1>2, <1>4, SetStatusFacts
  <2> QED BY <1>1, <1>4, <2>1 DEF SettlesNone
<1>5. ASSUME NEW q \in Orders, NEW r, order' = [order EXCEPT ![q] = r], r.status = "paid" => order[q].status = "paid"
      PROVE  SettlesNone
  BY <1>1, <1>2, <1>5 DEF SettlesNone, OrderOK
<1>6. ASSUME NEW c \in Web, NEW plan \in Plans, Checkout(c, plan) PROVE SettlesNone
  <2>1. PICK o \in Orders : order' = [order EXCEPT ![o] =
            [status |-> "created", gid |-> FALSE, plan |-> plan, kind |-> Kind(plan),
             start |-> IF Kind(plan) = "change" THEN today ELSE FollowOn, checked |-> FALSE]]
    BY <1>6 DEF Checkout
  <2> QED BY <1>5, <2>1
<1>7. ASSUME NEW c \in Web, NEW p \in Payments, Verify(c, p) PROVE SettlesNone
  <2>1. pay[p].order \in Orders /\ order[pay[p].order] \in OrderType
    BY <1>7, TypeParts DEF Verify, PayOK, OrderOK
  <2>2. /\ AttemptedFrom(pay[p].order) \in OrderStatuses
        /\ AttemptedFrom(pay[p].order) = "paid" => order[pay[p].order].status = "paid"
    BY <2>1 DEF AttemptedFrom, OrderType, OrderStatuses
  <2> QED BY <1>4, <1>7, <2>1, <2>2 DEF Verify
<1>8. ASSUME NEW c \in Callers, CheckoutMade(c) PROVE SettlesNone
  <2>1. call[c].order \in Orders /\ "failed" \in OrderStatuses
    BY <1>8 DEF CheckoutMade, CallsInv, Unknown, OrderStatuses
  <2>2. order[call[c].order] \in OrderType
    BY <1>2, <2>1 DEF OrderOK
  <2>3. CASE order' = [order EXCEPT ![call[c].order].gid = TRUE]
    <3> DEFINE r == [order[call[c].order] EXCEPT !.gid = TRUE]
    <3>1. r.status = order[call[c].order].status /\ order' = [order EXCEPT ![call[c].order] = r]
      BY <2>2, <2>3 DEF OrderType
    <3> QED BY <1>5, <2>1, <3>1
  <2>4. CASE SetStatus(call[c].order, "failed")
    BY <1>4, <2>1, <2>4
  <2> QED BY <1>8, <2>3, <2>4 DEF CheckoutMade
<1>9. CASE CheckDone
  <2>1. Pump \in Callers /\ call[Pump].order \in Orders
    BY <1>9 DEF CheckDone, CallsInv, Sound, Callers
  <2>2. order[call[Pump].order] \in OrderType
    BY <1>2, <2>1 DEF OrderOK
  <2> DEFINE r == [order[call[Pump].order] EXCEPT !.checked = age[call[Pump].order] # "fresh"]
  <2>3. r.status = order[call[Pump].order].status
    BY <2>2 DEF OrderType
  <2>4. order' = [order EXCEPT ![call[Pump].order] = r]
    BY <1>9 DEF CheckDone
  <2> QED BY <1>5, <2>1, <2>3, <2>4
<1>10. CASE ExpireOrders
  <2>1. ASSUME NEW o \in Orders, order'[o].status = "paid" PROVE order[o].status = "paid"
    <3>1. order[o] \in OrderType
      BY <1>2 DEF OrderOK
    <3>2. order'[o] = IF Expirable(o) THEN [order[o] EXCEPT !.status = "expired"] ELSE order[o]
      BY <1>10 DEF ExpireOrders
    <3> QED BY <2>1, <3>1, <3>2 DEF OrderType
  <2> QED BY <1>1, <2>1 DEF SettlesNone
<1>11. CASE ~CheckDone /\ ~ExpireOrders
            /\ ~(\E c \in Web : (\E plan \in Plans : Checkout(c, plan)) \/ \E p \in Payments : Verify(c, p))
            /\ ~\E c \in Callers : CheckoutMade(c)
  <2>1. UNCHANGED order
    BY <1>11 DEF Request, Receive, Fetch, Capture, MarkHandled, Stop, Check, Ages,
                 CheckNext, Tomorrow, CapturedByItself, Attempt, vars
  <2> QED BY <1>3, <2>1
<1> QED BY <1>6, <1>7, <1>8, <1>9, <1>10, <1>11

LEMMA NextStep ==
  ASSUME TypeOK, CallsInv, [Next]_vars
  PROVE  TypeOK' /\ CallsInv' /\ Grows /\ (SettlesNone \/ SettlesOne)
<1>1. Web \subseteq Callers
  BY DEF Callers
<1>2. CASE \E c \in Web : Request(c)
  BY <1>1, <1>2, CheckoutStep, ReceiveStep, VerifyStep, NothingRecorded DEF Request
<1>3. CASE \E c \in Callers : CheckoutMade(c) \/ Fetch(c) \/ Capture(c) \/ MarkHandled(c) \/ Stop(c)
  BY <1>3, CheckoutMadeStep, FetchStep, CaptureStep, MarkHandledStep, StopStep, NothingRecorded
<1>4. CASE \E c \in Callers : Settle(c)
  BY <1>4, SettleStep
<1>5. CASE (\E o \in Orders : Check(o) \/ Ages(o)) \/ Tomorrow
  BY <1>5, CheckStep, ClockStep, NothingRecorded
<1>6. CASE CheckNext \/ CheckDone \/ ExpireOrders
  BY <1>6, CheckNextStep, CheckDoneStep, ExpireOrdersStep, NothingRecorded
<1>7. CASE \E p \in Payments :
             CapturedByItself(p) \/ \E o \in Orders, s \in {"authorized", "failed"} : Attempt(p, o, s)
  BY <1>7, CapturedByItselfStep, AttemptStep, NothingRecorded
<1>8. CASE UNCHANGED vars
  <2>1. Grows /\ Calm
    BY <1>8 DEF Grows, Calm, CalmOrders, CalmPays, CalmCalls, CallsInv, Unknown, vars
  <2>2. CallsInv'
    BY <1>8, <2>1, NobodyMoves DEF vars
  <2>3. TypeOK'
    BY <1>8 DEF TypeOK, vars
  <2> QED BY <1>8, <2>1, <2>2, <2>3, NothingRecorded
<1> QED BY <1>2, <1>3, <1>4, <1>5, <1>6, <1>7, <1>8 DEF Next, Step

LEMMA InitInv == Init => TypeOK /\ CallsInv
<1> SUFFICES ASSUME Init PROVE TypeOK /\ CallsInv
  OBVIOUS
<1>1. /\ order = [o \in Orders |-> NoOrder] /\ pay = [p \in Payments |-> [status |-> "none", order |-> None]]
      /\ call = [c \in Callers |-> Idle] /\ ledger = <<>> /\ handled = {}
      /\ company = [plan |-> FirstPlan, end |-> FirstEnd]
      /\ age = [o \in Orders |-> "fresh"] /\ today = 0 /\ crashes = 0
  BY DEF Init
<1>2. NoOrder \in OrderType /\ NoOrder.status = "none" /\ ~NoOrder.gid /\ ~NoOrder.checked
  BY DEF NoOrder, OrderType, OrderStatuses, Kinds
<1>3. OrderOK /\ CallOK
  BY <1>1, <1>2, IdleType DEF OrderOK, CallOK
<1>4. PayOK
  BY <1>1 DEF PayOK, PayType, PayStatuses
<1>5. BooksOK /\ RestOK
  BY <1>1, PaymentAssumption DEF BooksOK, RestOK
<1>6. \A p \in Payments, o \in Orders : pay[p].order # o
  BY <1>1, PaymentAssumption
<1>7. Unknown
  BY <1>1, <1>2, <1>6, IdleFields DEF Unknown
<1>8. \A c \in Callers : Sound(c)
  BY <1>1, IdleFields DEF Sound, Paying
<1> QED BY <1>3, <1>4, <1>5, <1>7, <1>8, TypeParts DEF CallsInv

LEMMA Invariance == Spec => [](TypeOK /\ CallsInv)
<1>1. TypeOK /\ CallsInv /\ [Next]_vars => (TypeOK /\ CallsInv)'
  BY NextStep
<1> QED BY <1>1, InitInv, PTL DEF Spec

(* Type correctness, for any orders, payments and callers.                 *)
THEOREM TypeCorrect == Spec => []TypeOK
  BY Invariance, PTL

(* A paid order stays paid, and one kept for a look by hand stays so,      *)
(* whatever webhook, report or check of it arrives late.                   *)
THEOREM SettledStaysHolds == Spec => SettledStays
<1>1. TypeOK /\ CallsInv /\ [Next]_vars =>
        [\A o \in Orders : Settled(o) => order'[o].status = order[o].status]_vars
  BY NextStep DEF Grows
<1> QED BY <1>1, Invariance, PTL DEF Spec, SettledStays

-----------------------------------------------------------------------------
(* The ledger against the orders and the gateway.                          *)
LedgerInv ==
  /\ \A i \in 1..Len(ledger) :
       /\ order[ledger[i].order].status = "paid"
       /\ pay[ledger[i].pay].status = "captured" /\ pay[ledger[i].pay].order = ledger[i].order
       /\ ledger[i].pay \notin Odd
  /\ \A i, j \in 1..Len(ledger) : i # j => ledger[i].order # ledger[j].order
  /\ \A o \in Orders : order[o].status = "paid" => \E i \in 1..Len(ledger) : ledger[i].order = o

LEMMA LedgerRows == ASSUME TypeOK, NEW i \in 1..Len(ledger)
                    PROVE  ledger[i].order \in Orders /\ ledger[i].pay \in Payments
<1>1. ledger \in Seq(RowType)
  BY TypeParts DEF BooksOK
<1>2. ledger[i] \in RowType
  BY <1>1
<1> QED BY <1>2 DEF RowType

LEMMA LedgerStep == ASSUME TypeOK, CallsInv, LedgerInv, [Next]_vars PROVE LedgerInv'
<1>1. TypeOK' /\ Grows /\ (SettlesNone \/ SettlesOne)
  BY NextStep
<1>2. ASSUME NEW i \in 1..Len(ledger)
      PROVE  /\ order'[ledger[i].order].status = "paid"
             /\ pay'[ledger[i].pay].status = "captured" /\ pay'[ledger[i].pay].order = ledger[i].order
             /\ ledger[i].pay \notin Odd
  <2>1. /\ order[ledger[i].order].status = "paid" /\ pay[ledger[i].pay].status = "captured"
        /\ pay[ledger[i].pay].order = ledger[i].order /\ ledger[i].pay \notin Odd
    BY DEF LedgerInv
  <2> QED BY <1>1, <2>1, LedgerRows DEF Grows, Settled
<1>3. CASE SettlesNone
  <2>1. ledger' = ledger
    BY <1>3 DEF SettlesNone, books
  <2>2. \A o \in Orders : order'[o].status = "paid" => \E i \in 1..Len(ledger) : ledger[i].order = o
    BY <1>3 DEF SettlesNone, LedgerInv
  <2>3. \A i, j \in 1..Len(ledger) : i # j => ledger[i].order # ledger[j].order
    BY DEF LedgerInv
  <2> QED BY <1>2, <2>1, <2>2, <2>3 DEF LedgerInv
<1>4. CASE SettlesOne
  <2>1. PICK o \in Orders, p \in Payments :
          /\ \A q \in Orders \ {o} : order'[q] = order[q]
          /\ ~Settled(o) /\ order'[o].status = "paid"
          /\ pay[p].status = "captured" /\ pay[p].order = o /\ p \notin Odd
          /\ ledger' = Append(ledger, Row(o, p))
    BY <1>4 DEF SettlesOne
  <2>2. Row(o, p).order = o /\ Row(o, p).pay = p
    BY DEF Row
  <2> DEFINE n == Len(ledger)
             r == Row(o, p)
  <2>3. ledger \in Seq(RowType)
    BY TypeParts DEF BooksOK
  <2>4. n \in Nat /\ Len(ledger') = n + 1 /\ ledger'[n + 1] = r /\ \A i \in 1..n : ledger'[i] = ledger[i]
    BY <2>1, <2>3
  <2> HIDE DEF r, n
  <2>5. \A i \in 1..n : ledger[i].order # o
    BY <2>1 DEF LedgerInv, Settled, n
  <2>6. pay'[p].status = "captured" /\ pay'[p].order = o
    BY <1>1, <2>1 DEF Grows
  <2>7. ASSUME NEW i \in 1..(n + 1)
        PROVE  /\ order'[ledger'[i].order].status = "paid"
               /\ pay'[ledger'[i].pay].status = "captured" /\ pay'[ledger'[i].pay].order = ledger'[i].order
               /\ ledger'[i].pay \notin Odd
    <3>1. CASE i = n + 1
      BY <2>1, <2>2, <2>4, <2>6, <3>1 DEF r
    <3>2. CASE i \in 1..n
      BY <1>2, <2>4, <3>2 DEF n
    <3> QED BY <2>4, <3>1, <3>2
  <2>8. ASSUME NEW i \in 1..(n + 1), NEW j \in 1..(n + 1), i # j
        PROVE  ledger'[i].order # ledger'[j].order
    <3>1. CASE i \in 1..n /\ j \in 1..n
      BY <2>4, <2>8, <3>1 DEF LedgerInv, n
    <3>2. CASE i = n + 1 /\ j \in 1..n
      BY <2>2, <2>4, <2>5, <3>2 DEF r
    <3>3. CASE j = n + 1 /\ i \in 1..n
      BY <2>2, <2>4, <2>5, <3>3 DEF r
    <3> QED BY <2>4, <2>8, <3>1, <3>2, <3>3
  <2>9. ASSUME NEW q \in Orders, order'[q].status = "paid"
        PROVE  \E i \in 1..(n + 1) : ledger'[i].order = q
    <3>1. CASE q = o
      BY <2>2, <2>4, <3>1 DEF r
    <3>2. CASE q # o
      <4>1. PICK i \in 1..n : ledger[i].order = q
        BY <2>1, <2>9, <3>2 DEF LedgerInv, n
      <4> QED BY <2>4, <4>1
    <3> QED BY <3>1, <3>2
  <2> QED BY <2>4, <2>7, <2>8, <2>9 DEF LedgerInv
<1> QED BY <1>1, <1>3, <1>4

LEMMA LedgerInvariance == Spec => [](TypeOK /\ CallsInv /\ LedgerInv)
<1>1. Init => LedgerInv
  BY DEF Init, LedgerInv, NoOrder
<1>2. TypeOK /\ CallsInv /\ LedgerInv /\ [Next]_vars => (TypeOK /\ CallsInv /\ LedgerInv)'
  BY NextStep, LedgerStep
<1> QED BY <1>1, <1>2, InitInv, PTL DEF Spec

(* A payment is recorded once and an order is paid exactly when it has a   *)
(* row, however many webhooks, reports and checks settle it at once.       *)
THEOREM RecordedOnceHolds == Spec => []RecordedOnce
<1>1. TypeOK /\ LedgerInv => RecordedOnce
  <2> SUFFICES ASSUME TypeOK, LedgerInv PROVE RecordedOnce
    OBVIOUS
  <2>1. \A i, j \in 1..Len(ledger) :
          i # j => ledger[i].order # ledger[j].order /\ ledger[i].pay # ledger[j].pay
    BY DEF LedgerInv
  <2>2. \A o \in Orders : order[o].status = "paid" => \E i \in 1..Len(ledger) : ledger[i].order = o
    BY DEF LedgerInv
  <2>3. ASSUME NEW o \in Orders, NEW i \in 1..Len(ledger), ledger[i].order = o
        PROVE  order[o].status = "paid"
    BY <2>3 DEF LedgerInv
  <2> QED BY <2>1, <2>2, <2>3 DEF RecordedOnce
<1> QED BY <1>1, LedgerInvariance, PTL

(* What was recorded was captured by the gateway, for the order it was     *)
(* recorded against and for its amount.                                    *)
THEOREM RecordedIsCapturedHolds == Spec => []RecordedIsCaptured
<1>1. TypeOK /\ LedgerInv => RecordedIsCaptured
  <2> SUFFICES ASSUME TypeOK, LedgerInv, NEW i \in 1..Len(ledger)
               PROVE  /\ pay[ledger[i].pay] = [status |-> "captured", order |-> ledger[i].order]
                      /\ ledger[i].pay \notin Odd
    BY DEF RecordedIsCaptured
  <2>1. pay[ledger[i].pay] \in PayType
    BY LedgerRows, TypeParts DEF PayOK
  <2> QED BY <2>1 DEF LedgerInv, PayType
<1> QED BY <1>1, LedgerInvariance, PTL

-----------------------------------------------------------------------------
(* Events marked as processed.                                             *)
HandledInv ==
  \A e \in handled : /\ pay[e[1]].status # "none"
                     /\ e[2] = "captured" => Settled(pay[e[1]].order)

LEMMA HandledChanges ==
  ASSUME [Next]_vars PROVE UNCHANGED handled \/ \E c \in Callers : MarkHandled(c)
  BY DEF Next, Step, Request, Checkout, Receive, Verify, CheckoutMade, Fetch, Capture, Settle, Stop, Check,
         Ages, CheckNext, CheckDone, ExpireOrders, Tomorrow, CapturedByItself, Attempt, vars

LEMMA HandledStep == ASSUME TypeOK, CallsInv, HandledInv, [Next]_vars PROVE HandledInv'
<1>1. Grows
  BY NextStep
<1>2. ASSUME NEW e \in handled
      PROVE  pay'[e[1]].status # "none" /\ (e[2] = "captured" => Settled(pay[e[1]].order)' )
  <2>1. e[1] \in Payments /\ pay[e[1]].status # "none" /\ pay[e[1]].order \in Orders
    BY TypeParts DEF HandledInv, RestOK, PayOK
  <2> QED BY <1>1, <2>1 DEF HandledInv, Grows, Settled
<1>3. CASE UNCHANGED handled
  BY <1>2, <1>3 DEF HandledInv
<1>4. ASSUME NEW c \in Callers, MarkHandled(c) PROVE HandledInv'
  <2>1. /\ call[c].pc = "mark" /\ handled' = handled \cup {<<call[c].pay, call[c].event>>}
        /\ UNCHANGED <<order, pay>>
    BY <1>4 DEF MarkHandled
  <2>2. /\ pay[call[c].pay].status # "none" /\ pay[call[c].pay].order = call[c].order
        /\ call[c].event = "captured" => Settled(call[c].order)
    BY <2>1 DEF CallsInv, Sound, Paying
  <2> QED BY <1>2, <2>1, <2>2 DEF HandledInv, Settled
<1> QED BY <1>3, <1>4, HandledChanges

(* An event that will not be delivered again has had its effect, wherever  *)
(* its handling stopped before.                                            *)
THEOREM HandledIsAppliedHolds == Spec => []HandledIsApplied
<1>1. Init => HandledInv
  BY DEF Init, HandledInv
<1>2. TypeOK /\ CallsInv /\ HandledInv /\ [Next]_vars => HandledInv'
  BY HandledStep
<1>3. HandledInv => HandledIsApplied
  BY DEF HandledInv, HandledIsApplied
<1> QED BY <1>1, <1>2, <1>3, Invariance, PTL DEF Spec
-----------------------------------------------------------------------------
(* Periods.  An order keeps what was quoted once it is made; it was made   *)
(* for a plan that is for sale.  A company without a plan has no period,   *)
(* so that an order that does not follow on starts after the last day.     *)
PeriodInv ==
  /\ \A o \in Orders : order[o].status # "none" => order[o].plan \in Plans
  /\ company.plan = 0 => company.end = 0
  /\ NoPeriodLost

KeepsQuote(o) ==
  /\ order[o].status # "none"
  /\ order'[o].plan = order[o].plan /\ order'[o].kind = order[o].kind

QuotesKept ==
  \A o \in Orders :
    \/ order'[o] = order[o] \/ KeepsQuote(o)
    \/ order[o].status = "none" /\ order'[o].plan \in Plans

LEMMA OneQuoteKept ==
  ASSUME TypeOK, NEW o \in Orders, order[o].status # "none", NEW s, NEW b,
         \/ SetStatus(o, s)
         \/ order' = [order EXCEPT ![o].gid = b]
         \/ order' = [order EXCEPT ![o].checked = b]
  PROVE  QuotesKept
<1>1. order \in [Orders -> OrderType] /\ order[o] \in OrderType
  BY TypeParts DEF OrderOK
<1>2. KeepsQuote(o)
  BY <1>1 DEF KeepsQuote, SetStatus, OrderType
<1>3. \A q \in Orders \ {o} : order'[q] = order[q]
  BY <1>1 DEF SetStatus
<1> QED BY <1>2, <1>3 DEF QuotesKept

LEMMA SettleKeepsQuotes ==
  ASSUME TypeOK, CallsInv, NEW c \in Callers, Settle(c)
  PROVE  QuotesKept
<1> DEFINE o == call[c].order
<1>1. call[c].pc = "settle" /\ Sound(c) /\ SettleOrder(o, call[c].pay, call[c].seen)
  BY DEF Settle, CallsInv
<1>2. o \in Orders /\ order[o].gid /\ order[o].status # "none"
  <2>1. o \in Orders /\ call[c].pay \in Payments /\ pay[call[c].pay].order = o
    BY <1>1 DEF Sound, Paying
  <2> QED BY <2>1 DEF CallsInv, Unknown
<1>3. UNCHANGED order \/ \E s : SetStatus(o, s)
  BY <1>1 DEF SettleOrder
<1> HIDE DEF o
<1> QED BY <1>2, <1>3, OneQuoteKept DEF QuotesKept

LEMMA QuoteStep ==
  ASSUME TypeOK, CallsInv, [Next]_vars
  PROVE  QuotesKept
<1>1. ASSUME NEW c \in Web, NEW plan \in Plans, Checkout(c, plan) PROVE QuotesKept
  <2> DEFINE r == [status |-> "created", gid |-> FALSE, plan |-> plan, kind |-> Kind(plan),
                   start |-> IF Kind(plan) = "change" THEN today ELSE FollowOn, checked |-> FALSE]
  <2>1. PICK o \in Orders : order[o].status = "none" /\ order' = [order EXCEPT ![o] = r]
    BY <1>1 DEF Checkout
  <2>2. r.plan \in Plans
    OBVIOUS
  <2> HIDE DEF r
  <2>3. order'[o] = r /\ \A q \in Orders \ {o} : order'[q] = order[q]
    BY <2>1, TypeParts DEF OrderOK
  <2> QED BY <2>1, <2>2, <2>3 DEF QuotesKept
<1>2. ASSUME NEW c \in Web, NEW p \in Payments, Verify(c, p) PROVE QuotesKept
  <2>1. pay[p].status # "none" /\ SetStatus(pay[p].order, AttemptedFrom(pay[p].order))
    BY <1>2 DEF Verify
  <2>2. pay[p].order \in Orders
    BY <2>1, TypeParts DEF PayOK
  <2>3. order[pay[p].order].status # "none"
    BY <2>2 DEF CallsInv, Unknown
  <2> QED BY <2>1, <2>2, <2>3, OneQuoteKept
<1>3. ASSUME NEW c \in Callers, CheckoutMade(c) PROVE QuotesKept
  <2>1. call[c].order \in Orders /\ order[call[c].order].status # "none"
    BY <1>3 DEF CheckoutMade, CallsInv, Unknown
  <2> QED BY <1>3, <2>1, OneQuoteKept DEF CheckoutMade
<1>4. CASE CheckDone
  <2>1. Pump \in Callers /\ call[Pump].order \in Orders /\ order[call[Pump].order].gid
    BY <1>4 DEF CheckDone, CallsInv, Sound, Callers
  <2>2. order[call[Pump].order].status # "none"
    BY <2>1 DEF CallsInv, Unknown
  <2> QED BY <1>4, <2>1, <2>2, OneQuoteKept DEF CheckDone
<1>5. CASE ExpireOrders
  <2>1. ASSUME NEW o \in Orders PROVE order'[o] = order[o] \/ KeepsQuote(o)
    <3>1. order[o] \in OrderType
      BY TypeParts DEF OrderOK
    <3>2. order'[o] = IF Expirable(o) THEN [order[o] EXCEPT !.status = "expired"] ELSE order[o]
      BY <1>5 DEF ExpireOrders
    <3> QED BY <3>1, <3>2 DEF KeepsQuote, Expirable, OrderType
  <2> QED BY <2>1 DEF QuotesKept
<1>6. ASSUME NEW c \in Callers, Settle(c) PROVE QuotesKept
  BY <1>6, SettleKeepsQuotes
<1>7. ASSUME UNCHANGED order PROVE QuotesKept
  BY <1>7 DEF QuotesKept
<1>8. \/ \E c \in Web, plan \in Plans : Checkout(c, plan)
      \/ \E c \in Web, p \in Payments : Verify(c, p)
      \/ \E c \in Callers : CheckoutMade(c) \/ Settle(c)
      \/ CheckDone \/ ExpireOrders \/ UNCHANGED order
  BY DEF Next, Step, Request, Receive, Fetch, Capture, MarkHandled, Stop, Check, Ages, CheckNext,
         Tomorrow, CapturedByItself, Attempt, vars
<1> QED BY <1>1, <1>2, <1>3, <1>4, <1>5, <1>6, <1>7, <1>8

(* An order that follows on starts no earlier than the last day paid for.  *)
LEMMA FollowsOn ==
  ASSUME TypeOK, PeriodInv
  PROVE  FollowOn \in Nat /\ FollowOn >= company.end
<1>1. company.end \in Nat /\ today \in Nat /\ Grace \in Nat
  BY TypeParts, PaymentAssumption DEF BooksOK, RestOK
<1>2. CASE Live
  BY <1>1, <1>2 DEF FollowOn
<1>3. CASE company.plan = 0
  BY <1>1, <1>3 DEF FollowOn, PeriodInv
<1>4. CASE company.plan # 0 /\ ~Live
  BY <1>1, <1>4 DEF FollowOn, Live
<1> QED BY <1>2, <1>3, <1>4

LEMMA PeriodStep ==
  ASSUME TypeOK, CallsInv, PeriodInv, [Next]_vars
  PROVE  PeriodInv'
<1>1. TypeOK' /\ CallsInv' /\ Grows /\ (SettlesNone \/ SettlesOne) /\ QuotesKept
  BY NextStep, QuoteStep
<1>2. \A o \in Orders : order'[o].status # "none" => order'[o].plan \in Plans
  BY <1>1 DEF QuotesKept, KeepsQuote, PeriodInv
<1>3. \A o \in Orders : order[o].status = "paid" =>
        order'[o].status = "paid" /\ order'[o].kind = order[o].kind
  BY <1>1 DEF QuotesKept, KeepsQuote, Grows, Settled
<1> DEFINE Follow == \A o \in Orders : order[o].status = "paid" => order[o].kind # "change"
<1>4. Follow' => Follow
  BY <1>3
<1>5. CASE SettlesNone
  <2>1. company' = company /\ ledger' = ledger
    BY <1>5 DEF SettlesNone, books
  <2> QED BY <1>2, <1>4, <2>1 DEF PeriodInv, NoPeriodLost
<1>6. CASE SettlesOne
  <2>1. PICK o \in Orders, p \in Payments :
          /\ order'[o].kind = order[o].kind /\ order'[o].status = "paid"
          /\ pay[p].status = "captured" /\ pay[p].order = o
          /\ ledger' = Append(ledger, Row(o, p))
          /\ company' = [plan |-> order[o].plan, end |-> Start(o) + Month]
    BY <1>6 DEF SettlesOne
  <2>2. order[o].gid /\ order[o].status # "none"
    BY <2>1 DEF CallsInv, Unknown
  <2>3. company'.plan = order[o].plan /\ company'.end = Start(o) + Month /\ order[o].plan \in Plans
    BY <2>1, <2>2 DEF PeriodInv
  <2>4. 0 \notin Plans
    BY PaymentAssumption
  <2>5. ledger \in Seq(RowType)
    BY TypeParts DEF BooksOK
  <2>6. Len(ledger) \in Nat /\ Len(ledger') = Len(ledger) + 1
    BY <2>1, <2>5
  <2>7. ASSUME Follow' PROVE company'.end >= FirstEnd + Month * Len(ledger')
    <3>1. Start(o) = FollowOn
      BY <2>1, <2>7 DEF Start
    <3>2. FollowOn \in Nat /\ FollowOn >= company.end
      BY FollowsOn
    <3>3. company.end >= FirstEnd + Month * Len(ledger)
      BY <1>4, <2>7 DEF PeriodInv, NoPeriodLost
    <3>4. Month \in Nat /\ FirstEnd \in Nat /\ company.end \in Nat
      BY PaymentAssumption, TypeParts DEF BooksOK
    <3>5. Month * (Len(ledger) + 1) = Month * Len(ledger) + Month
      BY <2>6, <3>4
    <3>6. Month * Len(ledger) \in Nat
      BY <2>6, <3>4
    <3> QED BY <2>3, <2>6, <3>1, <3>2, <3>3, <3>4, <3>5, <3>6
  <2> QED BY <1>2, <2>3, <2>4, <2>7 DEF PeriodInv, NoPeriodLost
<1> QED BY <1>1, <1>5, <1>6

(* "Paying early never shortens a period": while the company pays for      *)
(* renewals and first periods only, each recorded payment adds a whole     *)
(* period to the first, whatever the order, the day and the number of the  *)
(* settlements (settleOrder, periodFor).                                   *)
THEOREM NoPeriodLostHolds == Spec => []NoPeriodLost
<1>1. Init => PeriodInv
  <2> SUFFICES ASSUME Init PROVE PeriodInv
    OBVIOUS
  <2>1. \A o \in Orders : order[o].status = "none"
    BY DEF Init, NoOrder
  <2>2. company.plan = FirstPlan /\ company.end = FirstEnd /\ Len(ledger) = 0
    BY DEF Init
  <2>3. Month * 0 = 0 /\ FirstEnd >= FirstEnd + 0
    BY PaymentAssumption
  <2> QED BY <2>1, <2>2, <2>3, PaymentAssumption DEF PeriodInv, NoPeriodLost
<1>2. TypeOK /\ CallsInv /\ PeriodInv /\ [Next]_vars => PeriodInv'
  BY PeriodStep
<1>3. PeriodInv => NoPeriodLost
  BY DEF PeriodInv
<1> QED BY <1>1, <1>2, <1>3, Invariance, PTL DEF Spec

-----------------------------------------------------------------------------
(* A behaviour of MCMoney is one of the part that runs.                    *)

(* Of orders, payments and the ledger, MCMoney does what PaymentSettlement *)
(* does, or nothing: what is proved of that holds of it.                   *)
THEOREM RunsPaymentSettlement == SpecMC => Spec
<1>1. InitMC => Init
  BY DEF InitMC
<1>2. [NextMC]_all => [Next]_vars
  BY DEF NextMC, all, checkout, vars, clock, books
<1> QED BY <1>1, <1>2, PTL DEF SpecMC, Spec

LEMMA PartStep ==
  ASSUME [NextMC]_all
  PROVE  /\ part' = part
         /\ part = "period" => [S!Next]_(S!vars)
         /\ part = "autopay" => [A!Next]_(A!vars)
         /\ part = "quote" => [Q!Next]_(Q!vars)
         /\ part = "website" => [B!Next]_(B!vars)
         /\ part = "deploy" => [G!Next]_(G!vars)
<1>1. CASE NextMC
  BY <1>1 DEF NextMC
<1>2. CASE UNCHANGED all
  BY <1>2 DEF all, period, S!vars, autopay, A!vars, quote, Q!vars, website, B!vars, deploy, G!vars
<1> QED BY <1>1, <1>2

LEMMA PartInit ==
  ASSUME InitMC
  PROVE  /\ part = "period" => S!Init
         /\ part = "autopay" => A!Init
         /\ part = "quote" => Q!Init
         /\ part = "website" => B!Init
         /\ part = "deploy" => G!Init
  BY DEF InitMC

-----------------------------------------------------------------------------
(* Automatic payment.                                                      *)

(* A charge is recorded when its order becomes paid, and only then.        *)
ChargeInv ==
  /\ DOMAIN settled = Charges /\ DOMAIN autopayOrder = Charges
  /\ \A c \in Charges : settled[c] = IF autopayOrder[c] = "paid" THEN 1 ELSE 0

LEMMA ChargeInit == ASSUME A!Init PROVE ChargeInv
  BY DEF A!Init, ChargeInv

LEMMA ChargeNext == ASSUME ChargeInv, [A!Next]_(A!vars) PROVE ChargeInv'
<1>1. ASSUME NEW p \in A!Calls, A!SettleCharge(p) PROVE ChargeInv'
  BY <1>1 DEF A!SettleCharge, ChargeInv
<1>2. ASSUME NEW p \in A!Calls, A!SettleOrder(p) PROVE ChargeInv'
  <2>1. CASE UNCHANGED <<autopayOrder, settled>>
    BY <2>1 DEF ChargeInv
  <2>2. CASE ~ UNCHANGED <<autopayOrder, settled>>
    <3> DEFINE c == autopayCall[p].charge
    <3>1. /\ autopayOrder[c] # "paid"
          /\ autopayOrder' = [autopayOrder EXCEPT ![c] = "paid"]
          /\ settled' = [settled EXCEPT ![c] = @ + 1]
      BY <1>2, <2>2 DEF A!SettleOrder, A!Unsettled
    <3> QED BY <3>1 DEF ChargeInv
  <2> QED BY <2>1, <2>2
<1>3. CASE UNCHANGED <<autopayOrder, settled>>
  BY <1>3 DEF ChargeInv
<1> QED BY <1>1, <1>2, <1>3
        DEF A!Next, A!vars, A!Work, A!InsertAutopay, A!CancelAtGateway, A!CancelWrite, A!SetStatus, A!Thank,
            A!Crash, A!StartAutopay, A!VerifyAutopay, A!CancelAutopay, A!Authorise, A!Pending, A!Halt, A!Resume,
            A!Finish, A!GatewayTurns, A!TakeCharge, A!Receive

(* A charge of the gateway is recorded as one payment, for any number of   *)
(* events, repetitions, returns of the browser and crashes: settleOrder    *)
(* records it in the transaction that marks its order as paid.             *)
THEOREM ChargedOnceHolds == SpecMC => []ChargedOnce
<1> DEFINE Inv == part = "autopay" => ChargeInv
<1>1. InitMC => Inv
  BY PartInit, ChargeInit
<1>2. Inv /\ [NextMC]_all => Inv'
  BY PartStep, ChargeNext
<1>3. Inv => ChargedOnce
  BY DEF ChargedOnce, A!ChargedOnce, ChargeInv
<1> QED BY <1>1, <1>2, <1>3, PTL DEF SpecMC

-----------------------------------------------------------------------------
(* Purchases on the website.                                               *)

(* An order that came late is not being settled, and nobody will begin:    *)
(* the account stays.                                                      *)
LateInv ==
  /\ DOMAIN settling = Clicks
  /\ \A o \in late : account /\ settling[o] = "no" /\ o \notin companies

LEMMA LateInit == ASSUME B!Init PROVE LateInv
  BY DEF B!Init, LateInv

LEMMA LateNext == ASSUME LateInv, [B!Next]_(B!vars) PROVE LateInv'
<1>1. ASSUME NEW o \in Clicks, B!SettleBegin(o) PROVE LateInv'
  BY <1>1 DEF B!SettleBegin, B!Refused, LateInv
<1>2. ASSUME NEW o \in Clicks, B!FindOwner(o) PROVE LateInv'
  BY <1>2 DEF B!FindOwner, LateInv
<1>3. ASSUME NEW o \in Clicks, B!SettleCommit(o) \/ B!SettleCutOff(o) PROVE LateInv'
  <2>1. /\ settling[o] # "no" /\ settling' = [settling EXCEPT ![o] = "no"]
        /\ account => account'
        /\ companies' \subseteq companies \cup {o}
    BY <1>3 DEF B!SettleCommit, B!SettleCutOff
  <2>2. \A q \in late : account' /\ settling'[q] = "no" /\ q \notin companies'
    BY <2>1 DEF LateInv
  <2>3. B!NowLate
    BY <1>3 DEF B!SettleCommit, B!SettleCutOff
  <2> QED BY <2>1, <2>2, <2>3 DEF LateInv, B!NowLate
<1>4. CASE B!AccountElsewhere
  BY <1>4 DEF B!AccountElsewhere, B!NowLate, LateInv
<1>5. CASE UNCHANGED <<settling, account, companies, late>>
  BY <1>5 DEF LateInv
<1> QED BY <1>1, <1>2, <1>3, <1>4, <1>5
        DEF B!Next, B!vars, B!CheckAccount, B!FindOrder, B!KeepDetails, B!InsertOrder, B!AtGateway, B!NoGateway,
            B!Pays, B!Verify, B!SettleDeclined, B!Ages, B!Expire

(* An order whose settlement had not begun when the address got an account *)
(* is never given a company, for any number of clicks, however often its   *)
(* payment is reported (createWorkspaceForOrder).                          *)
THEOREM StrangersStayOutHolds == SpecMC => []StrangersStayOut
<1> DEFINE Inv == part = "website" => LateInv
<1>1. InitMC => Inv
  BY PartInit, LateInit
<1>2. Inv /\ [NextMC]_all => Inv'
  BY PartStep, LateNext
<1>3. Inv => StrangersStayOut
  BY DEF StrangersStayOut, B!StrangersStayOut, LateInv
<1> QED BY <1>1, <1>2, <1>3, PTL DEF SpecMC

-----------------------------------------------------------------------------
(* Migrations.                                                             *)

(* Who is at work holds the lock.                                          *)
HolderInv ==
  /\ DOMAIN at = Runs /\ DOMAIN next = Runs /\ DOMAIN applied = Runs
  /\ \A r \in Runs : at[r] \in {"locked", "running"} => holder = r
  /\ \A r \in Runs : at[r] # "collided"

(* The schema was made by the first migrations, in order.                  *)
SchemaInv ==
  /\ schema \in Seq(Nat) /\ \A i \in 1..Len(schema) : schema[i] = i
  /\ recorded = 1..Len(schema)

(* What a run has read and what it has passed is all that was applied.     *)
Reached(r, k) == applied[r] = 1..k /\ Len(schema) = IF next[r] > k THEN next[r] - 1 ELSE k
PassedInv ==
  /\ \A r \in Runs : at[r] \in {"waiting", "locked"} => next[r] = 1
  /\ \A r \in Runs : at[r] = "running" => next[r] \in Nat \ {0} /\ \E k \in Nat : Reached(r, k)

DeployInv == HolderInv /\ SchemaInv /\ PassedInv

LEMMA DeployInit == ASSUME G!Init PROVE DeployInv
  BY DEF G!Init, DeployInv, HolderInv, SchemaInv, PassedInv

LEMMA DeployNext == ASSUME DeployInv, [G!Next]_(G!vars) PROVE DeployInv'
<1> USE MoneyAssumption
<1> USE DEF DeployInv
<1>1. ASSUME NEW r \in Runs, G!Lock(r) \/ G!LockTimesOut(r) PROVE DeployInv'
  <2>1. UNCHANGED <<applied, next, recorded, schema>>
    BY <1>1 DEF G!Lock, G!LockTimesOut
  <2>2. at' = [at EXCEPT ![r] = at'[r]] /\ at[r] = "waiting" /\ at'[r] \in {"locked", "failed"}
    BY <1>1 DEF G!Lock, G!LockTimesOut, HolderInv
  <2>3. HolderInv'
    BY <1>1, <2>1, <2>2 DEF G!Lock, G!LockTimesOut, G!Free, HolderInv
  <2>4. SchemaInv'
    BY <2>1 DEF SchemaInv
  <2>5. PassedInv'
    BY <2>1, <2>2 DEF PassedInv, HolderInv, Reached
  <2> QED BY <2>3, <2>4, <2>5
<1>2. ASSUME NEW r \in Runs, G!ReadApplied(r) PROVE DeployInv'
  <2>1. /\ at[r] = "locked" /\ at' = [at EXCEPT ![r] = "running"]
        /\ applied' = [applied EXCEPT ![r] = recorded] /\ UNCHANGED <<holder, next, recorded, schema>>
    BY <1>2 DEF G!ReadApplied
  <2>2. HolderInv' /\ SchemaInv'
    BY <2>1 DEF HolderInv, SchemaInv
  <2>3. Len(schema) \in Nat /\ next[r] = 1
    BY <2>1 DEF SchemaInv, PassedInv
  <2>4. next'[r] \in Nat \ {0} /\ Reached(r, Len(schema))'
    BY <2>1, <2>3 DEF HolderInv, SchemaInv, Reached
  <2>5. \A s \in Runs \ {r} : at'[s] = at[s] /\ applied'[s] = applied[s]
    BY <2>1 DEF HolderInv
  <2>6. PassedInv'
    BY <2>1, <2>3, <2>4, <2>5 DEF PassedInv, HolderInv, Reached
  <2> QED BY <2>2, <2>6
<1>3. ASSUME NEW r \in Runs, G!Skip(r) PROVE DeployInv'
  <2>1. /\ at[r] = "running" /\ next[r] \in applied[r]
        /\ next' = [next EXCEPT ![r] = @ + 1] /\ UNCHANGED <<at, holder, applied, recorded, schema>>
    BY <1>3 DEF G!Skip
  <2>2. HolderInv' /\ SchemaInv'
    BY <2>1 DEF HolderInv, SchemaInv
  <2>3. PICK k \in Nat : Reached(r, k)
    BY <2>1 DEF PassedInv
  <2>4. next'[r] \in Nat \ {0} /\ Reached(r, k)'
    BY <2>1, <2>3 DEF HolderInv, PassedInv, Reached
  <2>5. \A s \in Runs \ {r} : next'[s] = next[s]
    BY <2>1 DEF HolderInv
  <2>6. PassedInv'
    BY <2>1, <2>4, <2>5 DEF PassedInv, Reached
  <2> QED BY <2>2, <2>6
<1>4. ASSUME NEW r \in Runs, G!Apply(r) PROVE DeployInv'
  <2>1. at[r] = "running" /\ next[r] \notin applied[r] /\ next[r] \in Nat \ {0} /\ UNCHANGED <<holder, applied>>
    BY <1>4 DEF G!Apply, PassedInv
  <2>2. PICK k \in Nat : Reached(r, k)
    BY <2>1 DEF PassedInv
  <2>3. next[r] > k /\ Len(schema) = next[r] - 1 /\ next[r] \notin recorded
    BY <2>1, <2>2 DEF Reached, SchemaInv
  <2>4. /\ schema' = Append(schema, next[r]) /\ recorded' = recorded \cup {next[r]}
        /\ next' = [next EXCEPT ![r] = @ + 1] /\ at' = at
    BY <1>4, <2>3 DEF G!Apply
  <2>5. schema' \in Seq(Nat) /\ Len(schema') = next[r] /\ \A i \in 1..next[r] : schema'[i] = i
    BY <2>1, <2>3, <2>4 DEF SchemaInv
  <2>6. HolderInv' /\ SchemaInv'
    BY <2>1, <2>3, <2>4, <2>5 DEF HolderInv, SchemaInv
  <2>7. next'[r] \in Nat \ {0} /\ Reached(r, k)'
    BY <2>1, <2>2, <2>3, <2>4, <2>5 DEF HolderInv, Reached
  <2>8. \A s \in Runs \ {r} : at'[s] # "running"
    BY <2>1, <2>4 DEF HolderInv
  <2>9. \A s \in Runs : at'[s] \in {"waiting", "locked"} => next'[s] = 1
    BY <2>1, <2>4 DEF PassedInv, HolderInv
  <2> QED BY <2>6, <2>7, <2>8, <2>9 DEF PassedInv
<1>5. ASSUME NEW r \in Runs, G!RolledBack(r) \/ G!Unlock(r) \/ G!Stop(r) PROVE DeployInv'
  <2>1. /\ at[r] \in {"locked", "running"} /\ at' = [at EXCEPT ![r] = at'[r]] /\ at'[r] \in {"failed", "done"}
        /\ UNCHANGED <<applied, next, recorded, schema>>
    BY <1>5 DEF G!RolledBack, G!Unlock, G!Stop, HolderInv
  <2>2. HolderInv'
    BY <2>1 DEF HolderInv
  <2>3. SchemaInv' /\ PassedInv'
    BY <2>1 DEF SchemaInv, PassedInv, HolderInv, Reached
  <2> QED BY <2>2, <2>3
<1>6. ASSUME NEW r \in Runs, G!Again(r) PROVE DeployInv'
  <2>1. /\ at' = [at EXCEPT ![r] = "waiting"] /\ applied' = [applied EXCEPT ![r] = {}]
        /\ next' = [next EXCEPT ![r] = 1] /\ UNCHANGED <<holder, recorded, schema>>
    BY <1>6 DEF G!Again
  <2>2. HolderInv' /\ SchemaInv'
    BY <2>1 DEF HolderInv, SchemaInv
  <2>3. \A s \in Runs \ {r} : at'[s] = at[s] /\ applied'[s] = applied[s] /\ next'[s] = next[s]
    BY <2>1 DEF HolderInv
  <2>4. at'[r] = "waiting" /\ next'[r] = 1
    BY <2>1 DEF HolderInv
  <2>5. PassedInv'
    BY <2>1, <2>3, <2>4 DEF PassedInv, Reached
  <2> QED BY <2>2, <2>5
<1>7. CASE UNCHANGED G!vars
  BY <1>7 DEF G!vars, HolderInv, SchemaInv, PassedInv, Reached
<1> QED BY <1>1, <1>2, <1>3, <1>4, <1>5, <1>6, <1>7 DEF G!Next

(* The schema is what the first migrations make it, each of them once and  *)
(* in order, and no run finds applied what it meant to apply: for any      *)
(* releases, however many processes start, stop and try again at once.     *)
THEOREM InStepHolds == SpecMC => []InStep
<1> DEFINE Inv == part = "deploy" => DeployInv
<1>1. InitMC => Inv
  BY PartInit, DeployInit
<1>2. Inv /\ [NextMC]_all => Inv'
  BY PartStep, DeployNext
<1>3. Inv => InStep
  BY DEF InStep, G!InStep, DeployInv, SchemaInv, HolderInv
<1> QED BY <1>1, <1>2, <1>3, PTL DEF SpecMC

-----------------------------------------------------------------------------
(* Periods.                                                                *)

TenantShape ==
  /\ DOMAIN tenant = {"plan", "from", "until", "next", "reminded"}
  /\ tenant.until \in Nat /\ periodNow \in Nat
  /\ tenant.plan = 0 => tenant.next = -1
  /\ DOMAIN pump = Servers
  /\ \A w \in Servers : DOMAIN pump[w] = {"pc", "row", "day", "kind", "later"}

(* A change that is about to be applied is due, or was scheduled after the *)
(* job had made its list.                                                  *)
DueInv == \A w \in Servers :
            pump[w].pc = "apply" /\ ~pump[w].later /\ tenant.next # -1 => tenant.until <= periodNow

ChangeInv == TenantShape /\ DueInv

LEMMA ChangeInit == ASSUME S!Init PROVE ChangeInv
<1> USE MoneyAssumption
<1>1. /\ DOMAIN tenant = {"plan", "from", "until", "next", "reminded"}
      /\ tenant.until \in Nat /\ periodNow \in Nat /\ tenant.next = -1
  <2>1. CASE tenant = S!Free
    BY <2>1 DEF S!Init, S!Free, S!NoPlan, S!NoDay
  <2>2. ASSUME NEW p \in S!Ranks, tenant = [S!Free EXCEPT !.plan = p, !.from = 1, !.until = 1 + Cycle]
        PROVE  /\ DOMAIN tenant = {"plan", "from", "until", "next", "reminded"}
               /\ tenant.until \in Nat /\ tenant.next = -1
    BY <2>2 DEF S!Free, S!NoPlan, S!NoDay
  <2> QED BY <2>1, <2>2 DEF S!Init
<1> QED BY <1>1 DEF S!Init, S!Rest, ChangeInv, TenantShape, DueInv

(* Requests of people: what they set.                                      *)
LEMMA RequestKeeps ==
  ASSUME ChangeInv,
         \/ \E p \in S!Ranks \cup {S!NoPlan} : S!RecordPayment(p)
         \/ \E p \in S!Ranks : S!ScheduleChange(p) \/ S!ChangePlan(p)
         \/ S!ClearScheduledChange \/ S!StartTrial
  PROVE  ChangeInv' /\ \A w \in Servers : pump'[w].pc = pump[w].pc
<1> USE MoneyAssumption
<1> USE DEF ChangeInv, S!Asked, S!NoPlan, S!NoDay
<1>1. ASSUME NEW p \in S!Ranks \cup {S!NoPlan}, S!RecordPayment(p)
      PROVE  ChangeInv' /\ \A w \in Servers : pump'[w].pc = pump[w].pc
  <2>1. /\ DOMAIN tenant' = {"plan", "from", "until", "next", "reminded"}
        /\ tenant'.until \in Nat /\ tenant'.next = -1 /\ UNCHANGED <<pump, periodNow>>
    BY <1>1 DEF S!RecordPayment, S!Paid, S!PeriodStart, TenantShape
  <2> QED BY <2>1 DEF TenantShape, DueInv
<1>2. ASSUME NEW p \in S!Ranks, S!ScheduleChange(p)
      PROVE  ChangeInv' /\ \A w \in Servers : pump'[w].pc = pump[w].pc
  <2>1. /\ tenant.plan # 0 /\ tenant' = [tenant EXCEPT !.next = p] /\ UNCHANGED periodNow
        /\ pump' = [w \in Servers |-> [pump[w] EXCEPT !.later = @ \/ pump[w].pc = "apply"]]
    BY <1>2 DEF S!ScheduleChange
  <2>2. \A w \in Servers : /\ DOMAIN pump'[w] = DOMAIN pump[w] /\ pump'[w].pc = pump[w].pc
                           /\ pump[w].pc = "apply" => pump'[w].later
    BY <2>1 DEF TenantShape
  <2> QED BY <2>1, <2>2 DEF TenantShape, DueInv
<1>3. ASSUME NEW p \in S!Ranks, S!ChangePlan(p)
      PROVE  ChangeInv' /\ \A w \in Servers : pump'[w].pc = pump[w].pc
  <2>1. /\ DOMAIN tenant' = {"plan", "from", "until", "next", "reminded"}
        /\ tenant'.until \in Nat /\ tenant'.next = -1 /\ UNCHANGED <<pump, periodNow>>
    BY <1>3 DEF S!ChangePlan, S!Free, TenantShape
  <2> QED BY <2>1 DEF TenantShape, DueInv
<1>4. ASSUME S!ClearScheduledChange \/ S!StartTrial
      PROVE  ChangeInv' /\ \A w \in Servers : pump'[w].pc = pump[w].pc
  <2>1. /\ DOMAIN tenant' = {"plan", "from", "until", "next", "reminded"}
        /\ tenant'.until \in Nat /\ tenant'.next = -1 /\ UNCHANGED <<pump, periodNow>>
    <3>1. CASE S!ClearScheduledChange
      BY <3>1 DEF S!ClearScheduledChange, TenantShape
    <3>2. CASE S!StartTrial
      <4>1. /\ tenant.plan = 0 /\ UNCHANGED <<pump, periodNow>>
            /\ tenant' = [tenant EXCEPT !.plan = TopPlan, !.from = periodNow, !.until = periodNow + Trial]
        BY <3>2 DEF S!StartTrial
      <4> QED BY <4>1 DEF TenantShape
    <3> QED BY <1>4, <3>1, <3>2
  <2> QED BY <2>1 DEF TenantShape, DueInv
<1> QED BY <1>1, <1>2, <1>3, <1>4

(* The job's other steps leave the period and what is scheduled alone.     *)
LEMMA OtherWork ==
  ASSUME ChangeInv, NEW w \in Servers,
         \/ S!ListDue(w) \/ S!ListReminders(w) \/ S!Claim(w) \/ S!Tell(w) \/ S!TellFails(w) \/ S!Crash(w)
  PROVE  /\ ChangeInv'
         /\ \A v \in Servers : pump[v].pc = "apply" => pump'[v].pc # "list"
<1> USE DEF ChangeInv
<1>1. /\ periodNow' = periodNow
      /\ DOMAIN tenant' = DOMAIN tenant /\ tenant'.plan = tenant.plan
      /\ tenant'.until = tenant.until /\ tenant'.next = tenant.next
  <2>1. CASE S!Claim(w)
    <3>1. \/ tenant' = tenant
          \/ \E marks : tenant' = [tenant EXCEPT !.reminded = marks]
      BY <2>1, Zenon DEF S!Claim
    <3> QED BY <2>1, <3>1 DEF S!Claim, TenantShape
  <2>2. CASE S!TellFails(w)
    BY <2>2 DEF S!TellFails, S!TakenBack, TenantShape
  <2>3. CASE tenant' = tenant /\ periodNow' = periodNow
    BY <2>3
  <2> QED BY <2>1, <2>2, <2>3 DEF S!ListDue, S!ListReminders, S!Tell, S!Crash
<1>2. /\ pump' = [pump EXCEPT ![w] = pump'[w]]
      /\ DOMAIN pump'[w] = {"pc", "row", "day", "kind", "later"}
      /\ pump'[w].pc = "apply" => S!Due(tenant, periodNow)
      /\ pump[w].pc = "apply" => pump'[w].pc # "list"
  BY DEF S!ListDue, S!Goto, S!ListReminders, S!Claim, S!Tell, S!TellFails, S!Crash, S!Rest, TenantShape
<1>3. TenantShape'
  BY <1>1, <1>2 DEF TenantShape
<1>4. DueInv'
  BY <1>1, <1>2 DEF TenantShape, DueInv, S!Due, S!NoPlan
<1> QED BY <1>2, <1>3, <1>4 DEF TenantShape

(* A change is applied when it is due, unless it was scheduled anew.       *)
LEMMA ApplyKeeps ==
  ASSUME ChangeInv, NEW w \in Servers, S!ApplyDueChange(w)
  PROVE  ChangeInv' /\ S!KeepsPaidPeriod
<1> USE DEF ChangeInv
<1>1. /\ pump[w].pc = "apply" /\ tenant' = (IF tenant.next # -1 THEN S!Applied ELSE tenant)
      /\ pump' = [pump EXCEPT ![w].pc = "list", ![w].later = FALSE] /\ UNCHANGED periodNow
  BY DEF S!ApplyDueChange, S!NoPlan
<1>2. /\ DOMAIN tenant' = {"plan", "from", "until", "next", "reminded"}
      /\ tenant'.until \in Nat /\ tenant'.next = -1
  BY <1>1 DEF S!Applied, S!Free, S!NoPlan, S!NoDay, TenantShape
<1>3. TenantShape' /\ DueInv'
  BY <1>1, <1>2 DEF TenantShape, DueInv
<1>4. \A v \in Servers \ {w} : pump'[v] = pump[v]
  BY <1>1 DEF TenantShape
<1> QED BY <1>1, <1>3, <1>4 DEF DueInv, S!KeepsPaidPeriod

LEMMA ChangeNext == ASSUME ChangeInv, [S!Next]_(S!vars) PROVE ChangeInv' /\ S!KeepsPaidPeriod
<1>1. CASE UNCHANGED S!vars
  BY <1>1 DEF S!vars, ChangeInv, TenantShape, DueInv, S!KeepsPaidPeriod
<1>2. CASE S!Tick
  BY <1>2 DEF S!Tick, ChangeInv, TenantShape, DueInv, S!KeepsPaidPeriod
<1>3. CASE \/ \E p \in S!Ranks \cup {S!NoPlan} : S!RecordPayment(p)
           \/ \E p \in S!Ranks : S!ScheduleChange(p) \/ S!ChangePlan(p)
           \/ S!ClearScheduledChange \/ S!StartTrial
  BY <1>3, RequestKeeps DEF S!KeepsPaidPeriod
<1>4. ASSUME NEW w \in Servers, S!Work(w) \/ S!Crash(w) PROVE ChangeInv' /\ S!KeepsPaidPeriod
  BY <1>4, OtherWork, ApplyKeeps DEF S!Work, S!KeepsPaidPeriod
<1> QED BY <1>1, <1>2, <1>3, <1>4 DEF S!Next

-----------------------------------------------------------------------------
(* The arithmetic of periods and credits.                                  *)

Dates == {date \in [month : Nat, day : 1..31] : date.day <= Q!DaysIn(date.month)}

(* What div and mod give.                                                  *)
LEMMA DivisionFacts ==
  ASSUME NEW n \in Nat, NEW d \in Nat \ {0}
  PROVE  /\ n \div d \in Nat
         /\ (n \div d) * d <= n
         /\ n < (n \div d + 1) * d
  OBVIOUS

LEMMA DaysInFacts == ASSUME NEW m \in Nat PROVE Q!DaysIn(m) \in 28..31
  BY DEF Q!DaysIn

(* A month begins where the one before it ends.                            *)
LEMMA MonthFollows ==
  ASSUME NEW m \in Nat
  PROVE  /\ Q!Before(m) \in Nat
         /\ Q!Before(m + 1) = Q!Before(m) + Q!DaysIn(m)
<1> DEFINE y == m \div 12
           k == m % 12
           z == y \div 4
           j == y % 4
<1>1. y \in Nat /\ k \in 0..11 /\ m = 12 * y + k
  OBVIOUS
<1>2. z \in Nat /\ j \in 0..3 /\ y = 4 * z + j
  BY <1>1
<1>3. (y + 3) \div 4 = z + (IF j = 0 THEN 0 ELSE 1)
  BY <1>2
<1>4. (y + 1) % 4 = (IF j = 3 THEN 0 ELSE j + 1) /\ (y + 1 + 3) \div 4 = z + 1
  BY <1>2
<1>5. CASE k < 11
  <2>1. (m + 1) \div 12 = y /\ (m + 1) % 12 = k + 1
    BY <1>1, <1>5
  <2> HIDE DEF y, k, z, j
  <2>2. Q!Before(m) = 365 * y + (z + (IF j = 0 THEN 0 ELSE 1)) + Q!MonthStarts[k + 1] + (IF j = 0 /\ k >= 2 THEN 1 ELSE 0)
    BY <1>3 DEF Q!Before, y, k, j
  <2>3. Q!Before(m + 1) = 365 * y + (z + (IF j = 0 THEN 0 ELSE 1)) + Q!MonthStarts[k + 2] + (IF j = 0 /\ k + 1 >= 2 THEN 1 ELSE 0)
    BY <1>1, <1>3, <2>1 DEF Q!Before, j
  <2>4. Q!DaysIn(m) = IF k = 1 THEN IF j = 0 THEN 29 ELSE 28 ELSE IF k \in {3, 5, 8, 10} THEN 30 ELSE 31
    BY DEF Q!DaysIn, y, k, j
  <2>5. k \in {0, 1, 2, 3, 4, 5, 6, 7, 8, 9, 10}
    BY <1>1, <1>5
  <2> QED BY <1>1, <1>2, <2>2, <2>3, <2>4, <2>5 DEF Q!MonthStarts
<1>6. CASE k = 11
  <2>1. (m + 1) \div 12 = y + 1 /\ (m + 1) % 12 = 0
    BY <1>1, <1>6
  <2> HIDE DEF y, k, z, j
  <2>2. Q!Before(m) = 365 * y + (z + (IF j = 0 THEN 0 ELSE 1)) + 334 + (IF j = 0 THEN 1 ELSE 0)
    BY <1>3, <1>6 DEF Q!Before, Q!MonthStarts, y, k, j
  <2>3. Q!Before(m + 1) = 365 * (y + 1) + (z + 1)
    BY <1>1, <1>4, <2>1 DEF Q!Before, Q!MonthStarts
  <2>4. Q!DaysIn(m) = 31
    BY <1>6 DEF Q!DaysIn, k
  <2> QED BY <1>1, <1>2, <2>2, <2>3, <2>4
<1> QED BY <1>1, <1>5, <1>6

(* A period is at least a day long.                                        *)
LEMMA CycleFacts ==
  ASSUME NEW d \in Dates
  PROVE  Q!AddCycle(d) \in Dates /\ Q!DaysBetween(d, Q!AddCycle(d)) \in Nat \ {0}
<1>1. /\ d.month \in Nat /\ d.day \in 1..31 /\ d.day <= Q!DaysIn(d.month)
      /\ Q!DaysIn(d.month) \in 28..31 /\ Q!DaysIn(d.month + 1) \in 28..31
  BY DaysInFacts DEF Dates
<1>2. /\ Q!AddCycle(d) \in [month : Nat, day : 1..31] /\ Q!AddCycle(d).month = d.month + 1
      /\ Q!AddCycle(d).day <= Q!DaysIn(d.month + 1)
  BY <1>1 DEF Q!AddCycle
<1>3. Q!DaysBetween(d, Q!AddCycle(d)) = Q!DaysIn(d.month) + Q!AddCycle(d).day - d.day
  <2>1. /\ Q!Before(d.month) \in Nat
        /\ Q!Before(Q!AddCycle(d).month) = Q!Before(d.month) + Q!DaysIn(d.month)
    BY <1>1, <1>2, MonthFollows
  <2>2. Q!AddCycle(d).day \in 1..31
    BY <1>2
  <2> QED BY <1>1, <2>1, <2>2 DEF Q!DaysBetween, Q!DayNumber
<1> QED BY <1>1, <1>2, <1>3 DEF Dates

LEMMA NumberFacts == ASSUME NEW d \in Dates PROVE Q!DayNumber(d) \in Int
<1>1. d.month \in Nat /\ d.day \in 1..31
  BY DEF Dates
<1>2. Q!Before(d.month) \in Nat
  BY <1>1, MonthFollows
<1> QED BY <1>1, <1>2 DEF Q!DayNumber

LEMMA BetweenFacts == ASSUME NEW a \in Dates, NEW b \in Dates PROVE Q!DaysBetween(a, b) \in Int
  BY NumberFacts DEF Q!DaysBetween

QuoteInv ==
  /\ from \in Dates /\ to \in Dates /\ quoteNow \in Dates
  /\ Q!DaysBetween(from, to) > 0
  /\ price \in Nat

LEMMA QuoteInit == ASSUME Q!Init PROVE QuoteInv
  BY MoneyAssumption, CycleFacts DEF Q!Init, QuoteInv, Dates

LEMMA QuoteKeeps == ASSUME QuoteInv, [Q!Next]_(Q!vars) PROVE QuoteInv'
<1> USE DEF QuoteInv
<1>1. CASE Q!Pass
  <2>1. PICK month \in quoteNow.month..to.month, day \in 1..31 :
          day <= Q!DaysIn(month) /\ quoteNow' = [month |-> month, day |-> day]
    BY <1>1 DEF Q!Pass
  <2>2. month \in Nat
    BY <2>1 DEF Dates
  <2>3. quoteNow' \in Dates
    BY <2>1, <2>2 DEF Dates
  <2> QED BY <1>1, <2>3 DEF Q!Pass
<1>2. CASE Q!Renew
  <2>1. from' = to /\ to' = Q!AddCycle(to) /\ price' = price /\ quoteNow' = quoteNow
    BY <1>2 DEF Q!Renew, Q!Pays
  <2> QED BY <2>1, CycleFacts
<1>3. CASE Q!Change
  <2>1. from' = quoteNow /\ to' = Q!AddCycle(quoteNow) /\ price' \in Prices /\ quoteNow' = quoteNow
    BY <1>3 DEF Q!Change, Q!Pays
  <2> QED BY <2>1, CycleFacts, MoneyAssumption
<1>4. CASE UNCHANGED Q!vars
  BY <1>4 DEF Q!vars
<1> QED BY <1>1, <1>2, <1>3, <1>4 DEF Q!Next

(* The credit is a share of the old price, rounded down.                   *)
LEMMA CreditFacts ==
  ASSUME NEW worth \in Nat, NEW total \in Nat \ {0}, NEW days \in Nat \ {0}, NEW base \in Nat
  PROVE  LET used == IF days < total THEN days ELSE total
             share == (worth * used) \div total
             credit == IF share < base THEN share ELSE base
         IN  /\ credit * total <= worth * days
             /\ days <= total /\ credit < base => (credit + 1) * total > worth * days
<1> DEFINE used == IF days < total THEN days ELSE total
           share == (worth * used) \div total
           credit == IF share < base THEN share ELSE base
<1>1. used \in Nat /\ used <= days /\ worth * used \in Nat
  OBVIOUS
<1>2. share \in Nat /\ share * total <= worth * used /\ worth * used < (share + 1) * total
  BY <1>1, DivisionFacts
<1>3. worth * used <= worth * days
  BY <1>1
<1> HIDE DEF share
<1>4. credit \in Nat /\ credit <= share
  BY <1>2
<1>5. credit * total <= share * total
  BY <1>2, <1>4
<1>6. credit * total <= worth * days
  BY <1>1, <1>2, <1>3, <1>4, <1>5
<1>7. ASSUME days <= total, credit < base PROVE (credit + 1) * total > worth * days
  <2>1. used = days /\ credit = share
    BY <1>2, <1>7
  <2> QED BY <1>2, <2>1
<1> QED BY <1>6, <1>7 DEF share

LEMMA QuoteEarned == ASSUME QuoteInv, [Q!Next]_(Q!vars) PROVE Q!Earned
<1> SUFFICES ASSUME Q!Change PROVE Q!Earned
  BY DEF Q!Earned
<1> DEFINE total == Q!DaysBetween(from, to)
           days == Q!DaysBetween(quoteNow, to)
<1>1. PICK base \in Prices : base > price /\ Q!Pays(base, Q!Credit(base))
  BY DEF Q!Change
<1>2. bill'.credit = Q!Credit(base) /\ bill'.base = base
  BY <1>1 DEF Q!Pays, Q!Quoted
<1>3. total \in Nat \ {0} /\ days \in Nat \ {0} /\ price \in Nat /\ base \in Nat
  BY BetweenFacts, MoneyAssumption DEF QuoteInv, Q!Change, Q!Unused
<1>4. Q!DaysBetween(from, quoteNow) + days = total /\ Q!DaysBetween(from, quoteNow) \in Int
  <2>1. Q!DayNumber(from) \in Int /\ Q!DayNumber(quoteNow) \in Int /\ Q!DayNumber(to) \in Int
    BY NumberFacts DEF QuoteInv
  <2> QED BY <2>1 DEF Q!DaysBetween
<1> HIDE DEF total, days
<1>5. Q!Credit(base) = LET used == IF days < total THEN days ELSE total
                           share == (price * used) \div total
                       IN  IF share < base THEN share ELSE base
  BY DEF Q!Credit, Q!Unused, total, days
<1>6. /\ Q!Credit(base) * total <= price * days
      /\ days <= total /\ Q!Credit(base) < base => (Q!Credit(base) + 1) * total > price * days
  BY <1>3, <1>5, CreditFacts
<1>7. Q!DaysBetween(from, quoteNow) >= 0 => days <= total
  BY <1>3, <1>4
<1> QED BY <1>2, <1>6, <1>7 DEF Q!Earned, total, days

(* No change that waits for the end of a period cuts a paid one short,     *)
(* however the job of any number of servers, payments and people who       *)
(* change plans interleave (applyDueChanges); and for any prices and       *)
(* months, the credit of a change is what the days not used cost, rounded  *)
(* down to a paisa (quoteFor).                                             *)
THEOREM PaidTimeKeptHolds == SpecMC => PaidTimeKept
<1> DEFINE Inv == (part = "period" => ChangeInv) /\ (part = "quote" => QuoteInv)
<1>1. InitMC => Inv
  BY PartInit, ChangeInit, QuoteInit
<1>2. Inv /\ [NextMC]_all => Inv'
  BY PartStep, ChangeNext, QuoteKeeps
<1>3. Inv /\ [NextMC]_all => [ /\ part = "period" => S!KeepsPaidPeriod
                               /\ part = "quote" => Q!Earned ]_all
  BY PartStep, ChangeNext, QuoteEarned
<1> QED BY <1>1, <1>2, <1>3, PTL DEF SpecMC, PaidTimeKept

(* What was billed: a quote of a price and a credit no larger than it.     *)
BillInv ==
  \E base, credit \in Nat, inclusive, intra \in BOOLEAN, rate \in Rates :
    credit <= base /\ bill = Q!Quoted(base, credit, inclusive, intra, rate)

LEMMA CreditBelow == ASSUME QuoteInv, Q!Change, NEW base \in Nat PROVE Q!Credit(base) \in Nat /\ Q!Credit(base) <= base
<1> DEFINE total == Q!DaysBetween(from, to)
           days == IF Q!Unused < total THEN Q!Unused ELSE total
<1>1. total \in Nat \ {0} /\ days \in Nat /\ price \in Nat
  BY BetweenFacts DEF QuoteInv, Q!Change, Q!Unused
<1> HIDE DEF total, days
<1>2. price * days \in Nat
  BY <1>1
<1>3. (price * days) \div total \in Nat
  BY <1>1, <1>2, DivisionFacts
<1>4. Q!Credit(base) = IF (price * days) \div total < base THEN (price * days) \div total ELSE base
  BY DEF Q!Credit, total, days
<1> QED BY <1>3, <1>4

LEMMA BillInit == ASSUME Q!Init PROVE BillInv
<1>1. PICK inclusive \in BOOLEAN, intra \in BOOLEAN, rate \in Rates : bill = Q!Quoted(price, 0, inclusive, intra, rate)
  BY DEF Q!Init
<1>2. price \in Nat
  BY MoneyAssumption DEF Q!Init
<1> QED BY <1>1, <1>2 DEF BillInv

LEMMA BillKeeps == ASSUME QuoteInv, BillInv, [Q!Next]_(Q!vars) PROVE BillInv'
<1>1. ASSUME NEW base \in Nat, NEW credit \in Nat, credit <= base, Q!Pays(base, credit) PROVE BillInv'
  <2>1. bill.inclusive \in BOOLEAN /\ bill.rate \in Rates
    BY DEF BillInv, Q!Quoted
  <2>2. bill' = Q!Quoted(base, credit, bill.inclusive, bill.tax.split.igst = 0, bill.rate)
    BY <1>1 DEF Q!Pays
  <2>3. PICK inclusive \in BOOLEAN, rate \in Rates, intra \in BOOLEAN :
          bill' = Q!Quoted(base, credit, inclusive, intra, rate)
    BY <2>1, <2>2
  <2> QED BY <1>1, <2>3 DEF BillInv
<1>2. CASE Q!Renew
  BY <1>1, <1>2 DEF Q!Renew, QuoteInv
<1>3. CASE Q!Change
  <2>1. PICK base \in Prices : Q!Pays(base, Q!Credit(base))
    BY <1>3 DEF Q!Change
  <2> QED BY <1>1, <1>3, <2>1, CreditBelow, MoneyAssumption
<1>4. CASE UNCHANGED bill
  BY <1>4 DEF BillInv
<1> QED BY <1>2, <1>3, <1>4 DEF Q!Next, Q!vars, Q!Pass

(* Rounding is off by half a unit at most.                                 *)
LEMMA RoundFacts ==
  ASSUME NEW n \in Nat, NEW d \in Nat \ {0}
  PROVE  Q!Round(n, d) \in Nat /\ 2 * (d * Q!Round(n, d) - n) \in (-d)..d
<1> DEFINE q == Q!Round(n, d)
<1>0. 2 * n + d \in Nat /\ 2 * d \in Nat \ {0}
  OBVIOUS
<1>1. q \in Nat /\ q * (2 * d) <= 2 * n + d /\ 2 * n + d < (q + 1) * (2 * d)
  BY <1>0, DivisionFacts DEF Q!Round
<1> HIDE DEF q
<1>2. q * (2 * d) = 2 * (d * q) /\ (q + 1) * (2 * d) = 2 * (d * q) + 2 * d /\ d * q \in Nat
  BY <1>1
<1> QED BY <1>1, <1>2 DEF q

LEMMA PartsFacts == ASSUME BillInv PROVE Q!PartsAddUp
<1>1. PICK base \in Nat, credit \in Nat, inclusive \in BOOLEAN, intra \in BOOLEAN, rate \in Rates :
        credit <= base /\ bill = Q!Quoted(base, credit, inclusive, intra, rate)
  BY DEF BillInv
<1>2. rate \in Nat /\ base - credit \in Nat
  BY <1>1, MoneyAssumption
<1> DEFINE amount == base - credit
           taxable == IF inclusive THEN Q!Round(amount * 100, 100 + rate) ELSE amount
           tax == IF inclusive THEN amount - taxable ELSE Q!Round(taxable * rate, 100)
           split == Q!Split(tax, intra)
<1>3. /\ bill.tax.taxable = taxable /\ bill.tax.tax = tax /\ bill.tax.total = taxable + tax
      /\ bill.tax.split = split /\ bill.rate = rate /\ bill.inclusive = inclusive
      /\ bill.base = base /\ bill.credit = credit
  BY <1>1 DEF Q!Quoted, Q!Taxed
<1>4. /\ taxable \in Nat /\ tax \in Int
      /\ 2 * (100 * tax - rate * taxable) \in (-(100 + rate))..(100 + rate)
  <2>1. CASE inclusive
    <3> DEFINE t == Q!Round(amount * 100, 100 + rate)
    <3>1. t \in Nat /\ 2 * ((100 + rate) * t - amount * 100) \in (-(100 + rate))..(100 + rate)
      BY <1>2, RoundFacts
    <3> HIDE DEF t
    <3>2. (100 + rate) * t = 100 * t + rate * t /\ rate * t \in Nat
      BY <1>2, <3>1
    <3> QED BY <1>2, <2>1, <3>1, <3>2 DEF t
  <2>2. CASE ~inclusive
    <3> DEFINE t == Q!Round(amount * rate, 100)
    <3>0. amount * rate \in Nat
      BY <1>2
    <3>1. PICK d \in Nat \ {0} : d = 100
      OBVIOUS
    <3>2. Q!Round(amount * rate, d) \in Nat /\ 2 * (d * Q!Round(amount * rate, d) - amount * rate) \in (-d)..d
      BY <3>0, RoundFacts
    <3>3. t \in Nat /\ 2 * (100 * t - amount * rate) \in (-100)..100
      BY <3>0, <3>1, <3>2
    <3> HIDE DEF t
    <3>4. rate * amount = amount * rate
      BY <1>2
    <3> QED BY <1>2, <2>2, <3>0, <3>3, <3>4 DEF t
  <2> QED BY <2>1, <2>2
<1>5. split.cgst + split.sgst + split.igst = tax /\ split.cgst - split.sgst \in 0..1
  <2> HIDE DEF tax
  <2> QED BY <1>4 DEF Q!Split, Q!Round
<1>6. inclusive => taxable + tax = base - credit
  BY <1>2, <1>4
<1> HIDE DEF taxable, tax, split
<1> QED BY <1>3, <1>4, <1>5, <1>6 DEF Q!PartsAddUp

(* A bill's parts add up to its total, the halves of its tax differ by a   *)
(* paisa at most, and the tax is right to half a paisa, for any prices and *)
(* rates, quoted with the tax or without it (computeTax, gst.js:30).       *)
THEOREM PartsAddUpHolds == SpecMC => [](part = "quote" => Q!PartsAddUp)
<1> DEFINE Inv == part = "quote" => QuoteInv /\ BillInv
<1>1. InitMC => Inv
  BY PartInit, QuoteInit, BillInit
<1>2. Inv /\ [NextMC]_all => Inv'
  BY PartStep, QuoteKeeps, BillKeeps
<1>3. Inv => (part = "quote" => Q!PartsAddUp)
  BY PartsFacts
<1> QED BY <1>1, <1>2, <1>3, PTL DEF SpecMC
=============================================================================
