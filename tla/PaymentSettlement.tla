-------------------------- MODULE PaymentSettlement --------------------------
(***************************************************************************)
(* Paying online (services/billingService.js): checkouts of one company,   *)
(* and settleOrder, which three callers reach in their own time: the       *)
(* gateway's webhook, the browser's report and the reconciliation job.     *)
(*                                                                         *)
(* A gateway call, a statement and a transaction are one step each; a      *)
(* caller may stop between any two of them.  Days are numbers, a plan is   *)
(* its rank in the catalogue and every period is one Month long.  Prices,  *)
(* tax, invoices' contents, website orders and autopay are left out.       *)
(***************************************************************************)
EXTENDS Integers, Sequences

CONSTANTS
  Orders,     \* bound: orders the company makes, numbered as they are made
  Payments,   \* bound: attempts to pay at the gateway, numbered likewise
  Late,       \* bound: orders that may still be open a day, or three, later
  Odd,        \* payments whose amount is not the order's
  Web,        \* requests under way at the same time
  Pump,       \* the reconciliation job
  Plans,      \* ranks of the plans for sale; 0 is the Free plan
  Month,      \* days of a period
  Grace,      \* days a late renewal still follows on (7 in the code)
  FirstPlan, FirstEnd, \* the company's plan and last day at the beginning
  MaxDay,     \* bound: last day looked at
  MaxCrashes, \* bound: how many calls are cut off
  None

Callers == Web \cup {Pump}

ASSUME PaymentAssumption ==
  /\ Orders \subseteq Nat /\ Payments \subseteq Nat
  /\ Late \subseteq Orders /\ Odd \subseteq Payments /\ None \notin Orders \cup Payments
  /\ Pump \notin Web
  /\ Plans \subseteq Nat \ {0} /\ FirstPlan \in Plans \cup {0}
  /\ Month \in Nat \ {0}
  /\ {Grace, FirstEnd, MaxDay, MaxCrashes} \subseteq Nat
  /\ FirstPlan = 0 => FirstEnd = 0

VARIABLES
  order,   \* payment_orders; gid: gateway_order_id is set, kind and start: from the
           \* quote, checked: last_checked_at is later than expires_at
  age,     \* of an order: "past" its expires_at, "closed" after three days
  pay,     \* the gateway's payments
  handled, \* gateway_webhook_receipts with processed_at
  company, \* tenants.plan, period_end
  today,
  ledger,  \* subscription_payments, each with its invoice
  call,    \* the calls under way; seen: the payment's status as the caller knows it
  crashes

vars == <<order, age, pay, handled, company, today, ledger, call, crashes>>
clock == <<age, today>>
books == <<company, ledger>>

OrderStatuses == {"none", "created", "attempted", "paid", "failed", "expired", "mismatch"}
PayStatuses == {"none", "authorized", "captured", "failed"}
Pcs == {"idle", "create", "fetch", "capture", "settle", "mark", "list"}

TypeOK ==
  /\ order \in [Orders -> [status : OrderStatuses, gid : BOOLEAN, plan : Plans \cup {0},
                           kind : {"new", "renewal", "change"}, start : Nat, checked : BOOLEAN]]
  /\ age \in [Orders -> {"fresh", "past", "closed"}]
  /\ pay \in [Payments -> [status : PayStatuses, order : Orders \cup {None}]]
  /\ handled \subseteq Payments \X PayStatuses
  /\ company \in [plan : Plans \cup {0}, end : Nat]
  /\ {today, crashes} \subseteq Nat
  /\ ledger \in Seq([order : Orders, pay : Payments, plan : Plans \cup {0}, end : Nat])
  /\ call \in [Callers -> [pc : Pcs, job : {"none", "checkout", "webhook", "verify", "check"},
                           order : Orders \cup {None}, pay : Payments \cup {None},
                           event : PayStatuses, seen : PayStatuses,
                           todo : SUBSET (Payments \X PayStatuses)]]
  /\ \A p \in Payments : pay[p].status # "none" => pay[p].order \in Orders

Idle == [pc |-> "idle", job |-> "none", order |-> None, pay |-> None,
         event |-> "none", seen |-> "none", todo |-> {}]
NoOrder == [status |-> "none", gid |-> FALSE, plan |-> 0, kind |-> "new", start |-> 0,
            checked |-> FALSE]

Init ==
  /\ order = [o \in Orders |-> NoOrder]
  /\ age = [o \in Orders |-> "fresh"]
  /\ pay = [p \in Payments |-> [status |-> "none", order |-> None]]
  /\ handled = {}
  /\ company = [plan |-> FirstPlan, end |-> FirstEnd]
  /\ today = 0 /\ crashes = 0
  /\ ledger = <<>>
  /\ call = [c \in Callers |-> Idle]

Become(c, state) == call' = [call EXCEPT ![c] = state]
Goto(c, pc) == call' = [call EXCEPT ![c].pc = pc]
SetStatus(o, status) == order' = [order EXCEPT ![o].status = status]
Settled(o) == order[o].status \in {"paid", "mismatch"}

-----------------------------------------------------------------------------
(* periodFor and quoteFor: a renewal follows on from the running period, a *)
(* bigger plan starts a new one today, a smaller one is refused.           *)
Live == company.plan # 0 /\ today - company.end <= Grace
Running == Live /\ company.end > today

FollowOn == IF Live THEN company.end ELSE today

Kind(plan) ==
  IF ~Live THEN "new" ELSE IF Running /\ plan # company.plan THEN "change" ELSE "renewal"

\* Mutant: an order keeps the period it was quoted with.
StartQuoted(o) == IF order[o].kind = "change" THEN today ELSE order[o].start

(* Where the period of an order starts when it is settled.                 *)
Start(o) == IF order[o].kind = "change" THEN today ELSE FollowOn

-----------------------------------------------------------------------------
(* createCheckout: reuses the open order for the same thing; a new one is  *)
(* stored before the gateway is asked for its id.                          *)
Reusable(o, plan) ==
  /\ order[o].status \in {"created", "attempted"} /\ order[o].gid /\ age[o] = "fresh"
  /\ order[o].plan = plan /\ order[o].kind = Kind(plan)  \* total_minor: price less credit
  /\ order[o].start = IF Kind(plan) = "change" THEN today ELSE FollowOn

Checkout(c, plan) ==
  /\ call[c] = Idle
  /\ ~(Running /\ plan < company.plan)
  /\ \A o \in Orders : ~Reusable(o, plan)
  /\ \E o \in Orders :
       /\ order[o].status = "none" /\ \A q \in Orders : q < o => order[q].status # "none"
       /\ order' = [order EXCEPT ![o] =
            [status |-> "created", gid |-> FALSE, plan |-> plan, kind |-> Kind(plan),
             start |-> IF Kind(plan) = "change" THEN today ELSE FollowOn, checked |-> FALSE]]
       /\ Become(c, [Idle EXCEPT !.pc = "create", !.job = "checkout", !.order = o])
  /\ UNCHANGED <<handled, crashes, pay, clock, books>>

CheckoutMade(c) ==
  /\ call[c].pc = "create"
  /\ \/ order' = [order EXCEPT ![call[c].order].gid = TRUE]
     \/ SetStatus(call[c].order, "failed")
  /\ Become(c, Idle)
  /\ UNCHANGED <<handled, crashes, pay, clock, books>>

-----------------------------------------------------------------------------
(* The gateway (outside the repository): a customer pays an order it       *)
(* knows; of the payments of one order at most one is captured.  Whatever  *)
(* became of a payment is an event, delivered never, once or many times.   *)
Sent ==
  {<<p, pay[p].status>> : p \in {q \in Payments : pay[q].status # "none"}} \cup
  {<<p, "authorized">> : p \in {q \in Payments : pay[q].status = "captured"}}

Unpaid(o) == \A p \in Payments : pay[p].order = o => pay[p].status # "captured"

Attempt(p, o, status) ==
  /\ pay[p].status = "none" /\ \A q \in Payments : q < p => pay[q].status # "none"
  /\ order[o].gid /\ Unpaid(o)
  /\ pay' = [pay EXCEPT ![p] = [status |-> status, order |-> o]]
  /\ UNCHANGED <<order, handled, call, crashes, clock, books>>

Capturable(p) == pay[p].status = "authorized" /\ Unpaid(pay[p].order)

CapturedByItself(p) ==
  /\ Capturable(p)
  /\ pay' = [pay EXCEPT ![p].status = "captured"]
  /\ UNCHANGED <<order, handled, call, crashes, clock, books>>

-----------------------------------------------------------------------------
(* The three ways in.                                                      *)
\* Mutant: the receipt is written before the event is handled.
ReceiveEager(c, e) ==
  /\ call[c] = Idle
  /\ e \in Sent \ handled
  /\ Become(c, [Idle EXCEPT !.pc = IF e[2] = "authorized" THEN "capture" ELSE "settle",
                            !.job = "webhook", !.order = pay[e[1]].order, !.pay = e[1],
                            !.event = e[2], !.seen = e[2]])
  /\ handled' = handled \cup {e}
  /\ UNCHANGED <<order, crashes, pay, clock, books>>

(* razorpayWebhook and handleEvent: a receipt without processed_at is      *)
(* claimed again, by several deliveries at once too.                       *)
Receive(c, e) ==
  /\ call[c] = Idle
  /\ e \in Sent \ handled
  /\ Become(c, [Idle EXCEPT !.pc = IF e[2] = "authorized" THEN "capture" ELSE "settle",
                            !.job = "webhook", !.order = pay[e[1]].order, !.pay = e[1],
                            !.event = e[2], !.seen = e[2]])
  /\ UNCHANGED <<order, handled, crashes, pay, clock, books>>

\* Mutant: what the browser is told is written to the order.
AttemptedProcessing(o) ==
  IF order[o].status \in {"created", "failed"} THEN "processing" ELSE order[o].status

\* Mutant: the order becomes "attempted" whatever it was.
AttemptedAlways(o) == "attempted"

AttemptedFrom(o) ==
  IF order[o].status \in {"created", "failed"} THEN "attempted" ELSE order[o].status

(* verifyCheckout: the signature shows that the payment is of this order.  *)
Verify(c, p) ==
  /\ call[c] = Idle
  /\ pay[p].status \in {"authorized", "captured"}
  /\ SetStatus(pay[p].order, AttemptedFrom(pay[p].order))
  /\ Become(c, [Idle EXCEPT !.pc = "fetch", !.job = "verify", !.order = pay[p].order, !.pay = p])
  /\ UNCHANGED <<handled, crashes, pay, clock, books>>

(* The gateway answers, or the report is left to the other two.            *)
Fetch(c) ==
  /\ call[c].pc = "fetch"
  /\ LET status == pay[call[c].pay].status
     IN  \/ Become(c, [call[c] EXCEPT !.pc = IF status = "authorized" THEN "capture" ELSE "settle",
                                      !.seen = status])
         \/ Become(c, Idle)
  /\ UNCHANGED <<order, handled, crashes, pay, clock, books>>

Due(o) == order[o].status \in {"created", "attempted", "failed"} /\ order[o].gid /\ age[o] # "closed"

(* reconcileOrders asks for the payments of an order and works them off.   *)
Check(o) ==
  /\ call[Pump] = Idle
  /\ Due(o)
  /\ Become(Pump, [Idle EXCEPT !.pc = "list", !.job = "check", !.order = o, !.todo =
       {<<p, pay[p].status>> : p \in {q \in Payments : /\ pay[q].order = o
                                                       /\ pay[q].status \in {"authorized", "captured"}}}])
  /\ UNCHANGED <<order, handled, crashes, pay, clock, books>>

CheckNext ==
  /\ call[Pump].pc = "list"
  /\ \E x \in call[Pump].todo :
       Become(Pump, [call[Pump] EXCEPT !.pc = IF x[2] = "authorized" THEN "capture" ELSE "settle",
                                       !.pay = x[1], !.seen = x[2], !.todo = @ \ {x}])
  /\ UNCHANGED <<order, handled, crashes, pay, clock, books>>

CheckDone ==
  /\ call[Pump].pc = "list" /\ call[Pump].todo = {}
  /\ order' = [order EXCEPT ![call[Pump].order].checked = age[call[Pump].order] # "fresh"]
  /\ Become(Pump, Idle)
  /\ UNCHANGED <<handled, crashes, pay, clock, books>>

\* Mutant: an order is closed once its time is over, checked or not.
ExpirableUnchecked(o) == order[o].status \in {"created", "attempted"} /\ age[o] # "fresh"

Expirable(o) ==
  order[o].status \in {"created", "attempted"} /\ age[o] # "fresh" /\ order[o].checked

ExpireOrders ==
  /\ \E o \in Orders : Expirable(o)
  /\ order' = [o \in Orders |-> IF Expirable(o) THEN [order[o] EXCEPT !.status = "expired"] ELSE order[o]]
  /\ UNCHANGED <<handled, call, crashes, pay, clock, books>>

-----------------------------------------------------------------------------
(* What they have in common: an authorised payment is captured (the call   *)
(* may fail, or succeed without us hearing of it), and settleOrder runs.   *)
Capture(c) ==
  /\ call[c].pc = "capture"
  /\ LET p == call[c].pay
         failed == Goto(c, IF call[c].job = "check" THEN "list" ELSE "settle")
     IN  \/ /\ Capturable(p)
            /\ pay' = [pay EXCEPT ![p].status = "captured"]
            /\ failed \/ Become(c, [call[c] EXCEPT !.pc = "settle", !.seen = "captured"])
         \/ failed /\ UNCHANGED pay
  /\ UNCHANGED <<order, handled, crashes, clock, books>>

\* Mutant: a payment that is only authorised is good enough.
GoodAuthorized(p, seen) == seen \in {"authorized", "captured"} /\ p \notin Odd

\* Mutant: the amount is not compared with the order's.
GoodAnyAmount(p, seen) == seen = "captured"

Good(p, seen) == seen = "captured" /\ p \notin Odd

\* Mutant: the order is not looked at again under its lock.
SettleOrderUnlocked(o, p, seen) ==
  IF Good(p, seen)
  THEN /\ SetStatus(o, "paid")
       /\ company' = [plan |-> order[o].plan, end |-> Start(o) + Month]
       /\ ledger' = Append(ledger, [order |-> o, pay |-> p, plan |-> order[o].plan,
                                    end |-> Start(o) + Month])
  ELSE UNCHANGED <<order, books>>

SettleOrder(o, p, seen) ==
  \/ /\ Settled(o)
     /\ UNCHANGED <<order, books>>
  \/ /\ ~Settled(o) /\ ~Good(p, seen)
     /\ SetStatus(o, CASE seen = "failed" -> "failed"
                       [] seen = "authorized" -> "attempted"
                       [] seen = "captured" -> "mismatch")
     /\ UNCHANGED books
  \/ /\ ~Settled(o) /\ Good(p, seen)
     /\ SetStatus(o, "paid")
     /\ company' = [plan |-> order[o].plan, end |-> Start(o) + Month]
     /\ ledger' = Append(ledger, [order |-> o, pay |-> p, plan |-> order[o].plan,
                                  end |-> Start(o) + Month])

Settle(c) ==
  /\ call[c].pc = "settle"
  /\ SettleOrder(call[c].order, call[c].pay, call[c].seen)
  /\ CASE call[c].job = "webhook" -> Goto(c, "mark")
       [] call[c].job = "verify" -> Become(c, Idle)
       [] call[c].job = "check" -> Goto(c, "list")
  /\ UNCHANGED <<handled, crashes, pay, clock>>

MarkHandled(c) ==
  /\ call[c].pc = "mark"
  /\ handled' = handled \cup {<<call[c].pay, call[c].event>>}
  /\ Become(c, Idle)
  /\ UNCHANGED <<order, crashes, pay, clock, books>>

(* The process ends, or a statement fails and the call gives up.           *)
Stop(c) ==
  /\ call[c] # Idle /\ crashes < MaxCrashes
  /\ crashes' = crashes + 1
  /\ Become(c, Idle)
  /\ UNCHANGED <<order, handled, pay, clock, books>>

-----------------------------------------------------------------------------
Tomorrow ==
  /\ today < MaxDay
  /\ today' = today + 1
  /\ UNCHANGED <<order, age, handled, call, crashes, pay, books>>

Ages(o) ==
  /\ o \in Late /\ order[o].status # "none" /\ age[o] # "closed"
  /\ age' = [age EXCEPT ![o] = IF @ = "fresh" THEN "past" ELSE "closed"]
  /\ UNCHANGED <<order, today, handled, call, crashes, pay, books>>

Step(c) == CheckoutMade(c) \/ Fetch(c) \/ Capture(c) \/ Settle(c) \/ MarkHandled(c)

Request(c) ==
  \/ \E plan \in Plans : Checkout(c, plan)
  \/ \E e \in Sent : Receive(c, e)
  \/ \E p \in Payments : Verify(c, p)

Next ==
  \/ \E c \in Web : Request(c)
  \/ \E c \in Callers : Step(c) \/ Stop(c)
  \/ \E o \in Orders : Check(o) \/ Ages(o)
  \/ CheckNext \/ CheckDone \/ ExpireOrders \/ Tomorrow
  \/ \E p \in Payments :
       \/ CapturedByItself(p)
       \/ \E o \in Orders, s \in {"authorized", "failed"} : Attempt(p, o, s)

Spec == Init /\ [][Next]_vars

(* Only the reconciliation job is relied upon: it comes round to every due *)
(* order, and finishes what it began.                                      *)
Fairness ==
  /\ WF_vars(Step(Pump)) /\ WF_vars(CheckNext) /\ WF_vars(CheckDone)
  /\ \A o \in Orders : SF_vars(Check(o))

FairSpec == Spec /\ Fairness

-----------------------------------------------------------------------------
(* "Records a captured payment against its order, exactly once": an order  *)
(* is paid when it has one row in the ledger, and no payment has two.      *)
RecordedOnce ==
  /\ \A i, j \in 1..Len(ledger) :
       i # j => ledger[i].order # ledger[j].order /\ ledger[i].pay # ledger[j].pay
  /\ \A o \in Orders : order[o].status = "paid" <=> \E i \in 1..Len(ledger) : ledger[i].order = o

(* No plan without money: what was recorded was captured, for that order.  *)
RecordedIsCaptured ==
  \A i \in 1..Len(ledger) :
    /\ pay[ledger[i].pay] = [status |-> "captured", order |-> ledger[i].order]
    /\ ledger[i].pay \notin Odd

(* An event that will not be delivered again has had its effect.           *)
HandledIsApplied ==
  \A e \in handled : e[2] = "captured" => Settled(pay[e[1]].order)

(* "Paying early never shortens a period": without a change of plan each   *)
(* recorded payment adds a whole period, in whatever order they arrive.    *)
NoPeriodLost ==
  (\A o \in Orders : order[o].status = "paid" => order[o].kind # "change") =>
    company.end >= FirstEnd + Month * Len(ledger)

(* A settled order stays as it is, whatever arrives late.                  *)
SettledStays == [][\A o \in Orders : Settled(o) => order'[o].status = order[o].status]_vars

(* "Finds payments that happened without a webhook": a payment captured    *)
(* while its order is open is settled, without a webhook and a browser, or *)
(* the job failed to come round for three days; closing unpaid orders does *)
(* not get in between, except when the list of payments was asked for      *)
(* before the capture and the order's time ran out before the answer was   *)
(* worked off.                                                             *)
CapturedSettles ==
  \A p \in Payments, o \in Orders :
    pay[p] = [status |-> "captured", order |-> o] /\ age[o] = "fresh" /\ call[Pump].order # o
      ~> Settled(o) \/ age[o] = "closed"
=============================================================================
