-------------------------------- MODULE Autopay --------------------------------
(***************************************************************************)
(* Autopay of one company (services/billingService.js): the owner sets it  *)
(* up, the gateway charges each month and reports what happened by events, *)
(* which arrive late, in any order, more than once and two at a time.      *)
(*                                                                         *)
(* A charge becomes an order of ours, settled like any other: that settle  *)
(* is the transaction of PaymentSettlement, one step here.  The gateway's  *)
(* side is external.  Plans, amounts and tax are left out; what Razorpay   *)
(* calls a plan is made beforehand.                                        *)
(***************************************************************************)
EXTENDS Naturals, FiniteSets

CONSTANTS
  MaxSubs,    \* bound: subscriptions the gateway makes
  Charges,    \* charges it can take
  MaxCalls,   \* bound: requests and deliveries at a time
  MaxTurns    \* bound: requests of the owner, turns of the gateway, failures

VARIABLES
  row,      \* autopay_subscriptions: the status, or "none"
  gw,       \* the gateway's subscriptions
  charge,   \* captured charges: the subscription, or none
  order,    \* payment_orders, by the gateway's order of the charge
  settled,  \* how often a charge has been recorded as a payment
  event,    \* events the gateway has not been thanked for
  call, turns

vars == <<row, gw, charge, order, settled, event, call, turns>>

Subs == 1..MaxSubs
Calls == 1..MaxCalls
NoSub == 0
NoCharge == "none"

(* idx_autopay_live, liveAutopay: one per company.                         *)
LiveStatuses == {"created", "authenticated", "active", "pending", "halted"}
Live == {s \in Subs : row[s] \in LiveStatuses}

Statuses == LiveStatuses \cup {"none", "cancelled", "completed"}
Names == {"authenticated", "activated", "charged", "pending", "halted", "cancelled", "completed"}
Events == [name : Names, sub : Subs, charge : Charges \cup {NoCharge}]
NoEvent == [name |-> "none", sub |-> NoSub, charge |-> NoCharge]

TypeOK ==
  /\ row \in [Subs -> Statuses]
  /\ gw \in [Subs -> {"none", "made", "on", "stuck", "off"}]
  /\ charge \in [Charges -> Subs \cup {NoSub}]
  /\ order \in [Charges -> {"none", "attempted", "paid"}]
  /\ settled \in [Charges -> Nat]
  /\ event \subseteq Events
  /\ call \in [Calls -> [pc : {"idle", "insert", "cancel", "write", "settle",
                               "record", "set", "thank"},
                         sub : Subs \cup {NoSub}, seen : Statuses, event : Events \cup {NoEvent},
                         charge : Charges \cup {NoCharge}]]
  /\ turns \in 0..MaxTurns

Idle == [pc |-> "idle", sub |-> NoSub, seen |-> "none", event |-> NoEvent, charge |-> NoCharge]

Init ==
  /\ row = [s \in Subs |-> "none"] /\ gw = [s \in Subs |-> "none"]
  /\ charge = [c \in Charges |-> NoSub]
  /\ order = [c \in Charges |-> "none"] /\ settled = [c \in Charges |-> 0]
  /\ event = {} /\ call = [p \in Calls |-> Idle] /\ turns = 0

(* The first that is free takes it: they are alike.                        *)
Begin(p, for) ==
  /\ call[p].pc = "idle" /\ \A q \in 1..(p - 1) : call[q].pc # "idle"
  /\ call' = [call EXCEPT ![p] = for]
Goto(p, pc) == call' = [call EXCEPT ![p].pc = pc]
End(p) == call' = [call EXCEPT ![p] = Idle]

-----------------------------------------------------------------------------
(* The owner.                                                              *)

Turn == turns < MaxTurns /\ turns' = turns + 1

(* startAutopay: none is live, so the gateway makes one; its row is        *)
(* inserted, unless another request was quicker.                           *)
StartAutopay(p, s) ==
  /\ Turn
  /\ Live = {} /\ gw[s] = "none" /\ \A t \in 1..(s - 1) : gw[t] # "none"
  /\ gw' = [gw EXCEPT ![s] = "made"]
  /\ Begin(p, [Idle EXCEPT !.pc = "insert", !.sub = s])
  /\ UNCHANGED <<row, charge, order, settled, event>>

InsertAutopay(p) ==
  /\ call[p].pc = "insert"
  /\ row' = IF Live = {} THEN [row EXCEPT ![call[p].sub] = "created"] ELSE row
  /\ End(p)
  /\ UNCHANGED <<gw, charge, order, settled, event, turns>>

(* verifyAutopay: the browser comes back from the checkout, perhaps with a *)
(* first charge.                                                           *)
ChargesOf(s) == {c \in Charges : charge[c] = s}

VerifyAutopay(p, s) ==
  /\ Turn
  /\ row[s] # "none" /\ gw[s] \notin {"none", "made"}
  /\ row' = [row EXCEPT ![s] = IF @ = "created" THEN "authenticated" ELSE @]
  /\ \/ ChargesOf(s) = {} /\ call[p].pc = "idle" /\ UNCHANGED call
     \/ \E c \in ChargesOf(s) : Begin(p, [Idle EXCEPT !.pc = "settle", !.sub = s, !.charge = c])
  /\ UNCHANGED <<gw, charge, order, settled, event>>

(* cancelAutopay, by the owner or after a payment for another plan.        *)
CancelAutopay(p, s) ==
  /\ Turn
  /\ s \in Live
  /\ Begin(p, [Idle EXCEPT !.pc = "cancel", !.sub = s])
  /\ UNCHANGED <<row, gw, charge, order, settled, event>>

Reported(name, s) == event \cup {[name |-> name, sub |-> s, charge |-> NoCharge]}

(* Mutant of GivesUp: a gateway that cannot be reached is passed over. *)
GivesUpNever(p) == Goto(p, "write")

GivesUp(p) == End(p)

(* Off at the gateway first; one that is off already is fine.              *)
CancelAtGateway(p) ==
  LET s == call[p].sub
  IN  /\ call[p].pc = "cancel"
      /\ \/ /\ gw' = [gw EXCEPT ![s] = "off"]
            /\ event' = IF gw[s] = "off" THEN event ELSE Reported("cancelled", s)
            /\ Goto(p, "write") /\ UNCHANGED turns
         \/ /\ Turn
            /\ GivesUp(p) /\ UNCHANGED <<gw, event>>
      /\ UNCHANGED <<row, charge, order, settled>>

CancelWrite(p) ==
  /\ call[p].pc = "write"
  /\ row' = [row EXCEPT ![call[p].sub] = "cancelled"]
  /\ End(p)
  /\ UNCHANGED <<gw, charge, order, settled, event, turns>>

-----------------------------------------------------------------------------
(* The gateway (external).                                                 *)

GatewayTurns == Turn /\ UNCHANGED <<row, charge, order, settled, call>>

(* The owner authorises it in the checkout, which is shown for a row of    *)
(* ours only; a card that failed is charged again after it was replaced.   *)
Authorise(s) ==
  /\ gw[s] = "made" /\ row[s] # "none" /\ gw' = [gw EXCEPT ![s] = "on"]
  /\ event' = Reported("authenticated", s)
  /\ GatewayTurns
Pending(s) == gw[s] = "on" /\ UNCHANGED gw /\ event' = Reported("pending", s) /\ GatewayTurns
Halt(s) == gw[s] = "on" /\ gw' = [gw EXCEPT ![s] = "stuck"] /\ event' = Reported("halted", s) /\ GatewayTurns
Resume(s) == gw[s] = "stuck" /\ gw' = [gw EXCEPT ![s] = "on"] /\ event' = Reported("activated", s) /\ GatewayTurns
Finish(s) ==
  /\ gw[s] \in {"on", "stuck"} /\ gw' = [gw EXCEPT ![s] = "off"]
  /\ \E name \in {"cancelled", "completed"} : event' = Reported(name, s)
  /\ GatewayTurns

TakeCharge(s, c) ==
  /\ Turn
  /\ gw[s] = "on" /\ charge[c] = NoSub
  /\ charge' = [charge EXCEPT ![c] = s]
  /\ event' = Reported("activated", s) \cup {[name |-> "charged", sub |-> s, charge |-> c]}
  /\ UNCHANGED <<row, gw, order, settled, call>>

-----------------------------------------------------------------------------
(* handleSubscriptionEvent: the row is read, the status set afterwards.    *)

Receive(p, e) ==
  /\ e \in event
  /\ Begin(p, [pc |-> IF e.name = "charged" THEN "settle" ELSE "set",
               sub |-> e.sub, seen |-> row[e.sub], event |-> e, charge |-> e.charge])
  /\ UNCHANGED <<row, gw, charge, order, settled, event, turns>>

(* settleCharge: an order for the charge, if there is none, and settleOrder. *)
SettleCharge(p) ==
  /\ call[p].pc = "settle"
  /\ order' = [order EXCEPT ![call[p].charge] = IF @ = "none" THEN "attempted" ELSE @]
  /\ Goto(p, "record")
  /\ UNCHANGED <<row, gw, charge, settled, event, turns>>

(* Mutant of Unsettled: an order is settled for everyone who asks. *)
UnsettledAlways(c) == TRUE

Unsettled(c) == order[c] # "paid"

SettleOrder(p) ==
  LET c == call[p].charge
  IN  /\ call[p].pc = "record"
      /\ IF Unsettled(c)
         THEN order' = [order EXCEPT ![c] = "paid"] /\ settled' = [settled EXCEPT ![c] = @ + 1]
         ELSE UNCHANGED <<order, settled>>
      /\ IF call[p].event = NoEvent THEN End(p) ELSE Goto(p, "set")
      /\ UNCHANGED <<row, gw, charge, event, turns>>

(* Mutant of NewStatus: the event's name is the status. *)
NewStatusName(name, seen, now) == name

NewStatus(name, seen, now) ==
  CASE name = "authenticated" -> IF seen = "created" THEN "authenticated" ELSE now
    [] name = "activated" -> "active"
    [] name = "charged" -> IF seen # "cancelled" THEN "active" ELSE now
    [] OTHER -> name

(* A second live row is refused by the index: the event fails, and is sent *)
(* again.                                                                  *)
Refused(s, st) == st \in LiveStatuses /\ Live \ {s} # {}

SetStatus(p) ==
  LET s == call[p].sub
      st == NewStatus(call[p].event.name, call[p].seen, row[s])
  IN  /\ call[p].pc = "set"
      /\ IF Refused(s, st) THEN End(p) /\ UNCHANGED row
         ELSE row' = [row EXCEPT ![s] = st] /\ Goto(p, "thank")
      /\ UNCHANGED <<gw, charge, order, settled, event, turns>>

Thank(p) ==
  /\ call[p].pc = "thank"
  /\ event' = event \ {call[p].event}
  /\ End(p)
  /\ UNCHANGED <<row, gw, charge, order, settled, turns>>

(* The process ends, or a notice fails: the delivery is not thanked for.    *)
Crash(p) ==
  /\ Turn
  /\ call[p].pc # "idle"
  /\ End(p)
  /\ UNCHANGED <<row, gw, charge, order, settled, event>>

Work(p) ==
  \/ InsertAutopay(p) \/ CancelAtGateway(p) \/ CancelWrite(p)
  \/ SettleCharge(p) \/ SettleOrder(p) \/ SetStatus(p) \/ Thank(p)

Next ==
  \/ \E p \in Calls : Work(p) \/ Crash(p)
  \/ \E p \in Calls, s \in Subs : StartAutopay(p, s) \/ VerifyAutopay(p, s) \/ CancelAutopay(p, s)
  \/ \E s \in Subs : Authorise(s) \/ Pending(s) \/ Halt(s) \/ Resume(s) \/ Finish(s)
  \/ \E s \in Subs, c \in Charges : TakeCharge(s, c)
  \/ \E p \in Calls, e \in event : Receive(p, e)

Spec == Init /\ [][Next]_vars

-----------------------------------------------------------------------------
(* A charge is recorded once, whichever of an event, its repetition and    *)
(* the browser's return is first.                                          *)
ChargedOnce == \A c \in Charges : settled[c] <= 1 /\ (settled[c] = 1) = (order[c] = "paid")

(* A company is charged by one subscription at a time, whatever order its  *)
(* events arrive in and however often it is turned off and on; and what is *)
(* shown as off is off at the gateway.                                     *)
OneCharging ==
  /\ Cardinality({s \in Subs : gw[s] \in {"on", "stuck"}}) <= 1
  /\ \A s \in Subs : row[s] \in {"cancelled", "completed"} => gw[s] = "off"

=============================================================================
