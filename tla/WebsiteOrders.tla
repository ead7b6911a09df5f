--------------------------- MODULE WebsiteOrders ---------------------------
(***************************************************************************)
(* Buying a plan on the website (websiteCheckout), before the buyer has a  *)
(* company: one address, one plan.  A click looks for an unpaid order to   *)
(* reuse or makes one; the payment may be declined or made; whoever hears  *)
(* of it first settles the order, which makes the company and its owner.   *)
(* Each statement of a transaction is a step, since the account it looks   *)
(* for may be made meanwhile: by a teammate's invitation, or by the        *)
(* settlement of another order of the same buyer.                          *)
(***************************************************************************)
EXTENDS Naturals, Sequences

CONSTANTS
  Clicks,     \* requests for an order; an order has the name of the click that made it
  NoOrder,
  MaxFaults   \* bound on refused or cut off calls

VARIABLES
  click,      \* where each click is, and the order it was given
  order,      \* payment_orders: status, known at the gateway, expired, the click whose details it has
  made,       \* the orders, oldest first
  payment,    \* what the gateway holds for each order: nothing, a declined or a captured payment
  settling,   \* how far the transaction that settles an order is
  account,    \* somebody has an account with the address
  companies,  \* the orders that were given a company
  late,       \* history: orders not being settled when the address had an account
  faults

vars == <<click, order, made, payment, settling, account, companies, late, faults>>

Init ==
  /\ click = [c \in Clicks |-> [at |-> "new", order |-> NoOrder]]
  /\ order = [c \in Clicks |-> [status |-> "none", gateway |-> FALSE, old |-> FALSE, guest |-> c]]
  /\ made = <<>>
  /\ payment = [c \in Clicks |-> "none"]
  /\ settling = [c \in Clicks |-> "no"]
  /\ account = FALSE
  /\ companies = {} /\ late = {}
  /\ faults = 0

-----------------------------------------------------------------------------
(* createWebsiteOrder.                                                     *)
CheckAccount(c) ==
  /\ click[c].at = "new"
  /\ click' = [click EXCEPT ![c].at = IF account THEN "refused" ELSE "checked"]
  /\ UNCHANGED <<order, made, payment, settling, account, companies, late, faults>>

Reusable(o) == order[o].status \in {"created", "attempted"} /\ order[o].gateway /\ ~order[o].old
Open == SelectSeq(made, Reusable)

FindOrder(c) ==
  /\ click[c].at = "checked"
  /\ click' = [click EXCEPT ![c] =
       IF Open = <<>> THEN [at |-> "missing", order |-> NoOrder]
       ELSE LET o == Open[Len(Open)] IN
            [at |-> IF order[o].status = "created" THEN "found" ELSE "shown", order |-> o]]
  /\ UNCHANGED <<order, made, payment, settling, account, companies, late, faults>>

(* The newest details are kept, whatever became of the order meanwhile.    *)
KeepDetails(c) ==
  /\ click[c].at = "found"
  /\ order' = [order EXCEPT ![click[c].order].guest = c]
  /\ click' = [click EXCEPT ![c].at = "shown"]
  /\ UNCHANGED <<made, payment, settling, account, companies, late, faults>>

InsertOrder(c) ==
  /\ click[c].at = "missing"
  /\ order' = [order EXCEPT ![c].status = "created"]
  /\ made' = Append(made, c)
  /\ click' = [click EXCEPT ![c] = [at |-> "inserted", order |-> c]]
  /\ UNCHANGED <<payment, settling, account, companies, late, faults>>

AtGateway(c) ==
  /\ click[c].at = "inserted"
  /\ order' = [order EXCEPT ![c].gateway = TRUE]
  /\ click' = [click EXCEPT ![c].at = "shown"]
  /\ UNCHANGED <<made, payment, settling, account, companies, late, faults>>

(* The gateway refuses, or the process stops before it answers.            *)
NoGateway(c) ==
  /\ click[c].at = "inserted" /\ faults < MaxFaults /\ faults' = faults + 1
  /\ order' \in {order, [order EXCEPT ![c].status = "failed"]}
  /\ click' = [click EXCEPT ![c].at = "refused"]
  /\ UNCHANGED <<made, payment, settling, account, companies, late>>

-----------------------------------------------------------------------------
(* The buyer at the gateway: an order takes one payment, after any number  *)
(* of declined ones.                                                       *)
Pays(c) ==
  /\ click[c].at = "shown"
  /\ LET o == click[c].order IN
     \/ payment[o] /= "captured" /\ payment' = [payment EXCEPT ![o] = "captured"]
     \/ payment[o] = "none" /\ payment' = [payment EXCEPT ![o] = "declined"]
  /\ UNCHANGED <<click, order, made, settling, account, companies, late, faults>>

(* verifyWebsiteCheckout, up to the settlement it asks for.                *)
Verify(o) ==
  /\ payment[o] = "captured" /\ order[o].status \in {"created", "failed"}
  /\ order' = [order EXCEPT ![o].status = "attempted"]
  /\ UNCHANGED <<click, made, payment, settling, account, companies, late, faults>>

Unsettled(o) == order[o].status \notin {"paid", "mismatch"} /\ settling[o] = "no"

(* settleOrder told of a declined payment, perhaps late.                   *)
SettleDeclined(o) ==
  /\ payment[o] /= "none" /\ Unsettled(o)
  /\ order' = [order EXCEPT ![o].status = "failed"]
  /\ UNCHANGED <<click, made, payment, settling, account, companies, late, faults>>

(* Mutant of Refused: an owner who has an account is given the company.    *)
RefusedNever == FALSE

(* createWorkspaceForOrder refuses an address that has an account.         *)
Refused == account

(* settleOrder of a captured payment, the order's row locked.              *)
SettleBegin(o) ==
  /\ payment[o] = "captured" /\ Unsettled(o)
  /\ IF Refused THEN /\ order' = [order EXCEPT ![o].status = "mismatch"]
                     /\ UNCHANGED settling
     ELSE /\ settling' = [settling EXCEPT ![o] = "checked"]
          /\ UNCHANGED order
  /\ UNCHANGED <<click, made, payment, account, companies, late, faults>>

(* createCompanyIn looks for the owner after the password was hashed.      *)
FindOwner(o) ==
  /\ settling[o] = "checked"
  /\ settling' = [settling EXCEPT ![o] = IF account THEN "owned" ELSE "unowned"]
  /\ UNCHANGED <<click, order, made, payment, account, companies, late, faults>>

NowLate ==
  late' = late \union {o \in Clicks : account' /\ settling'[o] = "no" /\ o \notin companies'}

(* The owner, the company, the payment and the invoice are committed; a    *)
(* new owner whose address was taken meanwhile rolls all of it back.       *)
SettleCommit(o) ==
  /\ settling[o] \in {"owned", "unowned"}
  /\ settling' = [settling EXCEPT ![o] = "no"]
  /\ IF settling[o] = "unowned" /\ account THEN UNCHANGED <<order, account, companies, late>>
     ELSE /\ order' = [order EXCEPT ![o].status = "paid"]
          /\ companies' = companies \union {o}
          /\ account' = TRUE
  /\ NowLate
  /\ UNCHANGED <<click, made, payment, faults>>

SettleCutOff(o) ==
  /\ settling[o] /= "no" /\ faults < MaxFaults
  /\ settling' = [settling EXCEPT ![o] = "no"]
  /\ faults' = faults + 1
  /\ UNCHANGED <<click, order, made, payment, account, companies>>
  /\ NowLate

(* A day passes; the job closes an order nobody paid for.                  *)
Ages(o) ==
  /\ order[o].status /= "none" /\ ~order[o].old
  /\ order' = [order EXCEPT ![o].old = TRUE]
  /\ UNCHANGED <<click, made, payment, settling, account, companies, late, faults>>

Expire(o) ==
  /\ order[o].old /\ order[o].gateway /\ order[o].status \in {"created", "attempted"} /\ settling[o] = "no"
  /\ order' = [order EXCEPT ![o].status = "expired"]
  /\ UNCHANGED <<click, made, payment, settling, account, companies, late, faults>>

(* The address is invited to another company, or signs up elsewhere.       *)
AccountElsewhere ==
  /\ ~account /\ account' = TRUE
  /\ UNCHANGED <<click, order, made, payment, settling, companies, faults>>
  /\ NowLate

Next ==
  \/ AccountElsewhere
  \/ \E c \in Clicks :
       \/ CheckAccount(c) \/ FindOrder(c) \/ KeepDetails(c) \/ InsertOrder(c)
       \/ AtGateway(c) \/ NoGateway(c) \/ Pays(c)
       \/ Verify(c) \/ SettleDeclined(c) \/ SettleBegin(c) \/ FindOwner(c) \/ SettleCommit(c)
       \/ SettleCutOff(c) \/ Ages(c) \/ Expire(c)

Spec == Init /\ [][Next]_vars

-----------------------------------------------------------------------------
TypeOK ==
  /\ \A c \in Clicks :
       /\ click[c].at \in {"new", "refused", "checked", "missing", "found", "inserted", "shown"}
       /\ click[c].order \in Clicks \union {NoOrder}
       /\ order[c].status \in {"none", "created", "attempted", "failed", "paid", "mismatch", "expired"}
       /\ order[c].guest \in Clicks
       /\ payment[c] \in {"none", "declined", "captured"}
       /\ settling[c] \in {"no", "checked", "owned", "unowned"}
  /\ companies = {o \in Clicks : order[o].status = "paid"} /\ late \subseteq Clicks

(* An order whose settlement has not begun when the address has an account *)
(* never gets a company (createWorkspaceForOrder), however often and by    *)
(* whomever its payment is reported afterwards.                            *)
StrangersStayOut == late \intersect companies = {}

(* "If the owner's email has an account by now, nothing is made"           *)
(* (billingService.js:328-330).                                            *)
MadeAlone == companies' /= companies => ~account
NoSecondCompany == [][MadeAlone]_vars
=============================================================================
