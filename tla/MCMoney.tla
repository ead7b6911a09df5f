---------------------------------- MODULE MCMoney -----------------------------------
(* Money, in one run: orders and their settlement, and beside it periods   *)
(* that end, automatic payment, quotes, purchases on the website and the   *)
(* migrations of the database.  A behaviour is one of one part, chosen at  *)
(* the start.                                                              *)
EXTENDS PaymentSettlement, FiniteSets

CONSTANTS
  Off, Servers,
  TopPlan, Cycle, Trial, Soon, PeriodGrace, Catchup,
  Charges, Prices, Rates, FirstDays, Strides, Least, Clicks, Runs, Known,
  LastDay, MaxEvents, MaxPeriods, MaxSubs, MaxCalls, MaxTurns, MaxStops, MaxFaults   \* bounds

TwoPlans == {1, 2}
OnePlan == {1}
Days == {[month |-> 0, day |-> 31], [month |-> 10, day |-> 30], [month |-> 12, day |-> 29]}

(* The migrations of an older release are the first ones of a newer.       *)
Releases == [d1 |-> 2, d2 |-> 3, d3 |-> 3]

VARIABLES
  part,
  tenant, periodNow, pump, told, missed, events, periodFaults,
  row, gw, charge, autopayOrder, settled, event, autopayCall, turns,
  from, to, price, quoteNow, bill, periods,
  click, websiteOrder, made, payment, settling, account, companies, late,
  websiteFaults,
  at, holder, applied, next, recorded, schema, stops

S == INSTANCE SubscriptionPeriods WITH
  Pumps <- Servers, Grace <- PeriodGrace, MaxDay <- LastDay,
  now <- periodNow, faults <- periodFaults
A == INSTANCE Autopay WITH
  order <- autopayOrder, call <- autopayCall
Q == INSTANCE Quotes WITH now <- quoteNow
B == INSTANCE WebsiteOrders WITH
  NoOrder <- None, order <- websiteOrder, faults <- websiteFaults
G == INSTANCE Migrate WITH NoRun <- None

ASSUME MoneyAssumption ==
  /\ {Cycle, Trial} \subseteq Nat
  /\ Prices \subseteq Nat /\ Rates \subseteq Nat
  /\ FirstDays \subseteq {date \in [month : Nat, day : 1..31] : date.day <= Q!DaysIn(date.month)}
  /\ None \notin Runs

period == <<tenant, periodNow, pump, told, missed, events, periodFaults>>
autopay == <<row, gw, charge, autopayOrder, settled, event, autopayCall, turns>>
quote == <<from, to, price, quoteNow, bill, periods>>
website ==
  <<click, websiteOrder, made, payment, settling, account, companies, late,
    websiteFaults>>
deploy == <<at, holder, applied, next, recorded, schema, stops>>
checkout == <<order, age, pay, handled, company, today, ledger, call, crashes>>

periodOff ==
  /\ tenant = Off /\ periodNow = Off /\ pump = Off /\ told = Off
  /\ missed = Off /\ events = Off /\ periodFaults = Off
autopayOff ==
  /\ row = Off /\ gw = Off /\ charge = Off /\ autopayOrder = Off
  /\ settled = Off /\ event = Off /\ autopayCall = Off /\ turns = Off
quoteOff ==
  /\ from = Off /\ to = Off /\ price = Off /\ quoteNow = Off /\ bill = Off
  /\ periods = Off
websiteOff ==
  /\ click = Off /\ websiteOrder = Off /\ made = Off /\ payment = Off
  /\ settling = Off /\ account = Off /\ companies = Off /\ late = Off
  /\ websiteFaults = Off
deployOff ==
  /\ at = Off /\ holder = Off /\ applied = Off /\ next = Off /\ recorded = Off
  /\ schema = Off /\ stops = Off

(* The variables of a part that does not run are Off.                      *)
InitMC ==
  /\ part \in {"checkout", "period", "autopay", "quote", "website", "deploy"}
  /\ Init
  /\ IF part = "period" THEN S!Init ELSE periodOff
  /\ IF part = "autopay" THEN A!Init ELSE autopayOff
  /\ IF part = "quote" THEN Q!Init ELSE quoteOff
  /\ IF part = "website" THEN B!Init ELSE websiteOff
  /\ IF part = "deploy" THEN G!Init ELSE deployOff

NextMC ==
  /\ UNCHANGED part
  /\ IF part = "checkout" THEN Next ELSE UNCHANGED checkout
  /\ IF part = "period" THEN S!Next ELSE UNCHANGED period
  /\ IF part = "autopay" THEN A!Next ELSE UNCHANGED autopay
  /\ IF part = "quote" THEN Q!Next ELSE UNCHANGED quote
  /\ IF part = "website" THEN B!Next ELSE UNCHANGED website
  /\ IF part = "deploy" THEN G!Next ELSE UNCHANGED deploy

all == <<part, checkout, period, autopay, quote, website, deploy>>

SpecMC == InitMC /\ [][NextMC]_all

(* Paid time is kept: a change that waits for the end of a period cuts no *)
(* paid period short, and what is credited at a change of plan is what the *)
(* unused days cost (SubscriptionPeriods.PaidPeriodKept,                   *)
(* Quotes.CreditIsEarned).                                                 *)
PaidTimeKept ==
  [][ /\ part = "period" => S!KeepsPaidPeriod
      /\ part = "quote" => Q!Earned ]_all

(* A charge is recorded once, whichever event is first                     *)
(* (Autopay.ChargedOnce).                                                  *)
ChargedOnce == part = "autopay" => A!ChargedOnce

(* "Changing plan part-way through a paid period credits the days not      *)
(* used": every day of them (Quotes.EveryDayIsCredited).                   *)
EveryDayIsCredited == [][part = "quote" => Q!Credited]_all
QuoteSpec == part = "quote" /\ InitMC /\ [][NextMC]_all

(* An order of an address that has an account never makes a company        *)
(* (WebsiteOrders.StrangersStayOut).                                       *)
StrangersStayOut == part = "website" => B!StrangersStayOut

(* The schema is what the migrations make it, each of them once and in     *)
(* order (Migrate.InStep).                                                 *)
InStep == part = "deploy" => G!InStep
=============================================================================
