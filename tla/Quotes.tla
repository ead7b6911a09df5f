------------------------------- MODULE Quotes -------------------------------
(***************************************************************************)
(* The arithmetic of a monthly plan: what a payment costs, what is         *)
(* credited for days not used, how tax splits, and where a period ends     *)
(* (billingService.quoteFor, gst.computeTax, subscriptionService.addCycle).*)
(* Amounts are whole paise.  A company renews month after month, or moves  *)
(* to a dearer plan part-way.                                              *)
(***************************************************************************)
EXTENDS Integers

CONSTANTS
  Prices,      \* of the plans for sale; a dearer plan is a larger one
  Rates,       \* per cent of tax
  FirstDays,   \* where a company's first period may start
  Strides,     \* days that may pass between two looks
  Least,       \* the smallest payment the gateway takes
  MaxPeriods   \* bound

VARIABLES
  from, to,    \* the current period
  price,       \* of the plan it was bought for
  now,         \* today
  bill,        \* the last quote that was paid
  periods

vars == <<from, to, price, now, bill, periods>>

-----------------------------------------------------------------------------
(* A date is a month, counted from a January of a leap year, and a day.    *)
DaysIn(month) ==
  LET m == month % 12 IN
  IF m = 1 THEN IF (month \div 12) % 4 = 0 THEN 29 ELSE 28
  ELSE IF m \in {3, 5, 8, 10} THEN 30 ELSE 31

(* The days before a month: the years, a leap day for each that has passed *)
(* its February, and the months of this year.                              *)
MonthStarts == <<0, 31, 59, 90, 120, 151, 181, 212, 243, 273, 304, 334>>
Before(month) ==
  LET year == month \div 12
      m == month % 12
  IN  365 * year + (year + 3) \div 4 + MonthStarts[m + 1] + (IF year % 4 = 0 /\ m >= 2 THEN 1 ELSE 0)

DayNumber(date) == Before(date.month) + date.day
DaysBetween(a, b) == DayNumber(b) - DayNumber(a)

(* Mutant of AddCycle: the same day of the next month, which the calendar  *)
(* carries over when there is no such day.                                 *)
AddCycleCarried(date) ==
  IF date.day <= DaysIn(date.month + 1) THEN [date EXCEPT !.month = @ + 1]
  ELSE [month |-> date.month + 2, day |-> date.day - DaysIn(date.month + 1)]

(* addCycle: a month without that day ends on its last day.                *)
AddCycle(date) ==
  [month |-> date.month + 1,
   day |-> IF date.day <= DaysIn(date.month + 1) THEN date.day ELSE DaysIn(date.month + 1)]

(* Math.round of n / d.                                                    *)
Round(n, d) == (2 * n + d) \div (2 * d)

(* Mutant of Split: both halves are rounded.                               *)
SplitRounded(tax, intra) ==
  IF intra THEN [cgst |-> Round(tax, 2), sgst |-> Round(tax, 2), igst |-> 0] ELSE [cgst |-> 0, sgst |-> 0, igst |-> tax]

Split(tax, intra) ==
  IF intra THEN [cgst |-> Round(tax, 2), sgst |-> tax - Round(tax, 2), igst |-> 0]
  ELSE [cgst |-> 0, sgst |-> 0, igst |-> tax]

(* computeTax.                                                             *)
Taxed(amount, inclusive, intra, rate) ==
  LET taxable == IF inclusive THEN Round(amount * 100, 100 + rate) ELSE amount
      tax == IF inclusive THEN amount - taxable ELSE Round(taxable * rate, 100) IN
  [taxable |-> taxable, tax |-> tax, total |-> taxable + tax, split |-> Split(tax, intra)]

(* Mutant of Unused: the days that were used are credited.                 *)
UnusedUsed == DaysBetween(from, now)

Unused == DaysBetween(now, to)

(* quoteFor: the credit of a change, for the days of the period not used.  *)
Credit(base) ==
  LET total == DaysBetween(from, to)
      days == IF Unused < total THEN Unused ELSE total
      worth == (price * days) \div total IN
  IF worth < base THEN worth ELSE base

Quoted(base, credit, inclusive, intra, rate) ==
  [base |-> base, credit |-> credit, rate |-> rate, inclusive |-> inclusive,
   tax |-> Taxed(base - credit, inclusive, intra, rate)]

-----------------------------------------------------------------------------
Init ==
  /\ from \in FirstDays /\ to = AddCycle(from) /\ now = from
  /\ price \in Prices
  /\ \E inclusive, intra \in BOOLEAN, rate \in Rates : bill = Quoted(price, 0, inclusive, intra, rate)
  /\ periods = 1

Pass ==
  /\ \E month \in now.month..to.month, day \in 1..31 :
       day <= DaysIn(month) /\ now' = [month |-> month, day |-> day]
  /\ DaysBetween(now, now') \in Strides /\ DaysBetween(now', to) >= 0
  /\ UNCHANGED <<from, to, price, bill, periods>>

(* The buyer's state, the rate and the way prices are quoted stay.         *)
Pays(base, credit) ==
  /\ bill' = Quoted(base, credit, bill.inclusive, bill.tax.split.igst = 0, bill.rate)
  /\ bill'.tax.total >= Least
  /\ periods < MaxPeriods /\ periods' = periods + 1
  /\ price' = base
  /\ UNCHANGED now

(* A renewal follows on, however early it is paid.                         *)
Renew ==
  /\ from' = to /\ to' = AddCycle(to)
  /\ Pays(price, 0)

Change ==
  /\ Unused > 0 /\ from' = now /\ to' = AddCycle(now)
  /\ \E base \in Prices : base > price /\ Pays(base, Credit(base))

Next == Pass \/ Renew \/ Change

Spec == Init /\ [][Next]_vars

-----------------------------------------------------------------------------
TypeOK ==
  /\ from.day \in 1..31 /\ to.day \in 1..31 /\ now.day \in 1..31
  /\ price \in Prices /\ periods \in 1..MaxPeriods

(* "The parts always add up to the whole" (gst.js:30), and the tax is   *)
(* the rate's share of the taxable amount to half a paisa, whichever way   *)
(* the price was quoted.                                                   *)
PartsAddUp ==
  LET t == bill.tax
      off == 100 * t.tax - bill.rate * t.taxable IN
  /\ t.split.cgst + t.split.sgst + t.split.igst = t.tax
  /\ t.taxable + t.tax = t.total
  /\ t.split.cgst - t.split.sgst \in 0..1
  /\ bill.inclusive => t.total = bill.base - bill.credit
  /\ 2 * off \in -(100 + bill.rate)..(100 + bill.rate)

(* What is credited at a change is at most what the days not used cost;    *)
(* when the period they belong to has begun and they are worth less than   *)
(* the new plan, it is less than a paisa short of that.                    *)
Earned ==
  Change =>
    LET total == DaysBetween(from, to)
        worth == price * DaysBetween(now, to) IN
    /\ bill'.credit * total <= worth
    /\ DaysBetween(from, now) >= 0 /\ bill'.credit < bill'.base => (bill'.credit + 1) * total > worth
CreditIsEarned == [][Earned]_vars

(* "Changing plan part-way through a paid period credits the days not      *)
(* used" (billingService.js:105): all of them, those of a period that was  *)
(* renewed early too.                                                      *)
Credited ==
  Change /\ bill'.credit < bill'.base =>
    (bill'.credit + 1) * DaysBetween(from, to) > price * DaysBetween(now, to)
EveryDayIsCredited == [][Credited]_vars

(* A company that renews has every month: a period runs to a day of the    *)
(* next month, whatever the lengths of the months.                         *)
NoMonthSkipped == to.month = from.month + 1 /\ to.day <= DaysIn(to.month)
=============================================================================
