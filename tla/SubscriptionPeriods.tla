------------------------- MODULE SubscriptionPeriods -------------------------
(***************************************************************************)
(* The subscription of one company: its plan, the period that is paid for, *)
(* a smaller plan that waits for the period's end, and the reminders       *)
(* (services/subscriptionService.js, services/plans.js, the company routes *)
(* of routes/adminRoutes.js, the trial of services/vertical.js).           *)
(*                                                                         *)
(* Every process runs the background job.  It reads the companies that     *)
(* need something and works through the list, one statement after the      *)
(* other, while payments and changes arrive: what it read may be stale.    *)
(*                                                                         *)
(* Days are numbers; plans are ranked, 0 is Free.  Amounts, numbers and    *)
(* cycles other than one length are left out, and so are typed dates.      *)
(***************************************************************************)
EXTENDS Integers, FiniteSets

CONSTANTS
  Pumps,                     \* processes that run the background job
  TopPlan,                   \* plans are 0..TopPlan
  Cycle, Trial,              \* days of a paid period, and of a trial
  Grace, Soon, Catchup,      \* GRACE_DAYS, SOON_DAYS, and the 31 days of recordPayment
  MaxDay, MaxEvents, MaxFaults  \* bounds: days, requests, failures of the job

Ranks == 0..TopPlan
NoPlan == -1
NoDay == 0
Days == 1..MaxDay

VARIABLES
  tenant,  \* tenants: plan, period, scheduled_plan, reminded_*_for
  now,     \* today
  pump,    \* the job in each process
  told,    \* period ends whose lapse the managers have been told of
  missed,  \* those whose lapse was claimed and not told: see LapseIsTold
  events, faults

vars == <<tenant, now, pump, told, missed, events, faults>>

Kinds == {"soon", "overdue", "expired"}
Periods == 0..(MaxDay + Cycle * MaxEvents + Trial)

Rows == [plan : Ranks, from : Periods, until : Periods,
         next : Ranks \cup {NoPlan}, reminded : [Kinds -> Periods]]

TypeOK ==
  /\ tenant \in Rows
  /\ now \in Days
  /\ pump \in [Pumps -> [pc : {"idle", "apply", "list", "claim", "tell"}, row : Rows,
                         day : 0..MaxDay, kind : Kinds, later : BOOLEAN]]
  /\ told \cup missed \subseteq Periods
  /\ events \in 0..MaxEvents /\ faults \in 0..MaxFaults

Unreminded == [k \in Kinds |-> NoDay]
Free == [plan |-> 0, from |-> NoDay, until |-> NoDay, next |-> NoPlan, reminded |-> Unreminded]
Rest == [pc |-> "idle", row |-> Free, day |-> 0, kind |-> "soon", later |-> FALSE]

(* A company on the Free plan, or one whose paid period has just begun.    *)
Init ==
  /\ tenant \in {Free} \cup
       {[Free EXCEPT !.plan = p, !.from = 1, !.until = 1 + Cycle] : p \in Ranks \ {0}}
  /\ now = 1
  /\ pump = [w \in Pumps |-> Rest]
  /\ told = {} /\ missed = {} /\ events = 0 /\ faults = 0

(* subscriptionView: where a company stands on a day.                      *)
Waits(t) == t.plan # 0 /\ t.until # NoDay /\ t.next # NoPlan
Running(t) == t.plan # 0 /\ t.until # NoDay /\ t.next = NoPlan

Status(t, day) ==
  CASE t.plan = 0                   -> "free"
    [] t.until = NoDay /\ t.plan # 0 -> "unrecorded"
    [] Waits(t) /\ t.next = 0        -> "cancelling"
    [] Waits(t) /\ t.next # 0        -> "changing"
    [] Running(t) /\ day > t.until + Grace -> "expired"
    [] Running(t) /\ day > t.until /\ day <= t.until + Grace -> "overdue"
    [] Running(t) /\ day <= t.until -> IF t.until - day <= Soon THEN "due_soon" ELSE "active"

(* isLapsed, entitledPlan: what the company may use today.                 *)
Lapsed(t, day) == Running(t) /\ day - t.until > Grace
Entitled(t, day) == IF Lapsed(t, day) THEN 0 ELSE t.plan

-----------------------------------------------------------------------------
(* Requests of the company's owner and of the platform's administrators.   *)

Asked == events < MaxEvents /\ events' = events + 1 /\ UNCHANGED <<now, told, missed, faults>>

(* recordPayment.  The period starts where the last one ended, or today    *)
(* when that was long ago; what was scheduled is dropped.                  *)
PeriodStart == IF tenant.until # NoDay /\ now - tenant.until <= Catchup THEN tenant.until ELSE now

(* Mutant of Paid: what was scheduled stays. *)
PaidKeepsChange(p) == [plan |-> p, from |-> PeriodStart, until |-> PeriodStart + Cycle,
                       next |-> tenant.next, reminded |-> Unreminded]

Paid(p) == [plan |-> p, from |-> PeriodStart, until |-> PeriodStart + Cycle,
            next |-> NoPlan, reminded |-> Unreminded]

PaymentFor(p) == IF p # NoPlan THEN p ELSE IF tenant.next # NoPlan THEN tenant.next ELSE tenant.plan

RecordPayment(p) ==
  /\ Asked
  /\ PaymentFor(p) # 0
  /\ tenant' = Paid(PaymentFor(p))
  /\ UNCHANGED pump

(* scheduleChange: a smaller plan, or Free, at the end of the period.      *)
ScheduleChange(p) ==
  /\ Asked
  /\ tenant.plan # 0 /\ tenant.until # NoDay /\ p < tenant.plan
  /\ tenant' = [tenant EXCEPT !.next = p]
  /\ pump' = [w \in Pumps |-> [pump[w] EXCEPT !.later = @ \/ pump[w].pc = "apply"]]

ClearScheduledChange ==
  /\ Asked
  /\ tenant.next # NoPlan
  /\ tenant' = [tenant EXCEPT !.next = NoPlan]
  /\ UNCHANGED pump

(* PATCH /companies/:id with a plan.                                       *)
ChangePlan(p) ==
  /\ Asked
  /\ tenant' = IF p = 0
               THEN [Free EXCEPT !.reminded["expired"] = tenant.reminded["expired"]]
               ELSE [tenant EXCEPT !.plan = p, !.next = NoPlan]
  /\ UNCHANGED pump

StartTrial ==
  /\ Asked
  /\ tenant.plan = 0
  /\ tenant' = [tenant EXCEPT !.plan = TopPlan, !.from = now, !.until = now + Trial]
  /\ UNCHANGED pump

Tick ==
  /\ now < MaxDay
  /\ now' = now + 1
  /\ UNCHANGED <<tenant, pump, told, missed, events, faults>>

-----------------------------------------------------------------------------
(* pumpSubscriptions in process w: the due change, then the reminder.      *)

Goto(w, pc) == pump' = [pump EXCEPT ![w].pc = pc]

(* applyDueChanges lists what is due on the day it was called.             *)
Due(t, day) == t.next # NoPlan /\ t.until # NoDay /\ t.until <= day

ListDue(w) ==
  /\ pump[w].pc = "idle"
  /\ Goto(w, IF Due(tenant, now) THEN "apply" ELSE "list")
  /\ UNCHANGED <<tenant, now, told, missed, events, faults>>

(* The row is locked and looked at again: is a change still scheduled?     *)
Applied == IF tenant.next = 0 THEN Free ELSE [tenant EXCEPT !.plan = tenant.next, !.next = NoPlan]

ApplyDueChange(w) ==
  /\ pump[w].pc = "apply"
  /\ tenant' = IF tenant.next # NoPlan THEN Applied ELSE tenant
  /\ pump' = [pump EXCEPT ![w].pc = "list", ![w].later = FALSE]
  /\ UNCHANGED <<now, told, missed, events, faults>>

(* sendReminders reads the companies whose period ends within two weeks    *)
(* and that lack a reminder for it.                                        *)
ListReminders(w) ==
  /\ pump[w].pc = "list"
  /\ IF /\ tenant.until # NoDay /\ tenant.until <= now + Soon
        /\ \E k \in Kinds : tenant.reminded[k] # tenant.until
     THEN pump' = [pump EXCEPT ![w].pc = "claim", ![w].row = tenant, ![w].day = now]
     ELSE pump' = [pump EXCEPT ![w] = Rest]
  /\ UNCHANGED <<tenant, now, told, missed, events, faults>>

KindOf(t, day) ==
  CASE Status(t, day) \in {"overdue", "expired"} -> Status(t, day)
    [] Status(t, day) \in {"due_soon", "cancelling", "changing"} -> "soon"
    [] OTHER -> "none"

ClaimedKinds(kind) == IF kind = "expired" THEN {"overdue", "expired"} ELSE {kind}

(* The claim compares with the period end of now; the kind, and the date   *)
(* that is told, are those of the row that was read.                       *)
Claim(w) ==
  LET kind == KindOf(pump[w].row, pump[w].day)
      claimed == kind # "none" /\ tenant.reminded[kind] # tenant.until
  IN  /\ pump[w].pc = "claim"
      /\ IF claimed
         THEN /\ tenant' = [tenant EXCEPT !.reminded =
                             [k \in Kinds |-> IF k \in ClaimedKinds(kind) THEN tenant.until ELSE @[k]]]
              /\ pump' = [pump EXCEPT ![w].pc = "tell", ![w].kind = kind, ![w].day = 0,
                                        ![w].row = [Free EXCEPT !.until = pump[w].row.until]]
              /\ missed' = IF kind = "expired" /\ tenant.until # pump[w].row.until
                           THEN missed \cup {tenant.until} ELSE missed
         ELSE pump' = [pump EXCEPT ![w] = Rest] /\ UNCHANGED <<tenant, missed>>
      /\ UNCHANGED <<now, told, events, faults>>

Tell(w) ==
  /\ pump[w].pc = "tell"
  /\ told' = IF pump[w].kind = "expired" THEN told \cup {pump[w].row.until} ELSE told
  /\ pump' = [pump EXCEPT ![w] = Rest]
  /\ UNCHANGED <<tenant, now, missed, events, faults>>

(* The notice fails: the claim is taken back, to try again next time.      *)
(* Mutant of TakenBack: the claim stays. *)
TakenBackNever(kind) == tenant

TakenBack(kind) == [tenant EXCEPT !.reminded[kind] = NoDay]

TellFails(w) ==
  /\ pump[w].pc = "tell" /\ faults < MaxFaults
  /\ tenant' = TakenBack(pump[w].kind)
  /\ pump' = [pump EXCEPT ![w] = Rest]
  /\ faults' = faults + 1
  /\ UNCHANGED <<now, told, missed, events>>

(* The process ends; a reminder it had claimed is given by nobody.         *)
Crash(w) ==
  /\ pump[w].pc # "idle" /\ faults < MaxFaults
  /\ missed' = IF pump[w].pc = "tell" /\ pump[w].kind = "expired"
               THEN missed \cup {pump[w].row.until} ELSE missed
  /\ pump' = [pump EXCEPT ![w] = Rest]
  /\ faults' = faults + 1
  /\ UNCHANGED <<tenant, now, told, events>>

Work(w) ==
  ListDue(w) \/ ApplyDueChange(w) \/ ListReminders(w) \/ Claim(w) \/ Tell(w) \/ TellFails(w)

Next ==
  \/ \E p \in Ranks \cup {NoPlan} : RecordPayment(p)
  \/ \E p \in Ranks : ScheduleChange(p) \/ ChangePlan(p)
  \/ ClearScheduledChange \/ StartTrial \/ Tick
  \/ \E w \in Pumps : Work(w) \/ Crash(w)

(* The job's timer fires again and again in every process.                 *)
Fairness == \A w \in Pumps : WF_vars(Work(w))

Spec == Init /\ [][Next]_vars /\ Fairness

-----------------------------------------------------------------------------
(* A change that waits for the end of the period never cuts a paid period  *)
(* short: what a payment has extended meanwhile is left alone, except a    *)
(* change that was scheduled anew after the job had made its list.         *)
KeepsPaidPeriod ==
  \A w \in Pumps :
    (pump[w].pc = "apply" /\ pump'[w].pc = "list" /\ tenant' # tenant)
      => (tenant.until <= now \/ pump[w].later)
PaidPeriodKept == [][KeepsPaidPeriod]_vars

(* Whoever loses the paid features is told so for that period, unless the  *)
(* claim of the reminder was lost with its process or made for another     *)
(* period than the one that was read.  (A period ends on day 2 or later.)  *)
LapseIsTold ==
  \A d \in 2..(MaxDay - Grace - 1) :
    (Entitled(tenant, now) # tenant.plan /\ tenant.until = d)
      ~> (tenant.until # d \/ Entitled(tenant, now) = tenant.plan \/ d \in told \cup missed)

=============================================================================
