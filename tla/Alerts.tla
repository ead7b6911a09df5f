------------------------------- MODULE Alerts -------------------------------
(***************************************************************************)
(* The alerts about one condition of the Revenue Leak Detector             *)
(* (solutions/real-estate/leaks): servers scan, alerts open, close and     *)
(* come back, the people who can act are told, and a teammate resolves,    *)
(* dismisses or snoozes them.  Ages count units of time and stop at the    *)
(* window they are compared with.                                          *)
(***************************************************************************)
EXTENDS Naturals, Sequences, FiniteSets

CONSTANTS
  Servers,     \* processes that run the jobs
  Day,         \* the 24 hours in which people are not told again
  Quiet,       \* the week in which a dismissed condition is not raised
  MaxFlips,    \* bound: changes of the condition
  MaxActs      \* bound: what teammates do, and crashes

VARIABLES
  holds,      \* the condition is true
  alerts,     \* the rows, oldest first: status and whether notified_at is set
  marked,     \* age of the latest notified_at
  dismissed,  \* age of the latest dismissal
  snoozed,    \* the snooze has not run out
  scanned,    \* a scan was claimed in this unit of time
  scan,       \* what each server is at
  person,     \* a teammate's request, and the row it read
  told,       \* history: notices sent for each row
  silence,    \* history: age of the latest notice
  flips, acts

bounds == <<flips, acts>>
vars == <<holds, alerts, marked, dismissed, snoozed, scanned, scan, person, told, silence, bounds>>

Idle == [pc |-> "idle"]
Active == {"open", "snoozed"}
Rows == DOMAIN alerts
Live == {i \in Rows : alerts[i].status \in Active}

Init ==
  /\ holds \in BOOLEAN /\ alerts = <<>>
  /\ marked = Day /\ dismissed = Quiet /\ snoozed = FALSE /\ scanned = FALSE
  /\ scan = [s \in Servers |-> Idle] /\ person = Idle
  /\ told = <<>> /\ silence = Day
  /\ flips = 0 /\ acts = 0

Older(age, window) == IF age < window THEN age + 1 ELSE age

Tick ==
  /\ marked' = Older(marked, Day) /\ silence' = Older(silence, Day)
  /\ dismissed' = Older(dismissed, Quiet)
  /\ snoozed' = FALSE /\ scanned' = FALSE
  /\ UNCHANGED <<holds, alerts, scan, person, told, bounds>>

Flip ==
  /\ flips < MaxFlips /\ flips' = flips + 1
  /\ holds' = ~holds
  /\ UNCHANGED <<alerts, marked, dismissed, snoozed, scanned, scan, person, told, silence, acts>>

-----------------------------------------------------------------------------
(* pumpRealEstate and scanTenant: claim, detect, reconcile, notify.        *)

Is(s, pc) == scan[s].pc = pc
Goes(s, work) == scan' = [scan EXCEPT ![s] = work]

(* One server takes a company in any five minutes.                         *)
Claims(s) ==
  /\ Is(s, "idle") /\ ~scanned
  /\ scanned' = TRUE
  /\ Goes(s, [pc |-> "detect"])
  /\ UNCHANGED <<holds, alerts, marked, dismissed, snoozed, person, told, silence, bounds>>

Detects(s) ==
  /\ Is(s, "detect")
  /\ Goes(s, [pc |-> "quiet", found |-> holds])
  /\ UNCHANGED <<holds, alerts, marked, dismissed, snoozed, scanned, person, told, silence, bounds>>

(* The dismissals are read before the transaction.                         *)
ReadsQuiet(s) ==
  /\ Is(s, "quiet")
  /\ Goes(s, [pc |-> "reconcile", raise |-> scan[s].found /\ dismissed >= Quiet])
  /\ UNCHANGED <<holds, alerts, marked, dismissed, snoozed, scanned, person, told, silence, bounds>>

(* An alert that was closed and came straight back has told people: it is  *)
(* opened with notified_at set, to the present moment.                     *)
Opened == [status |-> "open", notified |-> marked < Day]

(* Mutant of Reconciled: a snoozed alert is left to its snooze.            *)
ReconciledAwake(row, raise) ==
  IF row.status /= "open" THEN row
  ELSE IF ~raise THEN [row EXCEPT !.status = "resolved"] ELSE row

(* The alerts that still hold are refreshed, and wake when their snooze is *)
(* over; the others close themselves.                                      *)
Reconciled(row, raise) ==
  IF row.status \notin Active THEN row
  ELSE IF ~raise THEN [row EXCEPT !.status = "resolved"]
  ELSE IF row.status = "snoozed" /\ ~snoozed THEN [row EXCEPT !.status = "open"]
  ELSE row

Reconciles(s) ==
  LET raise == scan[s].raise
      rows == [i \in Rows |-> Reconciled(alerts[i], raise)]
      opens == raise /\ Live = {} IN
  /\ Is(s, "reconcile")
  /\ alerts' = IF opens THEN Append(rows, Opened) ELSE rows
  /\ told' = IF opens THEN Append(told, 0) ELSE told
  /\ marked' = IF opens /\ Opened.notified THEN 0 ELSE marked
  /\ Goes(s, [pc |-> "list"])
  /\ UNCHANGED <<holds, dismissed, snoozed, scanned, person, silence, bounds>>

Lists(s) ==
  LET news == {i \in Rows : alerts[i].status = "open" /\ ~alerts[i].notified} IN
  /\ Is(s, "list")
  /\ IF news = {} THEN Goes(s, Idle) ELSE \E i \in news : Goes(s, [pc |-> "claim", row |-> i])
  /\ UNCHANGED <<holds, alerts, marked, dismissed, snoozed, scanned, person, told, silence, bounds>>

(* Mutant of Unclaimed: every server that listed the alert tells.          *)
UnclaimedAlways(i) == TRUE

(* Claimed first, so two servers never both send it.                       *)
Unclaimed(i) == ~alerts[i].notified

Marks(s) ==
  LET i == scan[s].row IN
  /\ Is(s, "claim")
  /\ IF Unclaimed(i)
     THEN /\ alerts' = [alerts EXCEPT ![i].notified = TRUE]
          /\ marked' = 0
          /\ Goes(s, [pc |-> "tell", row |-> i])
     ELSE Goes(s, Idle) /\ UNCHANGED <<alerts, marked>>
  /\ UNCHANGED <<holds, dismissed, snoozed, scanned, person, told, silence, bounds>>

Tells(s) ==
  /\ Is(s, "tell")
  /\ told' = [told EXCEPT ![scan[s].row] = @ + 1]
  /\ silence' = 0
  /\ Goes(s, Idle)
  /\ UNCHANGED <<holds, alerts, marked, dismissed, snoozed, scanned, person, bounds>>

Crashes(s) ==
  /\ ~Is(s, "idle") /\ acts < MaxActs /\ acts' = acts + 1
  /\ Goes(s, Idle)
  /\ UNCHANGED <<holds, alerts, marked, dismissed, snoozed, scanned, person, told, silence, flips>>

Scan(s) ==
  Claims(s) \/ Detects(s) \/ ReadsQuiet(s) \/ Reconciles(s) \/ Lists(s) \/ Marks(s) \/ Tells(s)

-----------------------------------------------------------------------------
(* resolveAlert, dismissAlert, snoozeAlert: the row is read, found not to  *)
(* be closed, and written by its id.                                       *)

Finds(does) ==
  /\ person = Idle /\ acts < MaxActs /\ acts' = acts + 1
  /\ \E i \in Live : person' = [pc |-> does, row |-> i]
  /\ UNCHANGED <<holds, alerts, marked, dismissed, snoozed, scanned, scan, told, silence, flips>>

Closes ==
  /\ person.pc \in {"resolve", "dismiss"}
  /\ alerts' = [alerts EXCEPT ![person.row].status = "resolved"]
  /\ dismissed' = IF person.pc = "dismiss" THEN 0 ELSE dismissed
  /\ person' = Idle
  /\ UNCHANGED <<holds, marked, snoozed, scanned, scan, told, silence, bounds>>

(* The unique index refuses a second alert about the condition.            *)
Snoozes ==
  LET i == person.row IN
  /\ person.pc = "snooze"
  /\ IF Live \ {i} = {}
     THEN alerts' = [alerts EXCEPT ![i].status = "snoozed"] /\ snoozed' = TRUE
     ELSE UNCHANGED <<alerts, snoozed>>
  /\ person' = Idle
  /\ UNCHANGED <<holds, marked, dismissed, scanned, scan, told, silence, bounds>>

Person == Closes \/ Snoozes

Next ==
  \/ Tick \/ Flip \/ Person
  \/ \E s \in Servers : Scan(s) \/ Crashes(s)
  \/ \E does \in {"resolve", "dismiss", "snooze"} : Finds(does)

(* Time passes, every server runs the job, a request is answered.          *)
Spec ==
  /\ Init /\ [][Next]_vars
  /\ WF_vars(Tick) /\ WF_vars(Person)
  /\ \A s \in Servers : SF_vars(Claims(s)) /\ WF_vars(Scan(s))

-----------------------------------------------------------------------------
TypeOK ==
  /\ \A i \in Rows : alerts[i].status \in Active \cup {"resolved"} /\ alerts[i].notified \in BOOLEAN
  /\ DOMAIN told = Rows
  /\ marked \in 0..Day /\ silence \in 0..Day /\ dismissed \in 0..Quiet
  /\ \A s \in Servers : scan[s].pc \in {"idle", "detect", "quiet", "reconcile", "list", "claim", "tell"}
  /\ person.pc \in {"idle", "resolve", "dismiss", "snooze"}

(* Each alert is announced once, however many servers reach the notice     *)
(* step together.                                                          *)
AnnouncedOnce == \A i \in Rows : told[i] <= 1

(* An alert whose condition has gone for good closes itself, even when a   *)
(* teammate snoozed it in the meantime.                                    *)
AlertsGoAway == <>[]~holds => <>[](Live = {})

(* "It does not tell them again within a day": a day after the last notice *)
(* an alert that comes back is announced.                                  *)
SilenceIsADay ==
  [][Len(alerts') > Len(alerts) /\ silence >= Day => ~alerts'[Len(alerts')].notified]_vars
=============================================================================
