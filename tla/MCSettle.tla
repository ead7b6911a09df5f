---------------------------------- MODULE MCSettle ----------------------------------
(* What must happen in the end, in one run: deliveries settle, captured    *)
(* payments are found, alerts close, trouble is told, lookups end, memories *)
(* catch up with the database, and who loses the workspace is cut off.  A  *)
(* behaviour is one of one part, chosen at the start; the fairness is that *)
(* of the part.                                                            *)
EXTENDS WebhookDelivery

CONSTANTS
  First, None

Two == 1..2

VARIABLES
  part,
  order, age, pay, handled, company, today, ledger, checkoutCall,
  checkoutCrashes,
  holds, alerts, marked, dismissed, snoozed, scanned, scan, person, alertTold,
  silence, flips, acts,
  number, misses, healthTold, work, turns, healthCrashes,
  kept, load, tail, waiting, open, looks,
  plans, known, loading, editing, settings, current, saving, plan, bought,
  edits, faults,
  member, invite, teamCall, socket, appointed

P == INSTANCE PaymentSettlement WITH
  Orders <- {1}, Payments <- {1, 2}, Late <- {1}, Odd <- {2}, Web <- {"web"},
  Pump <- "pump", Plans <- {1}, Month <- 2, Grace <- 1, FirstPlan <- 1,
  FirstEnd <- 1, MaxDay <- 0, MaxCrashes <- 1, None <- None,
  call <- checkoutCall, crashes <- checkoutCrashes
A == INSTANCE Alerts WITH
  Servers <- Workers, Day <- 2, Quiet <- 1, MaxFlips <- 1, MaxActs <- 1,
  told <- alertTold
N == INSTANCE NumberHealth WITH
  Servers <- Workers, Runner <- First, Threshold <- 2, Managers <- {"ann"},
  Owner <- "ann", MaxTurns <- 2, MaxCrashes <- 1, told <- healthTold,
  crashes <- healthCrashes
V == INSTANCE Avatars WITH
  Chats <- {"a", "b", "c"}, QueueMax <- 2, MaxLooks <- 3
E == INSTANCE PlanEditing WITH
  Servers <- Workers, Codes <- {"growth"}, Names <- {"growth", "pro", "grow"},
  Prices <- {1, 2}, Fields <- {"rate", "seller"}, Values <- {0, 1},
  Companies <- {"firm"}, Nothing <- None, MaxEdits <- 2, MaxBuys <- 1,
  MaxFaults <- 1
T == INSTANCE Team WITH
  People <- {"o", "p", "q"}, Owner <- "o", Calls <- {"c1", "c2"},
  Sockets <- {"tab"}, Seats <- 3, MaxInvites <- 2, MaxLinks <- 2,
  call <- teamCall

checkout ==
  <<order, age, pay, handled, company, today, ledger, checkoutCall,
    checkoutCrashes>>
alert ==
  <<holds, alerts, marked, dismissed, snoozed, scanned, scan, person,
    alertTold, silence, flips, acts>>
health == <<number, misses, healthTold, work, turns, healthCrashes>>
picture == <<kept, load, tail, waiting, open, looks>>
desk ==
  <<plans, known, loading, editing, settings, current, saving, plan, bought,
    edits, faults>>
team == <<member, invite, teamCall, socket, appointed>>
delivery == <<status, attempts, due, enabled, pump, posts, stops>>

(* A part that does not run stays in one initial state.                    *)
InitMC ==
  /\ part \in {
       "delivery", "checkout", "alert", "health", "picture", "desk", "team"}
  /\ Init
  /\ P!Init
  /\ A!Init /\ (part = "alert" \/ ~holds)
  /\ N!Init
  /\ V!Init /\ (part = "picture" \/ \A c \in DOMAIN kept : kept[c] = "absent")
  /\ E!Init /\ (part = "desk" \/ <<1, 0>> = <<plans["growth"].price, settings["rate"]>>)
  /\ T!Init /\ (part = "team" \/ member["p"].role = "agent")

NextMC ==
  /\ UNCHANGED part
  /\ IF part = "delivery" THEN Next ELSE UNCHANGED delivery
  /\ IF part = "checkout" THEN P!Next ELSE UNCHANGED checkout
  /\ IF part = "alert" THEN A!Next ELSE UNCHANGED alert
  /\ IF part = "health" THEN N!Next ELSE UNCHANGED health
  /\ IF part = "picture" THEN V!Next ELSE UNCHANGED picture
  /\ IF part = "desk" THEN E!Next ELSE UNCHANGED desk
  /\ IF part = "team" THEN T!Next ELSE UNCHANGED team

all == <<part, delivery, checkout, alert, health, picture, desk, team>>

(* The parts a run is about.                                               *)
InitDeliveries == InitMC /\ part \in {"delivery", "alert"}
InitOthers == InitMC /\ part \notin {"delivery", "alert"}

(* Fairness of the parts, as their modules state it; of the alerts only    *)
(* that some server takes one up again and again.                          *)
SpecDeliveries ==
  /\ InitDeliveries /\ [][NextMC]_all
  /\ \A w \in Workers : WF_delivery(part = "delivery" /\ PumpWebhooks(w))
  /\ \A d \in Deliveries : WF_delivery(part = "delivery" /\ RetryDue(d))
  /\ WF_alert(part = "alert" /\ A!Tick) /\ WF_alert(part = "alert" /\ A!Person)
  /\ \A s \in Workers : WF_alert(part = "alert" /\ A!Scan(s))
  /\ SF_alert(part = "alert" /\ \E s \in Workers : A!Claims(s))

SpecOthers ==
  /\ InitOthers /\ [][NextMC]_all
  /\ WF_checkout(part = "checkout" /\ P!Step("pump"))
  /\ WF_checkout(part = "checkout" /\ P!CheckNext)
  /\ WF_checkout(part = "checkout" /\ P!CheckDone)
  /\ SF_checkout(part = "checkout" /\ P!Check(1))
  /\ \A s \in Workers : WF_health(part = "health" /\ N!Round(s))
  /\ \A c \in {"a", "b", "c"} : WF_picture(part = "picture" /\ V!Step(c))
  /\ \A s \in Workers :
       /\ WF_desk(part = "desk" /\ E!LoadRows(s))
       /\ WF_desk(part = "desk" /\ E!LoadPrices(s))
       /\ WF_desk(part = "desk" /\ E!LoadSettings(s))
  /\ WF_team(part = "team" /\ T!Connect("tab"))
  /\ WF_team(part = "team" /\ T!MembershipTimer("tab"))

(* A payment captured without anyone hearing of it is found                *)
(* (PaymentSettlement.CapturedSettles).                                    *)
CapturedSettles == part = "checkout" => P!CapturedSettles

(* An alert whose condition has gone for good closes itself                *)
(* (Alerts.AlertsGoAway).                                                  *)
AlertsGoAway == part = "alert" => A!AlertsGoAway

(* Trouble that stays is trouble somebody was told of                      *)
(* (NumberHealth.TroubleIsTold).                                           *)
TroubleIsTold == part = "health" => N!TroubleIsTold

(* What is kept in memory catches up: every server ends up with the plans *)
(* and settings that are stored, and every lookup of a picture comes to an *)
(* end (PlanEditing.CachesCatchUp, Avatars.LookupsEnd).                    *)
CachesCatchUp ==
  /\ part = "desk" => E!CachesCatchUp
  /\ part = "picture" => V!LookupsEnd

(* Whoever loses the workspace loses the connection (Team.CutOff).         *)
CutOff == part = "team" => T!CutOff
=============================================================================
