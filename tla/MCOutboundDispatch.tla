----------------------------- MODULE MCOutboundDispatch -----------------------------
(* Instances of OutboundDispatch for TLC, and with it the browsers of the  *)
(* numbers (SessionLease): a behaviour of SpecMC is one of the one or one  *)
(* of the other, chosen at the start.  In "overlap" the starts and closes  *)
(* of a worker overlap, in "browser" they do not.                          *)
EXTENDS OutboundDispatch, TLC

CONSTANTS
  s1, Off, Call, Launches

OneMessage == 1..1
TwoMessages == 1..2
OneNumber == [m \in Messages |-> s1]
AckOnly == {1}
AckOrZero == {0, 1}
NoDeletes == {}
FirstOnly == {1}
SlotSymmetry == Permutations(Slots)

Crashes == {"crash"}
Graceful == {"drop", "loss", "shutdown"}
All == Upsets

Limited == {"crash", "drop", "close", "fault", "stall"}
Ups == [e \in Limited |-> IF e = "stall" THEN 0 ELSE 1]

VARIABLES
  part,
  row, browserUp, owned, renew, entry, att, call, budget

L == INSTANCE SessionLease WITH
  Workers <- Slots, Calls <- {Call}, Attempts <- Launches,
  LateEvents <- FALSE, Overlap <- FALSE, Bound <- Ups, Nobody <- NoMessage, up <- browserUp

O == INSTANCE SessionLease WITH
  Workers <- Slots, Calls <- {Call}, Attempts <- Launches,
  LateEvents <- FALSE, Overlap <- TRUE, Bound <- Ups, Nobody <- NoMessage, up <- browserUp

browser == <<row, browserUp, owned, renew, entry, att, call, budget>>
dispatch ==
  <<up, status, outbox, recorded, ack, aged, job, pub, run, sess, lease, del,
    retracted, sends, upsets>>

browserOff ==
  /\ row = Off /\ browserUp = Off /\ owned = Off /\ renew = Off /\ entry = Off
  /\ att = Off /\ call = Off /\ budget = Off

(* The variables of a part that does not run are Off.                      *)
InitMC ==
  /\ part \in {"dispatch", "browser", "overlap"}
  /\ Init
  /\ IF part = "dispatch" THEN browserOff ELSE L!Init

NextMC ==
  /\ UNCHANGED part
  /\ IF part = "dispatch" THEN Next ELSE UNCHANGED dispatch
  /\ CASE part = "dispatch" -> UNCHANGED browser
       [] part = "browser" -> L!Next
       [] part = "overlap" -> O!Next

all == <<part, dispatch, browser>>

SpecMC == InitMC /\ [][NextMC]_all

(* The type invariant of the part that runs. *)
TypeOKMC ==
  CASE part = "dispatch" -> TypeOK
    [] OTHER -> L!TypeOK

(* A number has one browser at most, whichever worker started it and       *)
(* whatever failed meanwhile, if no worker starts it while it still closes *)
(* it; and if one does, each browser still has its timer or is being       *)
(* closed (SessionLease.SingleBrowser and BrowserIsWatched).               *)
SingleBrowser ==
  /\ part = "browser" => L!SingleBrowser
  /\ part = "overlap" => O!BrowserIsWatched

(* The dispatch alone, and under its fairness.                             *)
InitAlone == part = "dispatch" /\ InitMC
SpecAlone == InitAlone /\ [][NextMC]_all
FairSpecMC == SpecAlone /\ Fairness
=============================================================================
