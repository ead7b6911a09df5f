---------------------------- MODULE CampaignPump ----------------------------
(***************************************************************************)
(* A broadcast (services/campaignService.js, the start, pause and stop     *)
(* routes, and the campaign branch of dispatchMessage).                    *)
(*                                                                         *)
(* Every four seconds each process runs pumpCampaigns: it claims the next  *)
(* recipient in one transaction, creates the message in a second one, and  *)
(* links the two in a third.  The dispatcher, in its own time, takes the   *)
(* message once the campaign is running and the recipient is linked to it  *)
(* and still opted in.  Three failures in a row trip a circuit breaker.    *)
(* The inside of a dispatch is the subject of module OutboundDispatch.     *)
(***************************************************************************)
EXTENDS Integers, FiniteSets, FiniteSetsExt

CONSTANTS
  Recipients,  \* contacts of the target segment, in the order of their ids
  Pumps,       \* processes that run pumpCampaigns
  BatchSize,   \* claims between two cooldowns (5 at least in the code)
  Breaker,     \* failures in a row that trip the breaker (3 in the code)
  Unsendable,  \* recipients whose personalised text is refused (status 400)
  Twice,       \* bound: kinds of events that happen twice, the others once
  MaxEvents,   \* bound: how many events happen in one behaviour
  NoOne

Limited == {"crash", "consent", "rename", "start", "halt", "failure", "ack 0"}

ASSUME CampaignAssumption ==
  /\ Recipients \subseteq Nat /\ Unsendable \subseteq Recipients
  /\ NoOne \notin Recipients
  /\ {BatchSize, Breaker} \subseteq Nat \ {0}
  /\ Twice \subseteq Limited /\ MaxEvents \in Nat

VARIABLES
  camp,    \* the campaigns row
  rec,     \* campaign_recipients.status, "absent" without a row
  stale,   \* claimed_at older than two minutes
  linked,  \* campaign_recipients.message_id is set
  optedIn, \* consents.opt_in_status
  wording, \* the text personalise would give now
  msg,     \* the message of the recipient's idempotency key
  box,     \* its outbox row; "pending" stands for "queued" as well
  paced,   \* whatsapp_sessions.next_send_at > now()
  pump,    \* the pumpCampaigns call of each process
  run,     \* the dispatchMessage call of each message, after its claim
  batch,   \* history: first claims since the last cooldown
  leftOut, \* history: recipients who were opted out at some time
  finished, \* history: the campaign was completed at some time
  budget   \* how often each kind of event has happened

peopleVars == <<optedIn, wording, leftOut>>
recVars == <<rec, stale, linked, batch, finished>>
msgVars == <<msg, box, paced, run>>
vars == <<camp, recVars, peopleVars, msgVars, pump, budget>>

RecStatuses == {"absent", "pending", "preparing", "queued", "failed", "suppressed"}
MsgStatuses == {"none", "sending", "dispatching", "sent", "failed", "uncertain"}
BoxStatuses == {"none", "pending", "dispatching", "processed", "uncertain", "cancelled"}
PumpPcs == {"idle", "claim", "send", "link", "tally"}

TypeOK ==
  /\ camp \in [status : {"draft", "running", "paused", "stopped", "completed"},
               fails : Nat, tripped : BOOLEAN, cooling : BOOLEAN, recent : BOOLEAN]
  /\ rec \in [Recipients -> RecStatuses]
  /\ {stale, linked, optedIn, leftOut} \subseteq SUBSET Recipients
  /\ wording \in [Recipients -> {0, 1}]
  /\ msg \in [Recipients -> [status : MsgStatuses, text : {0, 1}]]
  /\ box \in [Recipients -> BoxStatuses]
  /\ {paced, finished} \subseteq BOOLEAN
  /\ pump \in [Pumps -> [pc : PumpPcs, who : Recipients \cup {NoOne}]]
  /\ \A p \in Pumps : pump[p].pc \in {"send", "link"} => pump[p].who \in Recipients
  /\ run \in [Recipients -> {"no", "call", "reset", "count"}]
  /\ batch \in Nat
  /\ budget \in [Limited -> Nat]

At(pc, r) == [pc |-> pc, who |-> r]

Init ==
  /\ camp = [status |-> "draft", fails |-> 0, tripped |-> FALSE,
             cooling |-> FALSE, recent |-> FALSE]
  /\ rec = [r \in Recipients |-> "absent"]
  /\ stale = {} /\ linked = {} /\ batch = 0 /\ finished = FALSE
  /\ optedIn = Recipients /\ leftOut = {}
  /\ wording = [r \in Recipients |-> 0]
  /\ msg = [r \in Recipients |-> [status |-> "none", text |-> 0]]
  /\ box = [r \in Recipients |-> "none"]
  /\ paced = FALSE
  /\ run = [r \in Recipients |-> "no"]
  /\ pump = [p \in Pumps |-> At("idle", NoOne)]
  /\ budget = [e \in Limited |-> 0]

Spend(e) ==
  /\ budget[e] < (IF e \in Twice THEN 2 ELSE 1)
  /\ MapThenSumSet(LAMBDA k : budget[k], Limited) < MaxEvents
  /\ budget' = [budget EXCEPT ![e] = @ + 1]

-----------------------------------------------------------------------------
(* The routes.  Starting again adds the people who opted in since; pausing *)
(* and stopping overwrite whatever the status was.                         *)
Enlisted == [r \in Recipients |-> IF rec[r] = "absent" /\ r \in optedIn THEN "pending" ELSE rec[r]]

\* Mutant: a status the table does not know.
StartedActive == [camp EXCEPT !.status = "active", !.fails = 0, !.tripped = FALSE, !.recent = TRUE]

Started == [camp EXCEPT !.status = "running", !.fails = 0, !.tripped = FALSE, !.recent = TRUE]

StartCampaign ==
  /\ camp.status # "completed"
  /\ \E r \in Recipients : Enlisted[r] # "absent"
  /\ Spend("start")
  /\ rec' = Enlisted
  /\ camp' = Started
  /\ UNCHANGED <<stale, linked, batch, finished, peopleVars, msgVars, pump>>

HaltCampaign(status) ==
  /\ Spend("halt")
  /\ camp' = [camp EXCEPT !.status = status, !.recent = TRUE]
  /\ UNCHANGED <<recVars, peopleVars, msgVars, pump>>

(* A contact opts in or out.  The text personalise makes for it changes:   *)
(* the contact was renamed, or a {Hi|Hello} of the template is drawn anew. *)
ChangeConsent(r) ==
  /\ Spend("consent")
  /\ optedIn' = IF r \in optedIn THEN optedIn \ {r} ELSE optedIn \cup {r}
  /\ leftOut' = leftOut \cup {r}
  /\ UNCHANGED <<camp, recVars, wording, msgVars, pump>>

Rename(r) ==
  /\ Spend("rename")
  /\ wording' = [wording EXCEPT ![r] = 1 - @]
  /\ UNCHANGED <<camp, recVars, optedIn, leftOut, msgVars, pump>>

-----------------------------------------------------------------------------
(* pumpCampaigns for this campaign, one action per transaction.            *)
Tick(p) ==
  /\ pump[p].pc = "idle"
  /\ camp.status = "running"
  /\ pump' = [pump EXCEPT ![p] = At("claim", NoOne)]
  /\ UNCHANGED <<camp, recVars, peopleVars, msgVars, budget>>

\* Mutant: a claim nobody finished is not taken over.
ClaimablePending == {r \in Recipients : rec[r] = "pending"}

Claimable == {r \in Recipients : rec[r] = "pending" \/ (rec[r] = "preparing" /\ r \in stale)}

\* Mutant: the cooldown is stored, and not looked at.
ClaimDueHurried == camp.status = "running" /\ ~camp.recent /\ Claimable # {}

ClaimDue == camp.status = "running" /\ ~camp.cooling /\ ~camp.recent /\ Claimable # {}

NoClaim(p) ==
  /\ pump[p].pc = "claim"
  /\ ~ClaimDue
  /\ pump' = [pump EXCEPT ![p] = At("tally", NoOne)]
  /\ UNCHANGED <<camp, recVars, peopleVars, msgVars, budget>>

(* All rows but the pending ones, those of suppressed recipients included. *)
ClaimedCount(after) == Cardinality({r \in Recipients : after[r] \notin {"absent", "pending"}})

RestDue(after) ==
  /\ \E r \in Recipients : after[r] = "pending"
  /\ ClaimedCount(after) % BatchSize = 0

(* claimRecipient: the lowest candidate; one who opted out since the start *)
(* is set aside, and neither the pace nor the batch takes notice.          *)
ClaimRecipient(p, r) ==
  /\ pump[p].pc = "claim"
  /\ ClaimDue
  /\ r \in Claimable /\ \A q \in Claimable : r <= q
  /\ IF r \notin optedIn
     THEN /\ rec' = [rec EXCEPT ![r] = "suppressed"]
          /\ pump' = [pump EXCEPT ![p] = At("tally", NoOne)]
          /\ UNCHANGED <<camp, stale, batch>>
     ELSE /\ rec' = [rec EXCEPT ![r] = "preparing"]
          /\ stale' = stale \ {r}
          /\ camp' = [camp EXCEPT !.recent = TRUE, !.cooling = RestDue(rec')]
          /\ batch' = IF rec[r] = "pending" THEN batch + 1 ELSE batch
          /\ pump' = [pump EXCEPT ![p] = At("send", r)]
  /\ UNCHANGED <<linked, finished, peopleVars, msgVars, budget>>

(* sendTextMessage under the recipient's idempotency key: a refused text   *)
(* fails the recipient; a key met before returns the message it made; with *)
(* another text it is a conflict, which ends this round of the pump.       *)
CreateMessage(p) ==
  /\ pump[p].pc = "send"
  /\ LET r == pump[p].who
     IN  CASE r \in Unsendable ->
                /\ rec' = [rec EXCEPT ![r] = "failed"]
                /\ pump' = [pump EXCEPT ![p] = At("tally", NoOne)]
                /\ UNCHANGED <<msg, box>>
           [] r \notin Unsendable /\ msg[r].status = "none" ->
                /\ msg' = [msg EXCEPT ![r] = [status |-> "sending", text |-> wording[r]]]
                /\ box' = [box EXCEPT ![r] = "pending"]
                /\ pump' = [pump EXCEPT ![p] = At("link", r)]
                /\ UNCHANGED rec
           [] r \notin Unsendable /\ msg[r].status # "none" ->
                /\ pump' = [pump EXCEPT ![p] =
                              IF msg[r].text = wording[r] THEN At("link", r) ELSE At("idle", NoOne)]
                /\ UNCHANGED <<rec, msg, box>>
  /\ UNCHANGED <<camp, stale, linked, batch, finished, peopleVars, paced, run, budget>>

LinkMessage(p) ==
  /\ pump[p].pc = "link"
  /\ LET r == pump[p].who
     IN  /\ rec' = [rec EXCEPT ![r] = "queued"]
         /\ linked' = linked \cup {r}
  /\ pump' = [pump EXCEPT ![p] = At("tally", NoOne)]
  /\ UNCHANGED <<camp, stale, batch, finished, peopleVars, msgVars, budget>>

Open == {"sending", "dispatching", "uncertain"}

\* Mutant: a message whose outcome is unknown does not keep the campaign open.
UnfinishedSure(r) ==
  rec[r] \in {"pending", "preparing"} \/ (r \in linked /\ msg[r].status = "sending")

Unfinished(r) ==
  rec[r] \in {"pending", "preparing"} \/ (r \in linked /\ msg[r].status \in Open)

Tally(p) ==
  /\ pump[p].pc = "tally"
  /\ IF camp.status = "running" /\ \A r \in Recipients : ~Unfinished(r)
     THEN /\ camp' = [camp EXCEPT !.status = "completed"]
          /\ finished' = TRUE
     ELSE UNCHANGED <<camp, finished>>
  /\ pump' = [pump EXCEPT ![p] = At("idle", NoOne)]
  /\ UNCHANGED <<rec, stale, linked, batch, peopleVars, msgVars, budget>>

(* A crash, or a failed statement: the round of the pump is lost.          *)
PumpStops(p) ==
  /\ pump[p].pc # "idle"
  /\ Spend("crash")
  /\ pump' = [pump EXCEPT ![p] = At("idle", NoOne)]
  /\ UNCHANGED <<camp, recVars, peopleVars, msgVars>>

-----------------------------------------------------------------------------
(* The campaign branch of dispatchMessage.  Its claim holds the campaign   *)
(* row, so a pause waits for it.                                           *)
\* Mutant: the message need not be the one its recipient is linked to.
EligibleUnlinked(r) == r \in optedIn

Eligible(r) == r \in linked /\ r \in optedIn

Cancel(r) ==
  /\ box[r] = "pending"
  /\ camp.status = "running"
  /\ ~Eligible(r)
  /\ msg' = [msg EXCEPT ![r].status = IF @ = "sending" THEN "failed" ELSE @]
  /\ box' = [box EXCEPT ![r] = "cancelled"]
  /\ UNCHANGED <<camp, recVars, peopleVars, paced, run, pump, budget>>

Dispatch(r) ==
  /\ box[r] = "pending"
  /\ camp.status = "running"
  /\ Eligible(r)
  /\ \A q \in Recipients : msg[q].status # "dispatching"
  /\ ~paced
  /\ msg[r].status = "sending"
  /\ msg' = [msg EXCEPT ![r].status = "dispatching"]
  /\ box' = [box EXCEPT ![r] = "dispatching"]
  /\ paced' = TRUE
  /\ run' = [run EXCEPT ![r] = "call"]
  /\ UNCHANGED <<camp, recVars, peopleVars, pump, budget>>

(* The call returned an id.  With an acknowledgement ("sent" stands for    *)
(* delivered and read as well) the message is sent; with ack 0 its status  *)
(* is "sending" again while the outbox row is processed.  A second job     *)
(* that then sends it again is the subject of OutboundDispatch; a failing  *)
(* statement after this transaction, inside the same try, is left out.     *)
Confirm(r) ==
  /\ run[r] = "call"
  /\ \/ msg' = [msg EXCEPT ![r].status = "sent"] /\ UNCHANGED budget
     \/ msg' = [msg EXCEPT ![r].status = "sending"] /\ Spend("ack 0")
  /\ box' = [box EXCEPT ![r] = "processed"]
  /\ run' = [run EXCEPT ![r] = "reset"]
  /\ UNCHANGED <<camp, recVars, peopleVars, paced, pump>>

Unacknowledged(r) == msg[r].status = "sending" /\ box[r] = "processed"

(* handleAckEvent: the receipt an unacknowledged message still waited for, *)
(* which may also say that it failed.                                      *)
Receipt(r) ==
  /\ Unacknowledged(r)
  /\ \E status \in {"sent", "failed"} : msg' = [msg EXCEPT ![r].status = status]
  /\ UNCHANGED <<camp, recVars, peopleVars, box, paced, run, pump, budget>>

ResetFailures(r) ==
  /\ run[r] = "reset"
  /\ camp' = [camp EXCEPT !.fails = 0]
  /\ run' = [run EXCEPT ![r] = "no"]
  /\ UNCHANGED <<recVars, peopleVars, msg, box, paced, pump, budget>>

(* The call throws: the number is offline, or the outcome is unknown.      *)
CallFails(r) ==
  /\ run[r] = "call"
  /\ Spend("failure")
  /\ \/ /\ msg' = [msg EXCEPT ![r].status = "sending"]
        /\ box' = [box EXCEPT ![r] = "pending"]
     \/ /\ msg' = [msg EXCEPT ![r].status = "uncertain"]
        /\ box' = [box EXCEPT ![r] = "uncertain"]
  /\ run' = [run EXCEPT ![r] = "count"]
  /\ UNCHANGED <<camp, recVars, peopleVars, paced, pump>>

\* Mutant: the comparison is off by one.
TripsLate(fails) == fails > Breaker

Trips(fails) == fails >= Breaker

CountFailure(r) ==
  /\ run[r] = "count"
  /\ camp' = [camp EXCEPT !.fails = @ + 1,
                          !.tripped = @ \/ Trips(camp.fails + 1),
                          !.status = IF Trips(camp.fails + 1) THEN "paused" ELSE @]
  /\ run' = [run EXCEPT ![r] = "no"]
  /\ UNCHANGED <<recVars, peopleVars, msg, box, paced, pump, budget>>

-----------------------------------------------------------------------------
(* Time: the pause after a claim, the cooldown, the number's own pace, and *)
(* the two minutes after which a claim is taken over.                      *)
PauseOver ==
  /\ camp.recent
  /\ camp' = [camp EXCEPT !.recent = FALSE]
  /\ UNCHANGED <<recVars, peopleVars, msgVars, pump, budget>>

CooldownOver ==
  /\ camp.cooling
  /\ camp' = [camp EXCEPT !.cooling = FALSE]
  /\ batch' = 0
  /\ UNCHANGED <<rec, stale, linked, finished, peopleVars, msgVars, pump, budget>>

PaceOver ==
  /\ paced
  /\ paced' = FALSE
  /\ UNCHANGED <<camp, recVars, peopleVars, msg, box, run, pump, budget>>

ClaimAges(r) ==
  /\ rec[r] = "preparing" /\ r \notin stale
  /\ stale' = stale \cup {r}
  /\ UNCHANGED <<camp, rec, linked, batch, finished, peopleVars, msgVars, pump, budget>>

-----------------------------------------------------------------------------
Pumping(p) ==
  \/ Tick(p) \/ NoClaim(p) \/ CreateMessage(p) \/ LinkMessage(p) \/ Tally(p)
  \/ \E r \in Recipients : ClaimRecipient(p, r)

Dispatching(r) ==
  \/ Cancel(r) \/ Dispatch(r) \/ Confirm(r) \/ Receipt(r)
  \/ ResetFailures(r) \/ CallFails(r) \/ CountFailure(r)

People == StartCampaign \/ HaltCampaign("paused") \/ HaltCampaign("stopped")

Clock == PauseOver \/ CooldownOver \/ PaceOver \/ \E r \in Recipients : ClaimAges(r)

Next ==
  \/ \E p \in Pumps : Pumping(p) \/ PumpStops(p)
  \/ \E r \in Recipients : Dispatching(r) \/ ChangeConsent(r) \/ Rename(r)
  \/ People \/ Clock

Spec == Init /\ [][Next]_vars

(* The timers fire, time passes, and the number of the campaign is         *)
(* connected, so that the publisher offers a pending message again and     *)
(* again.  Nothing makes a receipt arrive.                                 *)
Fairness ==
  /\ WF_vars(PauseOver) /\ WF_vars(CooldownOver) /\ WF_vars(PaceOver)
  /\ \A p \in Pumps : WF_vars(Pumping(p))
  /\ \A r \in Recipients :
       /\ WF_vars(ClaimAges(r)) /\ WF_vars(Cancel(r)) /\ SF_vars(Dispatch(r))
       /\ WF_vars(Confirm(r)) /\ WF_vars(ResetFailures(r)) /\ WF_vars(CountFailure(r))

FairSpec == Spec /\ Fairness

-----------------------------------------------------------------------------
(* The breaker and the pump agree: a campaign that runs has not reached    *)
(* the limit of failures, and the screen does not call it tripped.         *)
RunningBelowBreaker == camp.status = "running" => camp.fails < Breaker /\ ~camp.tripped

(* Whatever was handed to WhatsApp, acknowledged or not, is linked to its  *)
(* recipient, so that the campaign counts it and waits for it.             *)
SentIsCounted ==
  \A r \in Recipients : box[r] \in {"dispatching", "processed", "uncertain"} => r \in linked

(* A completed campaign has nothing left to claim, and no message linked   *)
(* to it is still to be sent or on its way.  It takes a single pump: with  *)
(* two, one that stands still for two minutes may link its message late.   *)
CompletedIsHandled ==
  camp.status = "completed" =>
    \A r \in Recipients :
      /\ rec[r] \notin {"pending", "preparing"} /\ run[r] # "call"
      /\ r \in linked => box[r] \notin {"pending", "dispatching", "uncertain"}

(* "A broadcast pauses after each batch": as long as nobody opted out, no  *)
(* more than one batch is claimed between two cooldowns.                   *)
BatchesRest == leftOut = {} => batch <= BatchSize

(* A campaign does not stay running for ever, unless one of its messages   *)
(* has an outcome nobody knows, or was taken without an acknowledgement    *)
(* and no receipt ever comes (the tally counts it as still to be sent), or *)
(* a text has changed since its message was made, so that the retry of an  *)
(* interrupted claim is a conflict.                                        *)
Settling(r) ==
  /\ msg[r].status # "uncertain" /\ ~Unacknowledged(r)
  /\ msg[r].status = "none" \/ msg[r].text = wording[r]

CampaignFinishes == ~<>[](camp.status = "running" /\ \A r \in Recipients : Settling(r))
=============================================================================
