----------------------------- MODULE MessageLife -----------------------------
(***************************************************************************)
(* What the outbox promises of a message, without rows, jobs, leases and   *)
(* workers: it is accepted, taken in hand, given to WhatsApp at most once, *)
(* and shown as what is known of it.  A number has one message in flight.  *)
(* OutboundDispatch implements it while every confirmed call carries a     *)
(* positive ack.                                                           *)
(***************************************************************************)
EXTENDS Naturals

CONSTANTS Messages, SessionOf

VARIABLES
  shown,   \* what the inbox shows: nothing, waiting, in flight, or an outcome
  hand,    \* messages somebody may still give to WhatsApp, or report on
  copies   \* how many copies WhatsApp has

vars == <<shown, hand, copies>>

Init ==
  /\ shown = [m \in Messages |-> "none"]
  /\ hand = {}
  /\ copies = [m \in Messages |-> 0]

Accept(m) ==
  /\ shown[m] = "none"
  /\ shown' = [shown EXCEPT ![m] = "waiting"]
  /\ UNCHANGED <<hand, copies>>

Take(m) ==
  /\ shown[m] = "waiting" /\ m \notin hand
  /\ \A n \in Messages : SessionOf[n] = SessionOf[m] => shown[n] /= "inFlight"
  /\ shown' = [shown EXCEPT ![m] = "inFlight"]
  /\ hand' = hand \cup {m}
  /\ UNCHANGED copies

Give(m) ==
  /\ m \in hand /\ copies[m] = 0
  /\ copies' = [copies EXCEPT ![m] = 1]
  /\ UNCHANGED <<shown, hand>>

(* The number was not connected: the message waits again.                  *)
PutBack(m) ==
  /\ m \in hand /\ copies[m] = 0
  /\ shown' = [shown EXCEPT ![m] = "waiting"]
  /\ hand' = hand \ {m}
  /\ UNCHANGED copies

(* An outcome, known or unknown, of the messages of a set; hands are let   *)
(* go with it or without it, by a crash all of them.                       *)
Settle(done, left) ==
  /\ \A m \in done : shown[m] /= "none"
  /\ shown' = [m \in Messages |-> IF m \in done THEN "outcome" ELSE shown[m]]
  /\ left \subseteq hand /\ hand' = left
  /\ UNCHANGED copies

Next ==
  \/ \E m \in Messages : Accept(m) \/ Take(m) \/ Give(m) \/ PutBack(m)
  \/ \E done \in SUBSET Messages, left \in SUBSET hand : Settle(done, left)

Spec == Init /\ [][Next]_vars
=============================================================================
