--------------------------- MODULE WebhookDelivery ---------------------------
(***************************************************************************)
(* Outgoing webhooks (services/webhookService.js): an event is recorded as *)
(* one delivery for each endpoint in use, and pumpWebhooks posts the ones  *)
(* that are due, at most five times each, waiting longer after each        *)
(* failure.  A delivery taken by a process that stops is taken again a     *)
(* minute later; if that was the fifth attempt it is swept up as failed.   *)
(*                                                                         *)
(* The deliveries of one endpoint are modelled.  An action is a statement  *)
(* or the POST; a process stops, or one of its statements fails, between   *)
(* any two.                                                                *)
(***************************************************************************)
EXTENDS Integers, FiniteSets

CONSTANTS
  Deliveries,  \* ids, in the order of created_at
  Workers,     \* processes that run pumpWebhooks
  MaxAttempts, \* attempts of a delivery (5 in the code)
  BatchLimit,  \* deliveries one call takes (10 in the code)
  MaxStops     \* bound: how often a pump stops half way

ASSUME WebhookAssumption ==
  /\ Deliveries \subseteq Nat
  /\ {MaxAttempts, BatchLimit} \subseteq Nat \ {0} /\ MaxStops \in Nat
  /\ IsFiniteSet(Workers)

VARIABLES
  status,   \* webhook_deliveries.status, "none" without a row
  attempts, \* webhook_deliveries.attempts
  due,      \* deliveries whose retry_at has passed
  enabled,  \* webhook_endpoints.enabled
  pump,     \* the pumpWebhooks call of each process
  posts,    \* history: POSTs the receiver got
  stops     \* how often a pump stopped half way

rowVars == <<status, attempts, due>>
vars == <<rowVars, enabled, pump, posts, stops>>

Waiting == {"pending", "retry", "processing"}
Idle == [pc |-> "idle", todo |-> {}, taken |-> [d \in Deliveries |-> 0]]

TypeOK ==
  /\ status \in [Deliveries -> Waiting \cup {"none", "delivered", "failed"}]
  /\ attempts \in [Deliveries -> Nat]
  /\ due \subseteq Deliveries
  /\ enabled \in BOOLEAN
  /\ pump \in [Workers -> [pc : {"idle", "claim", "next", "post", "done", "error"},
                           todo : SUBSET Deliveries, taken : [Deliveries -> Nat]]]
  /\ posts \in [Deliveries -> Nat]
  /\ stops \in Nat

Init ==
  /\ status = [d \in Deliveries |-> "none"]
  /\ attempts = [d \in Deliveries |-> 0]
  /\ due = {}
  /\ enabled = TRUE
  /\ pump = [w \in Workers |-> Idle]
  /\ posts = [d \in Deliveries |-> 0]
  /\ stops = 0

At(w, pc) == pump[w].pc = pc

Goto(w, pc) == pump' = [pump EXCEPT ![w].pc = pc]

(* The delivery in hand: they are handled one after the other.             *)
Least(S) == CHOOSE d \in S : \A e \in S : d <= e
Current(w) == Least(pump[w].todo)

-----------------------------------------------------------------------------
Record(d) ==
  /\ enabled
  /\ status[d] = "none"
  /\ \A e \in Deliveries : e < d => status[e] # "none"
  /\ status' = [status EXCEPT ![d] = "pending"]
  /\ due' = due \cup {d}
  /\ UNCHANGED <<attempts, enabled, pump, posts, stops>>

DisableEndpoint ==
  /\ enabled
  /\ enabled' = FALSE
  /\ UNCHANGED <<rowVars, pump, posts, stops>>

RetryDue(d) ==
  /\ status[d] \in Waiting /\ d \notin due
  /\ due' = due \cup {d}
  /\ UNCHANGED <<status, attempts, enabled, pump, posts, stops>>

-----------------------------------------------------------------------------
(* pumpWebhooks: the sweep, then the claim.                                *)
\* Mutant: nothing is swept up.
SweptNone == {}

Swept == {d \in due : status[d] = "processing" /\ attempts[d] >= MaxAttempts}

Sweep(w) ==
  /\ At(w, "idle")
  /\ status' = [d \in Deliveries |-> IF d \in Swept THEN "failed" ELSE status[d]]
  /\ Goto(w, "claim")
  /\ UNCHANGED <<attempts, due, enabled, posts, stops>>

\* Mutant: a delivery is taken whatever its status.
ClaimableAny(d) == d \in due /\ status[d] # "none" /\ attempts[d] < MaxAttempts

\* Mutant: a delivery is taken however often it was tried.
ClaimableForever(d) == d \in due /\ status[d] \in Waiting

Claimable(d) == d \in due /\ status[d] \in Waiting /\ attempts[d] < MaxAttempts

Lowest(S, n) == {d \in S : Cardinality({e \in S : e < d}) < n}

\* Mutant: the attempt is not counted when it is taken.
CountedLater(n) == n

Counted(n) == n + 1

Claim(w) ==
  /\ At(w, "claim")
  /\ LET batch == Lowest({d \in Deliveries : Claimable(d)}, BatchLimit)
     IN  /\ status' = [d \in Deliveries |-> IF d \in batch THEN "processing" ELSE status[d]]
         /\ attempts' = [d \in Deliveries |-> IF d \in batch THEN Counted(attempts[d]) ELSE attempts[d]]
         /\ due' = due \ batch
         /\ pump' = [pump EXCEPT ![w] =
                       IF batch = {} THEN Idle
                       ELSE [pc |-> "next", todo |-> batch,
                             taken |-> [d \in Deliveries |-> IF d \in batch THEN attempts'[d] ELSE 0]]]
  /\ UNCHANGED <<enabled, posts, stops>>

CheckEndpoint(w) ==
  /\ At(w, "next")
  /\ Goto(w, IF enabled THEN "post" ELSE "error")
  /\ UNCHANGED <<rowVars, enabled, posts, stops>>

(* deliverWebhook: no connection; a POST whose answer is an error or is    *)
(* lost; a POST answered with 2xx.                                         *)
Post(w) ==
  /\ At(w, "post")
  /\ LET d == Current(w)
     IN  \/ /\ Goto(w, "error")
            /\ UNCHANGED posts
         \/ /\ Goto(w, "error")
            /\ posts' = [posts EXCEPT ![d] = @ + 1]
         \/ /\ Goto(w, "done")
            /\ posts' = [posts EXCEPT ![d] = @ + 1]
  /\ UNCHANGED <<rowVars, enabled, stops>>

Following(w, d) ==
  IF pump[w].todo = {d} THEN Idle
  ELSE [pump[w] EXCEPT !.pc = "next", !.todo = @ \ {d}]

(* Both outcomes are written by id, whatever the row says by then; the     *)
(* outcome of a failure depends on the attempts it was claimed with.       *)
Delivered(w) ==
  /\ At(w, "done")
  /\ LET d == Current(w)
     IN  /\ status' = [status EXCEPT ![d] = "delivered"]
         /\ pump' = [pump EXCEPT ![w] = Following(w, d)]
  /\ UNCHANGED <<attempts, due, enabled, posts, stops>>

\* Mutant: the last attempt is one short.
FailureStatusEarly(n) == IF n >= MaxAttempts - 1 THEN "failed" ELSE "retry"

\* Mutant: a status the table does not know.
FailureStatusGone(n) == IF n >= MaxAttempts THEN "gone" ELSE "retry"

FailureStatus(n) == IF n >= MaxAttempts THEN "failed" ELSE "retry"

Failed(w) ==
  /\ At(w, "error")
  /\ LET d == Current(w)
     IN  /\ status' = [status EXCEPT ![d] = FailureStatus(pump[w].taken[d])]
         /\ due' = due \ {d}
         /\ pump' = [pump EXCEPT ![w] = Following(w, d)]
  /\ UNCHANGED <<attempts, enabled, posts, stops>>

(* The process stops, or a statement outside the try fails: the call is    *)
(* over.  If the statement that records a success fails, the delivery is   *)
(* recorded as a failure.                                                  *)
PumpStops(w) ==
  /\ ~At(w, "idle")
  /\ stops < MaxStops
  /\ stops' = stops + 1
  /\ \/ pump' = [pump EXCEPT ![w] = Idle]
     \/ At(w, "done") /\ Goto(w, "error")
  /\ UNCHANGED <<rowVars, enabled, posts>>

-----------------------------------------------------------------------------
PumpWebhooks(w) ==
  Sweep(w) \/ Claim(w) \/ CheckEndpoint(w) \/ Post(w) \/ Delivered(w) \/ Failed(w)

Next ==
  \/ \E w \in Workers : PumpWebhooks(w) \/ PumpStops(w)
  \/ \E d \in Deliveries : Record(d) \/ RetryDue(d)
  \/ DisableEndpoint

Spec == Init /\ [][Next]_vars

(* The job timer fires, a POST ends within its timeout, time passes.       *)
FairSpec ==
  /\ Spec
  /\ \A w \in Workers : WF_vars(PumpWebhooks(w))
  /\ \A d \in Deliveries : WF_vars(RetryDue(d))

-----------------------------------------------------------------------------
(* Two processes never work on the same attempt, even if one of them takes *)
(* over what the other still holds.                                        *)
AttemptsAreOwned ==
  \A v, w \in Workers : \A d \in pump[v].todo \cap pump[w].todo :
    pump[v].taken[d] = pump[w].taken[d] => v = w

(* The receiver gets a delivery at most five times, whoever posts it and   *)
(* wherever they stop.                                                     *)
PostsAreBounded == \A d \in Deliveries : posts[d] <= MaxAttempts

(* A delivery is given up only when its attempts are used up.              *)
FailedIsSpent == \A d \in Deliveries : status[d] = "failed" => attempts[d] >= MaxAttempts

(* Why the receiver gets no more: every POST is paid for by an attempt the *)
(* row counts, and so is every POST a pump has still to make.              *)
Unposted(w) == {d \in pump[w].todo : pump[w].pc \in {"next", "post"} \/ d # Current(w)}
Holders(d) == {w \in Workers : d \in Unposted(w)}

PumpInv ==
  \A w \in Workers :
    /\ pump[w].pc \in {"idle", "claim"} <=> pump[w].todo = {}
    /\ \A d \in pump[w].todo : pump[w].taken[d] <= attempts[d]

BudgetInv ==
  \A d \in Deliveries : /\ posts[d] + Cardinality(Holders(d)) <= attempts[d]
                        /\ attempts[d] <= MaxAttempts

(* A delivery recorded as delivered or given up stays so, and is not taken *)
(* up again.  Only a process that took it before, and was overtaken by the *)
(* sweep or by another process, writes its own outcome over that.          *)
InHand(d) == \E w \in Workers : d \in pump[w].todo

OutcomeStands ==
  [][\A d \in Deliveries :
       status[d] \in {"delivered", "failed"} /\ ~InHand(d) => status'[d] = status[d]]_vars

(* Every delivery is delivered or given up in the end, also one whose last *)
(* attempt was interrupted.  The exception takes two processes: one that   *)
(* was overtaken puts back to "retry" what has no attempt left, and the    *)
(* one that has the last attempt stops; no sweep finds that row.           *)
Stranded(d) == status[d] = "retry" /\ attempts[d] >= MaxAttempts

EveryDeliverySettles ==
  \A d \in Deliveries :
    status[d] = "pending" ~> status[d] \in {"delivered", "failed"} \/ Stranded(d)
=============================================================================
