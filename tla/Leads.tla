------------------------------- MODULE Leads -------------------------------
(***************************************************************************)
(* The leads of one contact, the chat with that contact, and the steps of  *)
(* the company's pipeline (leadService, leadRoutes, the assignment in      *)
(* conversationRoutes).  Every request reads first and writes later, with  *)
(* other requests in between; nothing is locked.  Values, titles, ranks,   *)
(* the timeline and who may see a lead are left out.                       *)
(***************************************************************************)
EXTENDS Naturals, FiniteSets

CONSTANTS
  Ids,        \* leads that may be made
  Members,    \* active teammates
  Steps,      \* open steps a pipeline may have
  Requests,   \* requests being served at the same time
  Nobody,
  MaxAsks     \* bound: requests in all

VARIABLES
  pipeline,   \* the position of every step there is
  leads,      \* the rows of leads: status, step and owner
  assigned,   \* the chat's assigned_user_id
  doing,      \* what each request is at, and what it read
  alone,      \* history: no other request ran beside this one
  advanced,   \* history: every system advance found the lead open and behind
  asks

vars == <<pipeline, leads, assigned, doing, alone, advanced, asks>>

Closing == {"won", "lost"}
Owners == Members \cup {Nobody}
NoLead == [status |-> "none", step |-> "none", owner |-> Nobody]
Idle == [does |-> "idle"]

(* The open steps wanted, in an order; the two closing steps come last.    *)
Orders(open) ==
  {order \in [open -> 0..Cardinality(open) - 1] : \A s, t \in open : order[s] = order[t] => s = t}
Placed(order) ==
  [s \in DOMAIN order \cup Closing |->
     CASE s = "won"  -> Cardinality(DOMAIN order)
       [] s = "lost" -> Cardinality(DOMAIN order) + 1
       [] OTHER      -> order[s]]

Init ==
  /\ \E s \in Steps : \E order \in Orders(Steps \ {s}) : pipeline = Placed(order)
  /\ \E status \in {"none", "won"}, l \in Ids :
       leads = [k \in Ids |-> IF k = l /\ status = "won"
                             THEN [NoLead EXCEPT !.status = status, !.step = status] ELSE NoLead]
  /\ assigned = Nobody
  /\ doing = [r \in Requests |-> Idle]
  /\ alone = [r \in Requests |-> FALSE]
  /\ advanced = TRUE
  /\ asks = 0

Kind(s) == IF s \in Closing THEN s ELSE "open"
InPipeline(s) == s \in DOMAIN pipeline
Opens == {l \in Ids : leads[l].status = "open"}
Made == {l \in Ids : leads[l].status /= "none"}

(* Mutant of Clashes: no unique index stands behind the reads.             *)
ClashesNever(l, status) == FALSE

(* uq_leads_one_open_per_contact: the database refuses a second open lead. *)
Clashes(l, status) == status = "open" /\ Opens \ {l} /= {}

-----------------------------------------------------------------------------
Starts(r, work) ==
  /\ doing[r] = Idle
  /\ asks < MaxAsks /\ asks' = asks + 1
  /\ doing' = [doing EXCEPT ![r] = work]
  /\ alone' = [q \in Requests |-> q = r /\ \A o \in Requests \ {r} : doing[o] = Idle]

Next1(r, work) == doing' = [doing EXCEPT ![r] = work] /\ UNCHANGED <<alone, asks>>

(* createLead: a contact with an open lead gets that one back.             *)
FindForCreate(r) ==
  \E owner \in Owners, s \in Steps :
    /\ Opens = {} /\ InPipeline(s)
    /\ Starts(r, [does |-> "create", owner |-> owner, step |-> s])
    /\ UNCHANGED <<pipeline, leads, assigned, advanced>>

(* The second of two at once is refused by the index and is given the      *)
(* first's lead; a step that has gone meanwhile fails the insert.          *)
Insert(r) ==
  LET work == doing[r] IN
  /\ work.does = "create"
  /\ IF ~InPipeline(work.step) \/ Opens /= {}
     THEN Next1(r, Idle) /\ UNCHANGED leads
     ELSE \E l \in Ids \ Made :
            /\ leads' = [leads EXCEPT ![l] = [status |-> "open", step |-> work.step, owner |-> work.owner]]
            /\ Next1(r, IF work.owner = Nobody THEN Idle
                        ELSE [does |-> "share", lead |-> l, owner |-> work.owner])
  /\ UNCHANGED <<pipeline, assigned, advanced>>

(* updateLead: whether the owner changed is decided from the row findLead  *)
(* returned.                                                               *)
FindForOwner(r) ==
  \E l \in Made, owner \in Owners :
    /\ Starts(r, [does |-> "own", lead |-> l, owner |-> owner, changes |-> owner /= leads[l].owner])
    /\ UNCHANGED <<pipeline, leads, assigned, advanced>>

SetOwner(r) ==
  LET work == doing[r] IN
  /\ work.does = "own"
  /\ leads' = IF work.lead \in Made THEN [leads EXCEPT ![work.lead].owner = work.owner] ELSE leads
  /\ Next1(r, IF work.changes THEN [does |-> "share", lead |-> work.lead, owner |-> work.owner] ELSE Idle)
  /\ UNCHANGED <<pipeline, assigned, advanced>>

(* syncChatOwner: the chat goes to the lead's owner.                       *)
Share(r) ==
  /\ doing[r].does = "share"
  /\ assigned' = doing[r].owner
  /\ Next1(r, Idle)
  /\ UNCHANGED <<pipeline, leads, advanced>>

(* The other way round: the chat is assigned, then syncLeadOwner gives the *)
(* contact's open lead the same owner.                                     *)
Assign(r) ==
  \E owner \in Owners :
    /\ Starts(r, [does |-> "follow", owner |-> owner])
    /\ assigned' = owner
    /\ UNCHANGED <<pipeline, leads, advanced>>

(* Mutant of Follow: only a lead nobody owns follows its chat.             *)
FollowUnowned(r) ==
  /\ doing[r].does = "follow"
  /\ leads' = [l \in Ids |-> IF l \in Opens /\ leads[l].owner = Nobody
                            THEN [leads[l] EXCEPT !.owner = doing[r].owner] ELSE leads[l]]
  /\ Next1(r, Idle)
  /\ UNCHANGED <<pipeline, assigned, advanced>>

Follow(r) ==
  /\ doing[r].does = "follow"
  /\ leads' = [l \in Ids |-> IF l \in Opens THEN [leads[l] EXCEPT !.owner = doing[r].owner] ELSE leads[l]]
  /\ Next1(r, Idle)
  /\ UNCHANGED <<pipeline, assigned, advanced>>

(* moveLead: the step decides the status; reopening is refused while the   *)
(* contact has another open lead.                                          *)
FindForMove(r) ==
  \E l \in Made, s \in DOMAIN pipeline :
    /\ Starts(r, [does |-> "move", lead |-> l, step |-> s])
    /\ UNCHANGED <<pipeline, leads, assigned, advanced>>

Move(r) ==
  LET work == doing[r]
      status == Kind(work.step) IN
  /\ work.does = "move"
  /\ leads' = IF work.lead \in Made /\ InPipeline(work.step) /\ ~Clashes(work.lead, status)
              THEN [leads EXCEPT ![work.lead] = [@ EXCEPT !.status = status, !.step = work.step]]
              ELSE leads
  /\ Next1(r, Idle)
  /\ UNCHANGED <<pipeline, assigned, advanced>>

(* advanceLeadBySystem: the lead is read and found to be open and behind,  *)
(* then written in a transaction of its own.                               *)
FindForAdvance(r) ==
  \E l \in Opens, s \in DOMAIN pipeline \ Closing :
    /\ pipeline[s] > pipeline[leads[l].step]
    /\ Starts(r, [does |-> "advance", lead |-> l, step |-> s])
    /\ UNCHANGED <<pipeline, leads, assigned, advanced>>

Advance(r) ==
  LET work == doing[r] IN
  /\ work.does = "advance"
  /\ IF work.lead \in Made /\ InPipeline(work.step)
     THEN /\ leads' = [leads EXCEPT ![work.lead].step = work.step]
          /\ advanced' = (/\ advanced
                          /\ leads[work.lead].status = "open"
                          /\ pipeline[leads[work.lead].step] <= pipeline[work.step])
     ELSE UNCHANGED <<leads, advanced>>
  /\ Next1(r, Idle)
  /\ UNCHANGED <<pipeline, assigned>>

Delete(l) ==
  /\ l \in Made
  /\ leads' = [leads EXCEPT ![l] = NoLead]
  /\ alone' = [r \in Requests |-> FALSE]
  /\ UNCHANGED <<pipeline, assigned, doing, advanced, asks>>

(* saveStages: the steps to remove and whether leads stand in them are     *)
(* read first.                                                             *)
InUse(s) == \E l \in Made : leads[l].step = s

FindForSave(r) ==
  \E open \in SUBSET Steps \ {{}} : \E wanted \in Orders(open) :
    LET removed == DOMAIN pipeline \ (open \cup Closing) IN
    /\ ~\E s \in removed : InUse(s)
    /\ Starts(r, [does |-> "save", wanted |-> wanted, removed |-> removed, new |-> open \ DOMAIN pipeline])
    /\ UNCHANGED <<pipeline, leads, assigned, advanced>>

(* A lead that came into a removed step fails the deletion, and the whole  *)
(* change.  A step another manager made meanwhile was parked at the end    *)
(* and stays there.                                                        *)
Save(r) ==
  LET work == doing[r]
      placed == Placed(work.wanted)
      there == (DOMAIN pipeline \ work.removed) \cup work.new IN
  /\ work.does = "save"
  /\ pipeline' = IF \E s \in work.removed : InUse(s) THEN pipeline
                 ELSE [s \in there |-> IF s \in DOMAIN placed THEN placed[s] ELSE pipeline[s] + 1000]
  /\ Next1(r, Idle)
  /\ UNCHANGED <<leads, assigned, advanced>>

Next ==
  \/ \E r \in Requests :
       \/ FindForCreate(r) \/ Insert(r) \/ FindForOwner(r) \/ SetOwner(r) \/ Share(r)
       \/ Assign(r) \/ Follow(r) \/ FindForMove(r) \/ Move(r)
       \/ FindForAdvance(r) \/ Advance(r) \/ FindForSave(r) \/ Save(r)
  \/ \E l \in Ids : Delete(l)

Spec == Init /\ [][Next]_vars

-----------------------------------------------------------------------------
TypeOK ==
  /\ DOMAIN pipeline \subseteq Steps \cup Closing /\ \A s \in DOMAIN pipeline : pipeline[s] \in Nat
  /\ leads \in [Ids -> [status : {"none", "open"} \cup Closing,
                        step : Steps \cup Closing \cup {"none"}, owner : Owners]]
  /\ assigned \in Owners
  /\ \A r \in Requests :
       doing[r].does \in {"idle", "create", "own", "share", "follow", "move", "advance", "save"}
  /\ alone \in [Requests -> BOOLEAN] /\ advanced \in BOOLEAN
  /\ asks \in 0..MaxAsks

(* "A contact has at most one open lead at a time", whatever two requests  *)
(* create and reopen at once, and no lead is left in a step that is gone.  *)
OneOpenLead == Cardinality(Opens) <= 1
LeadsHaveSteps == \A l \in Made : InPipeline(leads[l].step)

(* A request nothing else ran beside leaves the chat and the open lead it  *)
(* changed with one owner.                                                 *)
OwnersAgree ==
  [][\A r \in Requests :
       (alone[r] /\ doing[r].does \in {"share", "follow"} /\ doing'[r] = Idle)
         => \A l \in Opens : (doing[r].does = "share" => l = doing[r].lead)
                               => leads'[l].owner = assigned']_vars

(* A rule moves a lead on: never back to an earlier step, never one that   *)
(* is won or lost.                                                         *)
NeverBack == advanced
=============================================================================
