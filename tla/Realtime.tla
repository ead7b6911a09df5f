------------------------------ MODULE Realtime ------------------------------
(***************************************************************************)
(* Live events of one WhatsApp number (realtime), as its process sends     *)
(* them: to the managers and to the number's owner, who is looked up in    *)
(* the database and remembered for a while.  The number's own events wait  *)
(* for each other; the event of a lead of that number ("lead") does not.   *)
(***************************************************************************)
EXTENDS Naturals, Sequences

CONSTANTS
  Users, Managers, NoOne,
  Ttl,                              \* OWNER_TTL_MS in ticks
  MaxEvents, MaxTime, MaxChanges, MaxFaults   \* bounds

VARIABLES
  owner,     \* whatsapp_sessions.owner_user_id; NoRow while the number is not there
  owned,     \* ghost: when each user last owned the number, 0 for never
  cache,     \* owners: what is remembered and until when
  lookups,   \* events not sent yet and how far the lookup of each is
  sent,      \* events so far
  heard,     \* what reached each user, in order
  changing,  \* the owner was changed and the cache not told yet
  changes, faults, clock

vars == <<owner, owned, cache, lookups, sent, heard, changing, changes, faults, clock>>

NoRow == "no row"
Waiting == "waiting"   \* for its turn, or for the next statement
Reading == "reading"
Rows == Users \union {NoOne, NoRow}
Forgotten == [owner |-> NoOne, until |-> 0]
Events == 1..MaxEvents
Lead == MaxEvents + 1

Init ==
  /\ owner \in Users \union {NoRow}
  /\ owned = [u \in Users |-> IF u = owner THEN 1 ELSE 0]
  /\ cache = Forgotten
  /\ lookups = [e \in {} |-> Waiting]
  /\ sent = 0
  /\ heard = [u \in Users |-> <<>>]
  /\ changing = FALSE
  /\ changes = 0 /\ faults = 0 /\ clock = 1

-----------------------------------------------------------------------------
Pending == DOMAIN lookups

(* Mutant of Turn: every event looks its owner up at once.                 *)
TurnAny(e) == TRUE

(* sessionTails: an event waits until the ones before it are sent.         *)
Turn(e) == e = Lead \/ \A f \in Pending : e <= f

Fresh == clock < cache.until
Without(e) == [f \in Pending \ {e} |-> lookups[f]]

(* emitScoped: the managers and the owner.                                 *)
Emit(e, to) ==
  /\ heard' = [u \in Users |-> IF u = to \/ u \in Managers THEN Append(heard[u], e) ELSE heard[u]]
  /\ lookups' = Without(e)

(* emitForSession, emitForLead.                                            *)
Raise(e) ==
  /\ e \notin Pending
  /\ \/ e \in Events /\ e = sent + 1 /\ sent' = e
     \/ e = Lead /\ UNCHANGED sent /\ \A u \in Users : \A i \in DOMAIN heard[u] : heard[u][i] /= Lead
  /\ lookups' = [f \in Pending \union {e} |-> IF f = e THEN Waiting ELSE lookups[f]]
  /\ UNCHANGED <<owner, owned, cache, heard, changing, changes, faults, clock>>

(* Mutant of Remembered: an owner who was found is remembered anew.        *)
RememberedAnew == [cache EXCEPT !.until = clock + Ttl]

(* A hit leaves the time as it is.                                         *)
Remembered == cache

(* ownerOf.                                                                *)
LookUp(e) ==
  /\ e \in Pending /\ lookups[e] = Waiting /\ Turn(e)
  /\ IF Fresh THEN Emit(e, cache.owner) /\ cache' = Remembered
     ELSE /\ lookups' = [lookups EXCEPT ![e] = Reading]
          /\ UNCHANGED <<cache, heard>>
  /\ UNCHANGED <<owner, owned, sent, changing, changes, faults, clock>>

Read(e) ==
  /\ e \in Pending /\ lookups[e] = Reading
  /\ lookups' = [lookups EXCEPT ![e] = owner]
  /\ UNCHANGED <<owner, owned, cache, sent, heard, changing, changes, faults, clock>>

(* A number that is not there is not remembered.                           *)
Answered(e) ==
  /\ e \in Pending /\ lookups[e] \in Rows
  /\ cache' = IF lookups[e] = NoRow THEN cache ELSE [owner |-> lookups[e], until |-> clock + Ttl]
  /\ Emit(e, lookups[e])
  /\ UNCHANGED <<owner, owned, sent, changing, changes, faults, clock>>

LookUpFails(e) ==
  /\ e \in Pending /\ lookups[e] = Reading /\ faults < MaxFaults
  /\ lookups' = Without(e)
  /\ faults' = faults + 1
  /\ UNCHANGED <<owner, owned, cache, sent, heard, changing, changes, clock>>

(* sessionRoutes: the owner is written, then the cache is told.            *)
ChangeOwner ==
  /\ ~changing /\ changes < MaxChanges
  /\ \E u \in Users \ {owner} :
       owner' = u /\ owned' = [owned EXCEPT ![u] = clock]
  /\ changing' = TRUE
  /\ changes' = changes + 1
  /\ UNCHANGED <<cache, lookups, sent, heard, faults, clock>>

ForgetSessionOwner ==
  /\ changing
  /\ cache' = Forgotten
  /\ changing' = FALSE
  /\ UNCHANGED <<owner, owned, lookups, sent, heard, changes, faults, clock>>

(* A lookup is short beside the time an owner is remembered.               *)
Tick ==
  /\ clock < MaxTime /\ \A e \in Pending : lookups[e] = Waiting
  /\ clock' = clock + 1
  /\ owned' = [u \in Users |-> IF u = owner THEN clock + 1 ELSE owned[u]]
  /\ UNCHANGED <<owner, cache, lookups, sent, heard, changing, changes, faults>>

Next ==
  \/ ChangeOwner \/ ForgetSessionOwner \/ Tick
  \/ \E e \in Events \union {Lead} :
       Raise(e) \/ LookUp(e) \/ Read(e) \/ Answered(e) \/ LookUpFails(e)

Spec == Init /\ [][Next]_vars

-----------------------------------------------------------------------------
TypeOK ==
  /\ owner \in Rows /\ cache.owner \in Users \union {NoOne} /\ cache.until \in Nat
  /\ \A e \in Pending : lookups[e] \in Rows \union {Waiting, Reading}
  /\ sent \in 0..MaxEvents

(* Nobody hears a number's events in another order than they were raised   *)
(* in, whatever each lookup takes and whichever of them fail.              *)
HeardInOrder ==
  \A u \in Users : \A i, j \in DOMAIN heard[u] :
    i < j /\ heard[u][i] /= Lead /\ heard[u][j] /= Lead => heard[u][i] < heard[u][j]

(* A former owner is told nothing once the time an owner is remembered is  *)
(* over, however busy the number is.                                       *)
FormerOwnerIsLeftOut ==
  [][\A u \in Users \ Managers :
       heard'[u] /= heard[u] => owned[u] > 0 /\ clock - owned[u] <= Ttl]_vars
=============================================================================
