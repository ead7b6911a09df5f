------------------------------ MODULE Migrate -------------------------------
(***************************************************************************)
(* Database migrations (db/migrate), run by every process that starts.     *)
(* Deploys may overlap, and the release of one may know more migrations    *)
(* than that of another.  An advisory lock belongs to the connection, so   *)
(* it goes with a process that stops.                                      *)
(***************************************************************************)
EXTENDS Naturals, Sequences

CONSTANTS
  Runs,
  Known,      \* how many migrations the release of each run knows
  NoRun,
  MaxStops    \* bound on timeouts and stops

VARIABLES
  at,       \* where each run is
  holder,   \* the advisory lock
  applied,  \* the versions a run read in schema_migrations
  next,     \* the migration a run looks at
  recorded, \* schema_migrations
  schema,   \* ghost: what was done to the schema, in order
  stops

vars == <<at, holder, applied, next, recorded, schema, stops>>

Init ==
  /\ at = [r \in Runs |-> "waiting"]
  /\ holder = NoRun
  /\ applied = [r \in Runs |-> {}]
  /\ next = [r \in Runs |-> 1]
  /\ recorded = {}
  /\ schema = <<>>
  /\ stops = 0

-----------------------------------------------------------------------------
(* Mutant of Free: nobody waits for the lock.                              *)
FreeAlways == TRUE

(* pg_advisory_lock.                                                       *)
Free == holder = NoRun

Lock(r) ==
  /\ at[r] = "waiting" /\ Free
  /\ holder' = r
  /\ at' = [at EXCEPT ![r] = "locked"]
  /\ UNCHANGED <<applied, next, recorded, schema, stops>>

LockTimesOut(r) ==
  /\ at[r] = "waiting" /\ ~Free /\ stops < MaxStops
  /\ at' = [at EXCEPT ![r] = "failed"]
  /\ stops' = stops + 1
  /\ UNCHANGED <<holder, applied, next, recorded, schema>>

ReadApplied(r) ==
  /\ at[r] = "locked"
  /\ applied' = [applied EXCEPT ![r] = recorded]
  /\ at' = [at EXCEPT ![r] = "running"]
  /\ UNCHANGED <<holder, next, recorded, schema, stops>>

Skip(r) ==
  /\ at[r] = "running" /\ next[r] <= Known[r] /\ next[r] \in applied[r]
  /\ next' = [next EXCEPT ![r] = @ + 1]
  /\ UNCHANGED <<at, holder, applied, recorded, schema, stops>>

(* One transaction: what the migration does and its version, of which      *)
(* there can be only one row.                                              *)
Apply(r) ==
  /\ at[r] = "running" /\ next[r] <= Known[r] /\ next[r] \notin applied[r]
  /\ IF next[r] \in recorded
     THEN at' = [at EXCEPT ![r] = "collided"] /\ UNCHANGED <<next, recorded, schema>>
     ELSE /\ recorded' = recorded \union {next[r]}
          /\ schema' = Append(schema, next[r])
          /\ next' = [next EXCEPT ![r] = @ + 1]
          /\ UNCHANGED at
  /\ UNCHANGED <<holder, applied, stops>>

(* A table stays locked too long, or the migration is wrong: it is rolled  *)
(* back and the run ends.                                                  *)
RolledBack(r) ==
  /\ at[r] = "running" /\ next[r] <= Known[r] /\ next[r] \notin applied[r] /\ stops < MaxStops
  /\ at' = [at EXCEPT ![r] = "failed"]
  /\ holder' = NoRun
  /\ stops' = stops + 1
  /\ UNCHANGED <<applied, next, recorded, schema>>

Unlock(r) ==
  /\ \/ at[r] = "running" /\ next[r] > Known[r] /\ at' = [at EXCEPT ![r] = "done"]
     \/ at[r] = "collided" /\ at' = [at EXCEPT ![r] = "failed"]
  /\ holder' = NoRun
  /\ UNCHANGED <<applied, next, recorded, schema, stops>>

(* The process stops, the connection and its transaction with it.          *)
Stop(r) ==
  /\ at[r] \in {"locked", "running"} /\ stops < MaxStops
  /\ at' = [at EXCEPT ![r] = "failed"]
  /\ holder' = NoRun
  /\ stops' = stops + 1
  /\ UNCHANGED <<applied, next, recorded, schema>>

(* The deploy is tried again.                                              *)
Again(r) ==
  /\ at[r] = "failed"
  /\ at' = [at EXCEPT ![r] = "waiting"]
  /\ applied' = [applied EXCEPT ![r] = {}]
  /\ next' = [next EXCEPT ![r] = 1]
  /\ UNCHANGED <<holder, recorded, schema, stops>>

Next ==
  \E r \in Runs :
    \/ Lock(r) \/ LockTimesOut(r) \/ ReadApplied(r) \/ Skip(r) \/ Apply(r)
    \/ RolledBack(r) \/ Unlock(r) \/ Stop(r) \/ Again(r)

Spec == Init /\ [][Next]_vars

-----------------------------------------------------------------------------
States == {"waiting", "locked", "running", "collided", "failed", "done"}

TypeOK ==
  /\ \A r \in Runs : at[r] \in States /\ next[r] \in 1..Known[r] + 1
  /\ holder \in Runs \union {NoRun}

(* The schema is always what the first migrations make it, each of them    *)
(* once and in order, and a run never finds a migration applied that it    *)
(* meant to apply: so a deploy fails for a stuck lock, never for another.  *)
InStep ==
  /\ \A i \in DOMAIN schema : schema[i] = i
  /\ recorded = DOMAIN schema
  /\ \A r \in Runs : at[r] /= "collided"
=============================================================================
