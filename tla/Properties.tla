----------------------------- MODULE Properties -----------------------------
(***************************************************************************)
(* A company's listing (real-estate/properties).  A request reads the row, *)
(* checks and changes what it read, and writes the whole row back; several *)
(* people may be at it.  Of the details only those matter which a listing  *)
(* needs before it can be offered: they are there or not.                  *)
(***************************************************************************)
EXTENDS Naturals, FiniteSets

CONSTANTS
  People,
  Managers,   \* owners and administrators
  Agent,      \* the listing agent
  Fields,     \* what readyToList asks for
  MaxEdits    \* bound

VARIABLES
  row,     \* the listing: status, the fields filled in, viewings on record; status "gone" when deleted
  checks,  \* times somebody was recorded as having found it available (last_verified_at)
  doing,   \* what each person's request has read and asks for
  edits

vars == <<row, checks, doing, edits>>

Statuses == {"draft", "available", "reserved", "sold", "rented", "withdrawn"}
Offered == {"available", "reserved"}
Nothing == [asks |-> "nothing", saw |-> "gone", fields |-> {}, status |-> "gone"]

Init ==
  /\ row = [status |-> "draft", fields |-> {}, viewings |-> 0]
  /\ checks = 0
  /\ doing = [p \in People |-> Nothing]
  /\ edits = 0

-----------------------------------------------------------------------------
MayEdit(p) == p \in Managers \union {Agent}
ReadyToList(fields) == fields = Fields

(* updateProperty, verifyProperty, deleteProperty: the row is read first.  *)
(* What a request leaves out keeps the value that was read.                *)
Reads(p) ==
  /\ doing[p].asks = "nothing" /\ row.status /= "gone" /\ edits < MaxEdits
  /\ MayEdit(p) /\ edits' = edits + 1
  /\ \/ \E fields \in SUBSET Fields, status \in Statuses :
          doing' = [doing EXCEPT ![p] =
                      [asks |-> "write", saw |-> row.status, fields |-> fields, status |-> status]]
     \/ /\ row.status \in Offered
        /\ doing' = [doing EXCEPT ![p] = [Nothing EXCEPT !.asks = "verify", !.saw = row.status]]
     \/ /\ p \in Managers /\ row.viewings = 0
        /\ doing' = [doing EXCEPT ![p] = [Nothing EXCEPT !.asks = "delete", !.saw = row.status]]
  /\ UNCHANGED <<row, checks>>

(* Mutant of Written: a request writes only what it changes.               *)
WrittenChanges(d) ==
  [row EXCEPT !.status = IF d.status = d.saw THEN row.status ELSE d.status, !.fields = d.fields]

(* writeProperty writes every column, as read or as asked.                 *)
Written(d) == [row EXCEPT !.status = d.status, !.fields = d.fields]

Writes(p) ==
  LET d == doing[p] IN
  /\ d.asks = "write"
  /\ doing' = [doing EXCEPT ![p] = Nothing]
  /\ IF row.status = "gone" \/ (d.status \in Offered /\ ~ReadyToList(d.fields)) THEN UNCHANGED <<row, checks>>
     ELSE /\ row' = Written(d)
          /\ checks' = IF d.status = "available" /\ d.saw /= "available" THEN checks + 1 ELSE checks
  /\ UNCHANGED edits

Verifies(p) ==
  /\ doing[p].asks = "verify"
  /\ doing' = [doing EXCEPT ![p] = Nothing]
  /\ checks' = IF row.status = "gone" THEN checks ELSE checks + 1
  /\ UNCHANGED <<row, edits>>

(* Viewings go with the row, one that was booked since the count too.      *)
Deletes(p) ==
  /\ doing[p].asks = "delete"
  /\ doing' = [doing EXCEPT ![p] = Nothing]
  /\ row' = [row EXCEPT !.status = "gone", !.viewings = 0]
  /\ UNCHANGED <<checks, edits>>

(* Viewings are booked on what is offered (viewings.js).                   *)
Booked ==
  /\ row.status \in Offered /\ row.viewings = 0
  /\ row' = [row EXCEPT !.viewings = 1]
  /\ UNCHANGED <<checks, doing, edits>>

Next == Booked \/ \E p \in People : Reads(p) \/ Writes(p) \/ Verifies(p) \/ Deletes(p)

Spec == Init /\ [][Next]_vars

-----------------------------------------------------------------------------
TypeOK ==
  /\ row.status \in Statuses \union {"gone"} /\ row.fields \subseteq Fields
  /\ row.viewings \in 0..1 /\ checks \in Nat
  /\ \A p \in People : doing[p].asks \in {"nothing", "write", "verify", "delete"}

(* A listing is offered only with everything that must be recorded before  *)
(* it can be, whoever else was editing it: a request checks and writes the *)
(* same whole row.                                                         *)
OfferedIsReady == row.status \in Offered => ReadyToList(row.fields)

(* Marking a property available is the moment a person says it is, and the *)
(* check is recorded (properties.js:230).                                  *)
AvailableIsChecked ==
  [][row.status \notin {"available", "gone"} /\ row'.status = "available" => checks' = checks + 1]_vars
=============================================================================
