------------------------------- MODULE Labels -------------------------------
(***************************************************************************)
(* Labels of contacts and the copy of their names in contacts.tags         *)
(* (labelService).  Every change is a transaction that ends by writing the *)
(* copy anew (resyncTags).  The database runs at READ COMMITTED: the copy  *)
(* is computed when the statement starts, and a statement that has to wait *)
(* for the contact's row writes what it had computed.                      *)
(***************************************************************************)
EXTENDS Naturals, FiniteSets

CONSTANTS
  Writers,   \* transactions that may be open at once
  Contacts,
  Labels,    \* ids of labels
  Names,     \* names a label may have
  Absent,    \* the name of a label that does not exist
  MaxChanges \* bound: changes made

VARIABLES
  name,      \* labels: the committed name of each id
  links,     \* contact_labels
  tags,      \* contacts.tags
  tx,        \* each writer's transaction
  alone,     \* history: the copy was last written by a change that had the contact to itself
  changes

vars == <<name, links, tags, tx, alone, changes>>

NoTx == [pc |-> "idle", adds |-> {}, cuts |-> {}, named |-> {}, who |-> {}, locks |-> {},
         seen |-> [c \in Contacts |-> {}], alone |-> TRUE]

Init ==
  /\ name = [l \in Labels |-> Absent] /\ links = {}
  /\ tags = [c \in Contacts |-> {}] /\ tx = [w \in Writers |-> NoTx]
  /\ alone = [c \in Contacts |-> TRUE] /\ changes = 0

-----------------------------------------------------------------------------
(* What a transaction sees: the committed rows and its own.                *)
NameIn(t, l) == IF \E n \in Names \union {Absent} : <<l, n>> \in t.named
                THEN CHOOSE n \in Names \union {Absent} : <<l, n>> \in t.named
                ELSE name[l]
LinksIn(t) == (links \union t.adds) \ t.cuts
CopyIn(t, c) == {NameIn(t, k[2]) : k \in {k \in LinksIn(t) : k[1] = c}}

Others(w) == {tx[v] : v \in {v \in Writers \ {w} : tx[v].pc /= "idle"}}

(* Mutant of LabelHeld: no foreign key makes a new link wait.              *)
LabelHeldNever(w, l) == FALSE

(* The rows others hold.  A new link keeps its label and its contact from  *)
(* being locked FOR UPDATE, and waits for whoever holds them so.           *)
LabelHeld(w, l) == \E t \in Others(w) : \E n \in Names \union {Absent} : <<l, n>> \in t.named
LabelLinked(w, l) == \E t \in Others(w) : \E c \in Contacts : <<c, l>> \in t.adds
ContactHeld(w, c) == \E t \in Others(w) : c \in t.locks
ContactLinked(w, c) == \E t \in Others(w) : \E l \in Labels : <<c, l>> \in t.adds
RowFree(w, c) == \A t \in Others(w) : ~(t.pc = "commit" /\ c \in t.who) /\ c \notin t.locks
NameFree(w, n) ==
  /\ \A l \in Labels : name[l] /= n
  /\ \A t \in Others(w) : \A l \in Labels : <<l, n>> \notin t.named

(* A transaction that shares a contact with another has it not alone.      *)
Open(w, t) ==
  LET shares == {v \in Writers \ {w} : tx[v].pc /= "idle" /\ tx[v].who \intersect t.who /= {}}
  IN  /\ tx[w].pc = "idle" /\ changes < MaxChanges /\ changes' = changes + 1
      /\ tx' = [v \in Writers |->
                  CASE v = w       -> [t EXCEPT !.pc = "resync", !.alone = (shares = {})]
                    [] v \in shares -> [tx[v] EXCEPT !.alone = FALSE]
                    [] OTHER       -> tx[v]]
      /\ UNCHANGED <<name, links, tags, alone>>

(* findOrCreate and addContactTag, or applyLabels: one more label.         *)
AddTag(w, c, n) ==
  \E l \in Labels :
    /\ ~LabelHeld(w, l) /\ ~ContactHeld(w, c)
    /\ \/ name[l] = n /\ Open(w, [NoTx EXCEPT !.adds = {<<c, l>>}, !.who = {c}])
       \/ /\ name[l] = Absent /\ NameFree(w, n)
          /\ Open(w, [NoTx EXCEPT !.adds = {<<c, l>>}, !.who = {c}, !.named = {<<l, n>>}])

(* applyLabels: one less.                                                  *)
RemoveLabel(w, c, l) ==
  /\ <<c, l>> \in links
  /\ Open(w, [NoTx EXCEPT !.cuts = {<<c, l>>}, !.who = {c}])

(* PATCH of a contact locks it first: it has exactly these labels.         *)
SetLabels(w, c, ls) ==
  /\ ~ContactLinked(w, c) /\ RowFree(w, c)
  /\ \A l \in ls : name[l] /= Absent /\ ~LabelHeld(w, l)
  /\ Open(w, [NoTx EXCEPT !.adds = {<<c, l>> : l \in ls}, !.cuts = {<<c, l>> : l \in Labels \ ls},
                          !.who = {c}, !.locks = {c}])

(* Mutant of Bearers: only the label changes.                              *)
BearersNone(l) == {}

(* The contacts whose copy a change of a label concerns.                   *)
Bearers(l) == {c \in Contacts : <<c, l>> \in links}

UpdateLabel(w, l, n) ==
  /\ name[l] /= Absent /\ ~LabelHeld(w, l) /\ ~LabelLinked(w, l) /\ NameFree(w, n)
  /\ Open(w, [NoTx EXCEPT !.named = {<<l, n>>}, !.who = Bearers(l)])

DeleteLabel(w, l) ==
  /\ name[l] /= Absent /\ ~LabelHeld(w, l) /\ ~LabelLinked(w, l)
  /\ Open(w, [NoTx EXCEPT !.named = {<<l, Absent>>}, !.cuts = {<<c, l>> : c \in Contacts},
                          !.who = Bearers(l)])

-----------------------------------------------------------------------------
(* resyncTags starts: the copy is computed, the rows may have to be waited *)
(* for.                                                                    *)
Resync(w) ==
  LET t == tx[w] IN
  /\ t.pc = "resync"
  /\ tx' = [tx EXCEPT ![w].seen = [c \in Contacts |-> IF c \in t.who THEN CopyIn(t, c) ELSE {}],
                      ![w].pc = IF \A c \in t.who : RowFree(w, c) THEN "commit" ELSE "wait"]
  /\ UNCHANGED <<name, links, tags, alone, changes>>

Waited(w) ==
  /\ tx[w].pc = "wait" /\ \A c \in tx[w].who : RowFree(w, c)
  /\ tx' = [tx EXCEPT ![w].pc = "commit"]
  /\ UNCHANGED <<name, links, tags, alone, changes>>

Commit(w) ==
  LET t == tx[w] IN
  /\ t.pc = "commit"
  /\ name' = [l \in Labels |-> NameIn(t, l)]
  /\ links' = LinksIn(t)
  /\ tags' = [c \in Contacts |-> IF c \in t.who THEN t.seen[c] ELSE tags[c]]
  /\ alone' = [c \in Contacts |-> IF c \in t.who THEN t.alone ELSE alone[c]]
  /\ tx' = [tx EXCEPT ![w] = NoTx]
  /\ UNCHANGED changes

Next ==
  \E w \in Writers :
    \/ \E c \in Contacts :
         \/ \E n \in Names : AddTag(w, c, n)
         \/ \E l \in Labels : RemoveLabel(w, c, l)
         \/ \E ls \in SUBSET Labels : SetLabels(w, c, ls)
    \/ \E l \in Labels : DeleteLabel(w, l) \/ \E n \in Names : UpdateLabel(w, l, n)
    \/ Resync(w) \/ Waited(w) \/ Commit(w)

Spec == Init /\ [][Next]_vars

-----------------------------------------------------------------------------
TypeOK ==
  /\ name \in [Labels -> Names \union {Absent}]
  /\ links \subseteq Contacts \X Labels
  /\ \A k \in links : name[k[2]] /= Absent
  /\ tags \in [Contacts -> SUBSET Names]
  /\ \A w \in Writers : tx[w].pc \in {"idle", "resync", "wait", "commit"}

Untouched(c) == \A w \in Writers : tx[w].pc /= "idle" => c \notin tx[w].who
Copied(c) == tags[c] = {name[k[2]] : k \in {k \in links : k[1] = c}}

(* contacts.tags is the contact's labels by name once a change that had    *)
(* the contact to itself is done: it repairs whatever went wrong before.   *)
TagsFollow == \A c \in Contacts : alone[c] /\ Untouched(c) => Copied(c)

(* Two labels of a company never have one name (idx_labels_tenant_name).   *)
OneName == \A l, m \in Labels : l /= m /\ name[l] = name[m] => name[l] = Absent

(* tags stays a copy of the label names (labelService.js:5).               *)
TagsAreLabels == \A c \in Contacts : Untouched(c) => Copied(c)
=============================================================================
