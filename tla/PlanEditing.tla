---------------------------- MODULE PlanEditing -----------------------------
(***************************************************************************)
(* The plans (plans) and the billing settings (billingSettings).  Every    *)
(* server works from a copy in memory, reads the database again from time  *)
(* to time, and writes a change as the whole of what it had in memory with *)
(* the change in it.  A company holds its plan by name.                    *)
(***************************************************************************)
EXTENDS Naturals, FiniteSets

CONSTANTS
  Servers,
  Codes,       \* of the plans that can be edited
  Names,       \* of plans; a plan starts with its code for a name
  Prices,
  Fields, Values,                \* of the billing settings
  Companies,
  Nothing,
  MaxEdits, MaxBuys, MaxFaults   \* bounds

VARIABLES
  plans,      \* the tables: name and price of each plan
  known,      \* plans in the memory of each server
  loading,    \* the rows a server has read; the prices follow
  editing,    \* what each server is about to write
  settings,   \* the billing settings in the database
  current,    \* the billing settings in the memory of each server
  saving,     \* the settings a server writes, and whether they are written
  plan,       \* tenants.plan
  bought,     \* ghost: the plan each company paid for
  edits, faults

planVars == <<plans, known, loading, editing>>
settingVars == <<settings, current, saving>>
companyVars == <<plan, bought>>
vars == <<planVars, settingVars, companyVars, edits, faults>>

Init ==
  /\ \E price \in Prices : plans = [p \in Codes |-> [name |-> p, price |-> price]]
  /\ known = [s \in Servers |-> plans]
  /\ loading = [s \in Servers |-> Nothing]
  /\ editing = [s \in Servers |-> Nothing]
  /\ \E v \in Values : settings = [f \in Fields |-> v]
  /\ current = [s \in Servers |-> settings]
  /\ saving = [s \in Servers |-> Nothing]
  /\ plan = [c \in Companies |-> Nothing]
  /\ bought = [c \in Companies |-> Nothing]
  /\ edits = 0 /\ faults = 0

-----------------------------------------------------------------------------
(* findPlan, planOf: a name that no plan has any more is the original plan *)
(* with everything in it.                                                  *)
PlanOf(s, name) ==
  IF name \in Codes THEN name
  ELSE IF \E p \in Codes : known[s][p].name = name
       THEN CHOOSE p \in Codes : known[s][p].name = name
       ELSE Nothing

(* updatePlan: the change is checked against what is in memory, and added  *)
(* to it.                                                                  *)
Free(s, p, name) == \A q \in Codes \ {p} : known[s][q].name /= name /\ q /= name

EditPlan(s) ==
  /\ editing[s] = Nothing /\ edits < MaxEdits
  /\ \E p \in Codes :
       \/ \E name \in Names \ {known[s][p].name} :
            /\ Free(s, p, name)
            /\ editing' = [editing EXCEPT ![s] = [code |-> p, row |-> [known[s][p] EXCEPT !.name = name], priced |-> FALSE]]
       \/ \E price \in Prices \ {known[s][p].price} :
            editing' = [editing EXCEPT ![s] = [code |-> p, row |-> [known[s][p] EXCEPT !.price = price], priced |-> TRUE]]
  /\ edits' = edits + 1
  /\ UNCHANGED <<plans, known, loading, settingVars, companyVars, faults>>

(* One transaction: every column, and the prices if they were mentioned.   *)
(* The server then reads the plans again.                                  *)
Written(e) ==
  [plans EXCEPT ![e.code].name = e.row.name, ![e.code].price = IF e.priced THEN e.row.price ELSE @]

WritePlan(s) ==
  /\ editing[s] /= Nothing /\ loading[s] = Nothing
  /\ plans' = Written(editing[s])
  /\ editing' = [editing EXCEPT ![s] = Nothing]
  /\ loading' = [loading EXCEPT ![s] = plans']
  /\ UNCHANGED <<known, settingVars, companyVars, edits, faults>>

(* loadPlans, by the timer: two queries at once.                           *)
LoadRows(s) ==
  /\ loading[s] = Nothing /\ known[s] /= plans
  /\ loading' = [loading EXCEPT ![s] = plans]
  /\ UNCHANGED <<plans, known, editing, settingVars, companyVars, edits, faults>>

(* Mutant of Read: the prices of the plans that are known are kept.        *)
ReadNames(s) == [p \in Codes |-> [name |-> loading[s][p].name, price |-> known[s][p].price]]

(* The prices are read by themselves, a little later than the rows.        *)
Read(s) == [p \in Codes |-> [name |-> loading[s][p].name, price |-> plans[p].price]]

LoadPrices(s) ==
  /\ loading[s] /= Nothing
  /\ known' = [known EXCEPT ![s] = Read(s)]
  /\ loading' = [loading EXCEPT ![s] = Nothing]
  /\ UNCHANGED <<plans, editing, settingVars, companyVars, edits, faults>>

(* A failure keeps what is in memory.                                      *)
LoadFails(s) ==
  /\ loading[s] /= Nothing /\ faults < MaxFaults
  /\ loading' = [loading EXCEPT ![s] = Nothing]
  /\ faults' = faults + 1
  /\ UNCHANGED <<plans, known, editing, settingVars, companyVars, edits>>

(* A payment, by hand or by the gateway, puts the company on the plan      *)
(* under its name in the server's memory (recordPayment).                  *)
Buy(s, c) ==
  /\ Cardinality({d \in Companies : bought[d] /= Nothing}) < MaxBuys
  /\ \E p \in Codes :
       /\ bought' = [bought EXCEPT ![c] = p]
       /\ plan' = [plan EXCEPT ![c] = known[s][p].name]
  /\ UNCHANGED <<planVars, settingVars, edits, faults>>

-----------------------------------------------------------------------------
(* saveBillingSettings: the whole of the settings in memory, with the      *)
(* change in it, is written; the server then takes what it wrote without   *)
(* reading it back.                                                        *)
EditSettings(s) ==
  /\ saving[s] = Nothing /\ edits < MaxEdits
  /\ \E f \in Fields : \E v \in Values \ {current[s][f]} :
       saving' = [saving EXCEPT ![s] = [value |-> [current[s] EXCEPT ![f] = v], written |-> FALSE]]
  /\ edits' = edits + 1
  /\ UNCHANGED <<planVars, settings, current, companyVars, faults>>

WriteSettings(s) ==
  /\ saving[s] /= Nothing /\ ~saving[s].written
  /\ settings' = saving[s].value
  /\ saving' = [saving EXCEPT ![s].written = TRUE]
  /\ UNCHANGED <<planVars, current, companyVars, edits, faults>>

TakeSettings(s) ==
  /\ saving[s] /= Nothing /\ saving[s].written
  /\ current' = [current EXCEPT ![s] = saving[s].value]
  /\ saving' = [saving EXCEPT ![s] = Nothing]
  /\ UNCHANGED <<planVars, settings, companyVars, edits, faults>>

LoadSettings(s) ==
  /\ current[s] /= settings
  /\ current' = [current EXCEPT ![s] = settings]
  /\ UNCHANGED <<planVars, settings, saving, companyVars, edits, faults>>

Reload(s) == LoadRows(s) \/ LoadPrices(s) \/ LoadSettings(s)
Finish(s) == WritePlan(s) \/ WriteSettings(s) \/ TakeSettings(s)

Next ==
  \E s \in Servers :
    \/ EditPlan(s) \/ EditSettings(s) \/ Finish(s) \/ Reload(s) \/ LoadFails(s)
    \/ \E c \in Companies : Buy(s, c)

(* The timers run every minute.  Nothing says an edit is ever written.     *)
Fairness ==
  \A s \in Servers : WF_vars(LoadRows(s)) /\ WF_vars(LoadPrices(s)) /\ WF_vars(LoadSettings(s))

Spec == Init /\ [][Next]_vars /\ Fairness

-----------------------------------------------------------------------------
Rows == [Codes -> [name : Names, price : Prices]]
Settings == [Fields -> Values]

(* The tables and the memories hold whole rows and whole settings.         *)
TypeOK ==
  /\ plans \in Rows /\ known \in [Servers -> Rows]
  /\ \A s \in Servers :
       /\ loading[s] = Nothing \/ loading[s] \in Rows
       /\ editing[s] = Nothing \/ editing[s] \in [code : Codes, row : [name : Names, price : Prices], priced : BOOLEAN]
       /\ saving[s] = Nothing \/ saving[s] \in [value : Settings, written : BOOLEAN]
  /\ settings \in Settings /\ current \in [Servers -> Settings]
  /\ plan \in [Companies -> Names \cup {Nothing}] /\ bought \in [Companies -> Codes \cup {Nothing}]

(* Every server ends up working with the plans and the settings that are   *)
(* stored, whatever order two administrators, the timers and the loads     *)
(* came in, and also when a load read the rows before a change and the     *)
(* prices after it (plans.js:54-57, 77-82; billingSettings.js:27-34).      *)
CachesCatchUp ==
  \A s \in Servers : <>[](known[s] = plans /\ current[s] = settings)

(* A company stays on the plan it paid for when the platform admin renames *)
(* plans (plans.js:87-88).  Not so: the name a company holds is the one    *)
(* that was current when it paid, and nothing renames it with the plan.    *)
PlanIsKept ==
  \A c \in Companies :
    (bought[c] /= Nothing /\ \A s \in Servers : known[s] = plans)
      => \A s \in Servers : PlanOf(s, plan[c]) = bought[c]
=============================================================================
