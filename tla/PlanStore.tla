----------------------------- MODULE PlanStore -----------------------------
(* What admins may change of the plans while the bot runs                    *)
(* (services/planstore.py, services/limits.py and their handlers): a row for *)
(* every plan that differs from its default, one for the prices of credits,  *)
(* and each user's own limits.  The plans and the prices are also kept in    *)
(* memory, from which everything else reads them.  Every change reads, lets  *)
(* other coroutines run, and writes a whole row.                             *)
EXTENDS Naturals, FiniteSets

CONSTANTS
    Admins,    \* coroutines of the admins' buttons and answers
    PlanRows,  \* plan_overrides by code, read all together
    CreditRow,    \* the one row of credit prices
    People,    \* users with limits of their own
    Features,  \* those of a plan, kept under one key of its row
    MaxChanges \* bound: changes begun

\* Three tables: a row of one is no row of another.
ASSUME StoreAssumption == /\ PlanRows \cap People = {} /\ CreditRow \notin PlanRows \cup People
                          /\ MaxChanges \in Nat

VARIABLES
    saved,     \* the rows: for every field (a kind of credit, in the row of prices)
               \* the value, 0 where it is the default
    shown,     \* plans.PLANS and plans.CREDIT_UNITS
    edit,      \* what every coroutine is doing
    wanted,    \* ghost: each field as the last change of it has stored it
    torn,      \* ghost: rows stored over a change that had not been read
    stale,     \* ghost: a rebuild used rows that had changed since it read them
    changes

store == <<saved, shown, edit, wanted, torn, stale, changes>>

Rows == PlanRows \cup {CreditRow} \cup People
InMemory == PlanRows \cup {CreditRow}
Fields == {"price"} \cup Features

\* The rows read by one query with this one.
Together(r) == IF r \in PlanRows THEN PlanRows ELSE {r}

NoEdit == [at |-> "rest"]

StoreInit ==
    /\ saved = [r \in Rows |-> [f \in Fields |-> 0]]
    /\ shown = [r \in InMemory |-> [f \in Fields |-> 0]]
    /\ edit = [a \in Admins |-> NoEdit]
    /\ wanted = saved
    /\ torn = {} /\ stale = {}
    /\ changes = 0

OpenEdit(a, what) ==
    /\ edit[a] = NoEdit /\ changes < MaxChanges
    /\ changes' = changes + 1
    /\ edit' = [edit EXCEPT ![a] = what]

\* set_field, set_credit_unit, set_value and set_feature of a user, or clear with
\* the value that means the default: one field gets a value.
SetValue(a) ==
    /\ \E r \in Rows, f \in Fields, v \in 0 .. 1 :
           /\ r \in PlanRows => f = "price"
           /\ OpenEdit(a, [at |-> "read", row |-> r, new |-> [g \in {f} |-> v], blind |-> FALSE])
    /\ UNCHANGED <<saved, shown, wanted, torn, stale>>

\* toggle_feature: which features the plan has is read from memory, and all of them
\* are what will be stored.  blind is a ghost: memory does not show the row.
ToggleFeature(a) ==
    /\ \E r \in PlanRows, f \in Features :
           OpenEdit(a, [at |-> "read", row |-> r, blind |-> shown[r] # saved[r],
                      new |-> [g \in Features |-> IF g = f THEN 1 - shown[r][g]
                                                  ELSE shown[r][g]]])
    /\ UNCHANGED <<saved, shown, wanted, torn, stale>>

\* reset, and clear_all of a user: the row goes at once; memory follows later.
Reset(a) ==
    /\ \E r \in PlanRows \cup People :
           LET none == [f \in Fields |-> 0]
           IN  /\ OpenEdit(a, IF r \in People THEN NoEdit ELSE [at |-> "reread", row |-> r])
               /\ saved' = [saved EXCEPT ![r] = none]
               /\ wanted' = [wanted EXCEPT ![r] = none]
               /\ torn' = torn \ {r}
    /\ UNCHANGED <<shown, stale>>

TurnsTo(a, what) == edit' = [edit EXCEPT ![a] = what] /\ UNCHANGED changes

\* clear finds nothing to clear.
Cleared(a) ==
    /\ edit[a].row \in People
    /\ \A f \in DOMAIN edit[a].new : edit[a].new[f] = 0 /\ saved[edit[a].row][f] = 0

\* _read_overrides, _read_setting and limits.get.
Read(a) ==
    /\ edit[a].at = "read"
    /\ TurnsTo(a, IF Cleared(a) THEN NoEdit
                  ELSE [at |-> "write", row |-> edit[a].row, new |-> edit[a].new,
                        blind |-> edit[a].blind,
                        rows |-> [r \in Together(edit[a].row) |-> saved[r]]])
    /\ UNCHANGED <<saved, shown, wanted, torn, stale>>

\* A row of the new values alone.
OnlyNew(old, new) == [f \in Fields |-> IF f \in DOMAIN new THEN new[f] ELSE 0]

\* The row as it was read, with the new values.
Changed(old, new) == [f \in Fields |-> IF f \in DOMAIN new THEN new[f] ELSE old[f]]

\* _store, set_credit_unit's own session and limits._write: the whole row.
Write(a) ==
    /\ edit[a].at = "write"
    /\ LET r == edit[a].row
           row == Changed(edit[a].rows[r], edit[a].new)
       IN  /\ saved' = [saved EXCEPT ![r] = row]
           /\ wanted' = [wanted EXCEPT ![r] = [f \in Fields |->
                            IF f \in DOMAIN edit[a].new THEN edit[a].new[f] ELSE @[f]]]
           /\ torn' = IF edit[a].blind \/ saved[r] # edit[a].rows[r] THEN torn \cup {r} ELSE torn
           /\ TurnsTo(a, IF r \in People THEN NoEdit
                      ELSE [at |-> "rebuild", row |-> r,
                            rows |-> [edit[a].rows EXCEPT ![r] = row]])
    /\ UNCHANGED <<shown, stale>>

\* reset reads the rows again after its deletion.
Reread(a) ==
    /\ edit[a].at = "reread"
    /\ TurnsTo(a, [at |-> "rebuild", row |-> edit[a].row,
                rows |-> [r \in Together(edit[a].row) |-> saved[r]]])
    /\ UNCHANGED <<saved, shown, wanted, torn, stale>>

\* _rebuild and _apply_credit_units: memory becomes what was read, with the own row
\* as it was stored.
Rebuild(a) ==
    /\ edit[a].at = "rebuild"
    /\ LET rows == edit[a].rows
       IN  /\ shown' = [r \in InMemory |-> IF r \in DOMAIN rows THEN rows[r] ELSE shown[r]]
           /\ stale' = (stale \ DOMAIN rows)
                       \cup {r \in DOMAIN edit[a].rows : edit[a].rows[r] # saved[r]}
    /\ TurnsTo(a, NoEdit)
    /\ UNCHANGED <<saved, wanted, torn>>

\* The process ends and starts again: load() reads the rows, nothing is in flight.
Restart ==
    /\ \E a \in Admins : edit[a] # NoEdit
    /\ edit' = [a \in Admins |-> NoEdit]
    /\ shown' = [r \in InMemory |-> saved[r]]
    /\ stale' = {}
    /\ UNCHANGED <<saved, wanted, torn, changes>>

StoreNext ==
    \/ \E a \in Admins :
          SetValue(a) \/ ToggleFeature(a) \/ Reset(a) \/ Read(a) \/ Write(a)
          \/ Reread(a) \/ Rebuild(a)
    \/ Restart

StoreSpec == StoreInit /\ [][StoreNext]_store

----------------------------------------------------------------------------
\* The types of the variables.
StoreTypeOK ==
    /\ saved \in [Rows -> [Fields -> 0 .. 1]] /\ shown \in [InMemory -> [Fields -> 0 .. 1]]
    /\ wanted \in [Rows -> [Fields -> 0 .. 1]]
    /\ torn \subseteq Rows /\ stale \subseteq InMemory
    /\ changes \in 0 .. MaxChanges

\* Between a write and its rebuild, or a deletion and its, memory is behind.
Behindhand(r) == \E a \in Admins : edit[a].at \in {"reread", "rebuild"} /\ edit[a].row = r

\* The plans and prices everyone reads are those of the rows, as soon as the changes of
\* a row have ended; only a rebuild from rows that another change had overtaken leaves
\* them behind, and the next rebuild or a restart makes that good.
PlansFollow ==
    \A r \in InMemory : shown[r] = saved[r] \/ r \in stale \/ Behindhand(r)

\* A value that was stored stays until the same field is changed: a change of another
\* field of the row takes it back only when it was stored between the other's reading
\* and writing, or when a toggle took the features from a memory that was behind.
ChangeKept == \A r \in Rows : r \in torn \/ saved[r] = wanted[r]

\* Both: every change arrives in the rows, and the rows in memory.
PlansTrue == PlansFollow /\ ChangeKept
=============================================================================
