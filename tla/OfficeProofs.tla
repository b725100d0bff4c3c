----------------------------- MODULE OfficeProofs -----------------------------
(***************************************************************************)
(* Proofs about the components MCOffice runs side by side, for every value *)
(* of their constants; they share no state and no proof:                   *)
(*                                                                         *)
(*   PlansAreTrue   the table of plans in memory follows its rows;         *)
(*   HandRateStays  a rate set by hand is not overwritten by a round;      *)
(*   PaceHolds      a target and a task keep their pace, a customer his    *)
(*                  daily count;                                           *)
(*   TasksAreFit    tasks read and post what their answers said, nowhere   *)
(*                  twice, and pass the plan by no more than was open;     *)
(*   NoticesInTime  whoever has to be told of an end is told before it is  *)
(*                  too late, and once;                                    *)
(*   SentAsWhole    a post stands in its destination as a whole, or not    *)
(*                  at all, and whoever is done with it holds nothing.     *)
(*                                                                         *)
(* Each has its inductive invariant before it.  StoreInv and RateInv tell  *)
(* what a coroutine between read and write has read.  PaceInv places every *)
(* remembered stamp among the times of the sends, and CountInv ties the    *)
(* day's count to what was let in.  DeskInv tells what a coroutine may     *)
(* still believe of a task it has read, although the task's id may be      *)
(* another's by now; RoomInv counts, beside the rows, the coroutines that  *)
(* are about to write one.  RemindInv says by when the round that will     *)
(* send a notice that is due must begin.  SendInv says what a coroutine    *)
(* has in hand, and what stands in the chat, at each step of a try: it has *)
(* one lemma for each action.                                              *)
(***************************************************************************)
EXTENDS PlanStore, CoinRate, RateLimit, TaskDesk, Reminders, SendWays, SumLemmas

-----------------------------------------------------------------------------
\* The table of plans and credits (PlanStore).

Row == [Fields -> 0 .. 1]

\* What a coroutine has read or is about to store is of a row that exists.
EditOK(e) ==
    /\ e.at \in {"rest", "read", "write", "reread", "rebuild"}
    /\ e.at # "rest" => e.row \in Rows
    /\ e.at \in {"reread", "rebuild"} => e.row \in InMemory
    /\ e.at \in {"read", "write"} => /\ DOMAIN e.new \subseteq Fields
                                     /\ \A f \in DOMAIN e.new : e.new[f] \in 0 .. 1
    /\ e.at \in {"write", "rebuild"} => e.rows \in [Together(e.row) -> Row]

StoreInv ==
    /\ saved \in [Rows -> Row] /\ wanted \in [Rows -> Row] /\ shown \in [InMemory -> Row]
    /\ torn \subseteq Rows /\ stale \subseteq InMemory /\ changes \in 0 .. MaxChanges
    /\ edit = [a \in Admins |-> edit[a]] /\ \A a \in Admins : EditOK(edit[a])
    /\ PlansFollow /\ ChangeKept

\* A row is one of those that are read with it.
LEMMA ReadTogether ==
    ASSUME NEW r \in Rows
    PROVE  /\ r \in Together(r) /\ Together(r) \subseteq Rows
           /\ r \in InMemory => Together(r) \subseteq InMemory
BY DEF Together, Rows, InMemory

\* One coroutine goes on: the others are where they were.
LEMMA OneGoesOn ==
    ASSUME edit = [b \in Admins |-> edit[b]], NEW a \in Admins, NEW what,
           edit' = [edit EXCEPT ![a] = what]
    PROVE  /\ edit' = [b \in Admins |-> edit'[b]] /\ edit'[a] = what
           /\ \A b \in Admins : b # a => edit'[b] = edit[b]
OBVIOUS

\* A change begins, or its reading ends: the tables and the memory stay.
LEMMA TablesStay ==
    ASSUME StoreInv, NEW a \in Admins, NEW what, EditOK(what), edit' = [edit EXCEPT ![a] = what],
           UNCHANGED <<saved, shown, wanted, torn, stale>>, changes' \in 0 .. MaxChanges,
           edit[a].at \in {"reread", "rebuild"} => /\ what.at \in {"reread", "rebuild"}
                                                   /\ what.row = edit[a].row
    PROVE  StoreInv'
<1>1. /\ edit' = [b \in Admins |-> edit'[b]] /\ edit'[a] = what
      /\ \A b \in Admins : b # a => edit'[b] = edit[b]
  BY OneGoesOn DEF StoreInv
<1>2. \A b \in Admins : EditOK(edit'[b])
  BY <1>1 DEF StoreInv
<1>3. \A r \in InMemory : Behindhand(r) => Behindhand(r)'
  BY <1>1 DEF Behindhand
<1>4. PlansFollow' /\ ChangeKept'
  BY <1>3 DEF StoreInv, PlansFollow, ChangeKept
<1>. QED BY <1>1, <1>2, <1>4 DEF StoreInv

\* Nobody rests with a row.
LEMMA RestOK == EditOK(NoEdit) /\ NoEdit.at = "rest"
BY DEF EditOK, NoEdit

\* set_field, set_value, toggle_feature and what they read.
LEMMA ReadsKeep ==
    ASSUME StoreInv, NEW a \in Admins, SetValue(a) \/ ToggleFeature(a) \/ Read(a) \/ Reread(a)
    PROVE  StoreInv'
<1>0. /\ saved \in [Rows -> Row] /\ shown \in [InMemory -> Row] /\ EditOK(edit[a])
      /\ changes \in 0 .. MaxChanges /\ MaxChanges \in Nat
  BY StoreAssumption DEF StoreInv
<1>1. ASSUME NEW what, OpenEdit(a, what), EditOK(what), UNCHANGED <<saved, shown, wanted, torn, stale>>
      PROVE  StoreInv'
  <2>1. changes' \in 0 .. MaxChanges
    BY <1>0, <1>1 DEF OpenEdit
  <2>2. edit[a].at = "rest"
    BY <1>1, RestOK DEF OpenEdit
  <2>. QED BY <1>1, <2>1, <2>2, TablesStay DEF OpenEdit
<1>2. CASE SetValue(a)
  <2>1. PICK r \in Rows, f \in Fields, v \in 0 .. 1 :
             OpenEdit(a, [at |-> "read", row |-> r, new |-> [g \in {f} |-> v], blind |-> FALSE])
    BY <1>2 DEF SetValue
  <2> DEFINE what == [at |-> "read", row |-> r, new |-> [g \in {f} |-> v], blind |-> FALSE]
  <2>2. EditOK(what)
    BY DEF EditOK
  <2>3. OpenEdit(a, what) /\ UNCHANGED <<saved, shown, wanted, torn, stale>>
    BY <1>2, <2>1 DEF SetValue
  <2> HIDE DEF what
  <2>. QED BY <1>1, <2>2, <2>3
<1>3. CASE ToggleFeature(a)
  <2>1. PICK r \in PlanRows, f \in Features :
           OpenEdit(a, [at |-> "read", row |-> r, blind |-> shown[r] # saved[r],
                      new |-> [g \in Features |-> IF g = f THEN 1 - shown[r][g]
                                                  ELSE shown[r][g]]])
    BY <1>3 DEF ToggleFeature
  <2> DEFINE new == [g \in Features |-> IF g = f THEN 1 - shown[r][g] ELSE shown[r][g]]
             what == [at |-> "read", row |-> r, blind |-> shown[r] # saved[r], new |-> new]
  <2>2. OpenEdit(a, what) /\ UNCHANGED <<saved, shown, wanted, torn, stale>>
    BY <1>3, <2>1, Zenon DEF ToggleFeature
  <2>3. what.at = "read" /\ what.row = r /\ what.new = new
    BY Zenon
  <2>4. DOMAIN new \subseteq Fields /\ \A g \in DOMAIN new : new[g] \in 0 .. 1
    <3>1. shown[r] \in Row
      BY <1>0 DEF InMemory
    <3>2. \A g \in Features : shown[r][g] \in 0 .. 1 /\ g \in Fields
      BY <3>1 DEF Row, Fields
    <3>3. \A g \in Features : new[g] \in 0 .. 1
      BY <3>2
    <3>. QED BY <3>2, <3>3
  <2> HIDE DEF what, new
  <2>5. EditOK(what)
    BY <2>3, <2>4 DEF EditOK, Rows
  <2>. QED BY <1>1, <2>2, <2>5
<1>4. CASE Read(a)
  <2>1. edit[a].at = "read" /\ UNCHANGED <<saved, shown, wanted, torn, stale, changes>>
    BY <1>4 DEF Read, TurnsTo
  <2>2. CASE Cleared(a)
    <3>1. edit' = [edit EXCEPT ![a] = NoEdit]
      BY <1>4, <2>2 DEF Read, TurnsTo
    <3>. QED BY <1>0, <2>1, <3>1, RestOK, TablesStay
  <2>3. CASE ~Cleared(a)
    <3> DEFINE rows == [r \in Together(edit[a].row) |-> saved[r]]
               what == [at |-> "write", row |-> edit[a].row, new |-> edit[a].new,
                        blind |-> edit[a].blind, rows |-> rows]
    <3>1. edit' = [edit EXCEPT ![a] = what]
      BY <1>4, <2>3 DEF Read, TurnsTo
    <3>2. /\ what.at = "write" /\ what.row = edit[a].row /\ what.new = edit[a].new
          /\ what.rows = rows
      OBVIOUS
    <3>3. rows \in [Together(edit[a].row) -> Row]
      BY <1>0, <2>1, ReadTogether DEF EditOK
    <3> HIDE DEF what, rows
    <3>4. EditOK(what)
      BY <1>0, <2>1, <3>2, <3>3 DEF EditOK
    <3>. QED BY <1>0, <2>1, <3>1, <3>4, TablesStay
  <2>. QED BY <2>2, <2>3
<1>5. CASE Reread(a)
  <2> DEFINE rows == [r \in Together(edit[a].row) |-> saved[r]]
             what == [at |-> "rebuild", row |-> edit[a].row, rows |-> rows]
  <2>1. /\ edit[a].at = "reread" /\ UNCHANGED <<saved, shown, wanted, torn, stale, changes>>
        /\ edit' = [edit EXCEPT ![a] = what]
    BY <1>5 DEF Reread, TurnsTo
  <2>2. what.at = "rebuild" /\ what.row = edit[a].row /\ what.rows = rows
    OBVIOUS
  <2>3. rows \in [Together(edit[a].row) -> Row]
    BY <1>0, <2>1, ReadTogether DEF EditOK, Rows, InMemory
  <2> HIDE DEF what, rows
  <2>4. EditOK(what)
    BY <1>0, <2>1, <2>2, <2>3 DEF EditOK
  <2>. QED BY <1>0, <2>1, <2>2, <2>4, TablesStay
<1>. QED BY <1>2, <1>3, <1>4, <1>5

\* A row is stored or deleted.
LEMMA StoresKeep ==
    ASSUME StoreInv, NEW a \in Admins, Write(a) \/ Reset(a)
    PROVE  StoreInv'
<1>0. /\ saved \in [Rows -> Row] /\ wanted \in [Rows -> Row] /\ EditOK(edit[a])
      /\ torn \subseteq Rows /\ edit = [b \in Admins |-> edit[b]]
      /\ changes \in 0 .. MaxChanges /\ MaxChanges \in Nat
  BY StoreAssumption DEF StoreInv
<1>1. ASSUME NEW r \in Rows, NEW row \in Row, NEW what, EditOK(what),
             edit' = [edit EXCEPT ![a] = what], saved' = [saved EXCEPT ![r] = row],
             r \in People => what.at = "rest", edit[a].at \in {"rest", "write"},
             r \notin People => what.at \in {"reread", "rebuild"} /\ what.row = r,
             UNCHANGED <<shown, stale>>, torn' \subseteq Rows, changes' \in 0 .. MaxChanges,
             torn \ {r} \subseteq torn', NEW aim \in Row, wanted' = [wanted EXCEPT ![r] = aim],
             r \in torn' \/ row = aim
      PROVE  StoreInv'
    <2>1. /\ edit' = [b \in Admins |-> edit'[b]] /\ edit'[a] = what
          /\ \A b \in Admins : b # a => edit'[b] = edit[b]
      BY <1>0, <1>1, OneGoesOn
    <2>2. \A b \in Admins : EditOK(edit'[b])
      BY <1>1, <2>1 DEF StoreInv
    <2>3. /\ saved'[r] = row /\ \A q \in Rows : q # r => saved'[q] = saved[q]
          /\ saved' \in [Rows -> Row]
      BY <1>0, <1>1
    <2>4. /\ wanted'[r] = aim /\ \A q \in Rows : q # r => wanted'[q] = wanted[q]
          /\ wanted' \in [Rows -> Row]
      BY <1>0, <1>1
    <2>5. \A q \in InMemory : Behindhand(q) => Behindhand(q)'
      BY <1>1, <2>1 DEF Behindhand
    <2>6. r \notin People => Behindhand(r)'
      BY <1>1, <2>1 DEF Behindhand
    <2>7. \A q \in InMemory : q \in Rows /\ q \notin People
      BY StoreAssumption DEF InMemory, Rows
    <2>8. PlansFollow'
      BY <1>1, <2>3, <2>5, <2>6, <2>7 DEF StoreInv, PlansFollow
    <2>9. ChangeKept'
      BY <1>1, <2>3, <2>4 DEF StoreInv, ChangeKept
    <2>. QED BY <1>1, <2>1, <2>2, <2>3, <2>4, <2>8, <2>9 DEF StoreInv
<1>2. CASE Write(a)
  <2> DEFINE r == edit[a].row
             new == edit[a].new
             row == Changed(edit[a].rows[r], new)
             aim == [f \in Fields |-> IF f \in DOMAIN new THEN new[f] ELSE wanted[r][f]]
             rows == [edit[a].rows EXCEPT ![r] = row]
             what == IF r \in People THEN NoEdit ELSE [at |-> "rebuild", row |-> r, rows |-> rows]
  <2>1. /\ edit[a].at = "write" /\ UNCHANGED <<shown, stale, changes>>
        /\ saved' = [saved EXCEPT ![r] = row] /\ edit' = [edit EXCEPT ![a] = what]
        /\ wanted' = [wanted EXCEPT ![r] = aim]
        /\ torn' = IF edit[a].blind \/ saved[r] # edit[a].rows[r] THEN torn \cup {r} ELSE torn
    BY <1>2 DEF Write, TurnsTo
  <2>2. /\ r \in Rows /\ edit[a].rows \in [Together(r) -> Row] /\ r \in Together(r)
        /\ DOMAIN new \subseteq Fields /\ \A f \in DOMAIN new : new[f] \in 0 .. 1
        /\ wanted[r] \in Row /\ edit[a].rows[r] \in Row
    BY <1>0, <2>1, ReadTogether DEF EditOK
  <2>3. row \in Row /\ aim \in Row /\ (edit[a].rows[r] = wanted[r] => row = aim)
    BY <2>2 DEF Row, Changed
  <2>4. rows \in [Together(r) -> Row]
    BY <2>2, <2>3
  <2>5. torn' \subseteq Rows /\ torn \subseteq torn' /\ (r \in torn' \/ saved[r] = edit[a].rows[r])
    BY <1>0, <2>1, <2>2
  <2>6. r \in torn' \/ row = aim
    BY <2>2, <2>3, <2>5 DEF StoreInv, ChangeKept
  <2>7. r \notin People => what.at = "rebuild" /\ what.row = r /\ what.rows = rows
    OBVIOUS
  <2>8. r \in People => what = NoEdit
    OBVIOUS
  <2>9. r \notin People => r \in InMemory
    BY <2>2 DEF Rows, InMemory
  <2> HIDE DEF what, rows, row, aim, r
  <2>10. EditOK(what)
    BY <2>2, <2>4, <2>7, <2>8, <2>9, RestOK DEF EditOK
  <2>. QED BY <1>0, <1>1, <2>1, <2>2, <2>3, <2>5, <2>6, <2>7, <2>8, <2>10, RestOK
<1>3. CASE Reset(a)
  <2>1. PICK r \in PlanRows \cup People :
           /\ OpenEdit(a, IF r \in People THEN NoEdit ELSE [at |-> "reread", row |-> r])
           /\ saved' = [saved EXCEPT ![r] = [f \in Fields |-> 0]]
           /\ wanted' = [wanted EXCEPT ![r] = [f \in Fields |-> 0]]
           /\ torn' = torn \ {r}
    BY <1>3 DEF Reset
  <2> DEFINE row == [f \in Fields |-> 0]
             what == IF r \in People THEN NoEdit ELSE [at |-> "reread", row |-> r]
  <2>2. /\ edit[a] = NoEdit /\ edit' = [edit EXCEPT ![a] = what] /\ changes' \in 0 .. MaxChanges
        /\ UNCHANGED <<shown, stale>>
    <3>1. OpenEdit(a, what) /\ UNCHANGED <<shown, stale>>
      BY <1>3, <2>1 DEF Reset
    <3> HIDE DEF what
    <3>. QED BY <1>0, <3>1 DEF OpenEdit
  <2>3. row \in Row /\ r \in Rows /\ (r \notin People => r \in InMemory)
    BY DEF Row, Rows, InMemory
  <2>4. r \notin People => what.at = "reread" /\ what.row = r
    OBVIOUS
  <2>5. r \in People => what = NoEdit
    OBVIOUS
  <2>6. saved' = [saved EXCEPT ![r] = row] /\ wanted' = [wanted EXCEPT ![r] = row] /\ torn' = torn \ {r}
    BY <2>1
  <2> HIDE DEF what, row
  <2>7. EditOK(what)
    BY <2>3, <2>4, <2>5, RestOK DEF EditOK
  <2>8. torn' \subseteq Rows /\ torn \ {r} \subseteq torn'
    BY <1>0, <2>6
  <2>. QED BY <1>1, <2>2, <2>3, <2>4, <2>5, <2>6, <2>7, <2>8, RestOK
<1>. QED BY <1>2, <1>3

\* Memory is made anew, from rows that were read, or from all of them at the start.
LEMMA MemoryKeeps ==
    ASSUME StoreInv, Restart \/ \E a \in Admins : Rebuild(a)
    PROVE  StoreInv'
<1>0. saved \in [Rows -> Row] /\ shown \in [InMemory -> Row] /\ InMemory \subseteq Rows
  BY DEF StoreInv, InMemory, Rows
<1>1. CASE Restart
  <2>1. /\ edit' = [a \in Admins |-> NoEdit] /\ shown' = [r \in InMemory |-> saved[r]]
        /\ stale' = {} /\ UNCHANGED <<saved, wanted, torn, changes>>
    BY <1>1 DEF Restart
  <2>2. shown' \in [InMemory -> Row] /\ PlansFollow'
    BY <1>0, <2>1 DEF PlansFollow
  <2>3. edit' = [a \in Admins |-> edit'[a]] /\ \A a \in Admins : EditOK(edit'[a])
    BY <2>1, RestOK
  <2>. QED BY <2>1, <2>2, <2>3 DEF StoreInv, ChangeKept
<1>2. ASSUME NEW a \in Admins, Rebuild(a)
      PROVE  StoreInv'
  <2> DEFINE rows == edit[a].rows
  <2>1. /\ edit[a].at = "rebuild" /\ UNCHANGED <<saved, wanted, torn, changes>>
        /\ shown' = [r \in InMemory |-> IF r \in DOMAIN rows THEN rows[r] ELSE shown[r]]
        /\ stale' = (stale \ DOMAIN rows) \cup {r \in DOMAIN rows : rows[r] # saved[r]}
        /\ edit' = [edit EXCEPT ![a] = NoEdit]
    BY <1>2 DEF Rebuild, TurnsTo
  <2>2. /\ edit[a].row \in InMemory /\ DOMAIN rows = Together(edit[a].row)
        /\ rows \in [Together(edit[a].row) -> Row]
    BY <2>1 DEF StoreInv, EditOK
  <2>3. edit[a].row \in DOMAIN rows /\ DOMAIN rows \subseteq InMemory
    BY <1>0, <2>2, ReadTogether
  <2>4. /\ edit' = [b \in Admins |-> edit'[b]] /\ edit'[a] = NoEdit
        /\ \A b \in Admins : b # a => edit'[b] = edit[b]
    BY <2>1, OneGoesOn DEF StoreInv
  <2>5. \A b \in Admins : EditOK(edit'[b])
    BY <2>4, RestOK DEF StoreInv
  <2> HIDE DEF rows
  <2>6. shown' \in [InMemory -> Row] /\ stale' \subseteq InMemory
    BY <1>0, <2>1, <2>2, <2>3 DEF StoreInv
  <2>7. ASSUME NEW r \in InMemory
        PROVE  shown'[r] = saved'[r] \/ r \in stale' \/ Behindhand(r)'
    <3>1. CASE r \in DOMAIN rows
      BY <2>1, <3>1
    <3>2. CASE r \notin DOMAIN rows
      <4>1. shown[r] = saved[r] \/ r \in stale \/ Behindhand(r)
        BY DEF StoreInv, PlansFollow
      <4>2. r # edit[a].row
        BY <2>3, <3>2
      <4>3. Behindhand(r) => Behindhand(r)'
        BY <2>4, <4>2 DEF Behindhand
      <4>. QED BY <2>1, <3>2, <4>1, <4>3
    <3>. QED BY <3>1, <3>2
  <2>8. PlansFollow' /\ ChangeKept'
    BY <2>1, <2>7 DEF StoreInv, PlansFollow, ChangeKept
  <2>. QED BY <2>1, <2>4, <2>5, <2>6, <2>8 DEF StoreInv
<1>. QED BY <1>1, <1>2

\* What admins change of plans, prices and limits arrives in the rows, and stays there,
\* and everyone reads from memory what the rows say; but for the changes named by torn
\* and stale, for any number of admins, rows and fields (planstore.py, limits.py).
THEOREM PlansAreTrue == StoreSpec => []PlansTrue
<1>1. StoreInit => StoreInv
  <2> SUFFICES ASSUME StoreInit PROVE StoreInv
    OBVIOUS
  <2>1. /\ saved \in [Rows -> Row] /\ wanted \in [Rows -> Row] /\ shown \in [InMemory -> Row]
        /\ \A r \in InMemory : shown[r] = saved[r]
    BY DEF StoreInit, Row, Rows, InMemory
  <2>2. edit = [a \in Admins |-> edit[a]] /\ \A a \in Admins : EditOK(edit[a])
    BY RestOK DEF StoreInit
  <2>3. wanted = saved /\ torn = {} /\ stale = {} /\ changes \in 0 .. MaxChanges
    BY StoreAssumption DEF StoreInit
  <2>. QED BY <2>1, <2>2, <2>3 DEF StoreInv, PlansFollow, ChangeKept
<1>2. StoreInv /\ [StoreNext]_store => StoreInv'
  <2> SUFFICES ASSUME StoreInv, [StoreNext]_store PROVE StoreInv'
    OBVIOUS
  <2>1. CASE UNCHANGED store
    BY <2>1 DEF store, StoreInv, PlansFollow, Behindhand, ChangeKept
  <2>. QED BY <2>1, ReadsKeep, StoresKeep, MemoryKeeps DEF StoreNext
<1>3. StoreInv => PlansTrue
  BY DEF StoreInv, PlansTrue
<1>. QED BY <1>1, <1>2, <1>3, PTL DEF StoreSpec

-----------------------------------------------------------------------------
\* The rates of the coins (CoinRate).

\* A round has coins left, of which the first is the one it is at.
RoundOK(e) ==
    /\ e.at = "rest" => e = NoRound
    /\ e.at # "rest" => /\ e.todo \in Seq(Coins) /\ e.todo # <<>>
                        /\ {"at", "force", "todo"} \subseteq DOMAIN e

\* The coins of a round.
CoinOrders == InTurn \cup {<<c>> : c \in Coins}

\* AtWork, of what a coroutine does.
WorksOn(e, c) ==
    /\ e.at # "rest"
    /\ \/ e.force /\ \E i \in DOMAIN e.todo : e.todo[i] = c
       \/ e.at # "ask" /\ Head(e.todo) = c

\* While a rate set by hand is to stay, the automatic one is off, and whoever may
\* write over it was at work before.
RateInv ==
    /\ rate = [c \in Coins |-> rate[c]] /\ byHand = [c \in Coins |-> byHand[c]]
    /\ early = [c \in Coins |-> early[c]] /\ round = [h \in Rounds |-> round[h]]
    /\ \A h \in Rounds : RoundOK(round[h])
    /\ \A c \in Coins : byHand[c] > 0 =>
         /\ ~auto /\ rate[c] = byHand[c]
         /\ \A h \in Rounds : WorksOn(round[h], c) => h \in early[c]

\* The first of a sequence, and the rest of one that has more.
LEMMA HeadAndTail ==
    ASSUME NEW S, NEW s \in Seq(S), s # <<>>
    PROVE  /\ Head(s) \in S /\ Head(s) = s[1] /\ 1 \in DOMAIN s
           /\ Len(s) # 1 => /\ Tail(s) \in Seq(S) /\ Tail(s) # <<>>
                            /\ \A i \in DOMAIN Tail(s) : i + 1 \in DOMAIN s /\ Tail(s)[i] = s[i + 1]
<1>1. Len(s) \in Nat \ {0} /\ DOMAIN s = 1 .. Len(s)
  OBVIOUS
<1>2. Head(s) \in S /\ Head(s) = s[1] /\ 1 \in DOMAIN s
  BY <1>1
<1>3. Tail(s) \in Seq(S) /\ Len(Tail(s)) = Len(s) - 1 /\ DOMAIN Tail(s) = 1 .. Len(Tail(s))
  BY <1>1
<1>4. \A i \in 1 .. Len(Tail(s)) : Tail(s)[i] = s[i + 1]
  BY <1>1
<1>. QED BY <1>1, <1>2, <1>3, <1>4, SMTT(30)

\* The coins of a round, each in turn or one alone.
LEMMA OrdersOfCoins ==
    ASSUME NEW coins, coins \in CoinOrders
    PROVE  coins \in Seq(Coins) /\ coins # <<>>
<1>1. CASE coins \in InTurn
  <2>1. Cardinality(Coins) \in Nat /\ Cardinality(Coins) # 0
    BY RateAssumption, FS_CardinalityType, FS_EmptySet
  <2>2. coins \in [1 .. Cardinality(Coins) -> Coins]
    BY <1>1 DEF InTurn
  <2>. QED BY <2>1, <2>2
<1>2. CASE coins \in {<<c>> : c \in Coins}
  <2>1. PICK c \in Coins : coins = <<c>>
    BY <1>2
  <2>. QED BY <2>1
<1>. QED BY <1>1, <1>2 DEF CoinOrders

\* A round that goes on works on no coin it did not work on, unless no rate set by
\* hand is to stay for it.
LEMMA RoundMoves ==
    ASSUME RateInv, NEW h \in Rounds, NEW what, RoundOK(what), round' = [round EXCEPT ![h] = what],
           UNCHANGED <<rate, early>>, byHand' = [c \in Coins |-> byHand'[c]],
           \A c \in Coins : /\ byHand'[c] > 0 => byHand'[c] = byHand[c] /\ ~auto'
                            /\ WorksOn(what, c) => \/ WorksOn(round[h], c)
                                                   \/ ~(byHand'[c] > 0)
    PROVE  RateInv'
<1>1. /\ round' = [k \in Rounds |-> round'[k]] /\ round'[h] = what
      /\ \A k \in Rounds : k # h => round'[k] = round[k]
  BY DEF RateInv
<1>2. \A k \in Rounds : RoundOK(round'[k])
  BY <1>1 DEF RateInv
<1>3. ASSUME NEW c \in Coins, byHand'[c] > 0
      PROVE  /\ ~auto' /\ rate'[c] = byHand'[c]
             /\ \A k \in Rounds : WorksOn(round'[k], c) => k \in early'[c]
  <2>1. /\ byHand'[c] = byHand[c] /\ byHand[c] > 0 /\ ~auto'
        /\ WorksOn(what, c) => WorksOn(round[h], c)
    BY <1>3
  <2>2. ASSUME NEW k \in Rounds, WorksOn(round'[k], c) PROVE k \in early'[c]
    <3>1. WorksOn(round[k], c)
      BY <1>1, <2>1, <2>2
    <3>. QED BY <2>1, <3>1 DEF RateInv
  <2>. QED BY <2>1, <2>2 DEF RateInv
<1>. QED BY <1>1, <1>2, <1>3 DEF RateInv

\* A coroutine at rest works on nothing.
LEMMA RestWorksOnNothing ==
    RoundOK(NoRound) /\ NoRound.at = "rest" /\ \A c \in Coins : ~WorksOn(NoRound, c)
BY DEF RoundOK, NoRound, WorksOn

\* A round begins: nothing that is to stay is in its way.
LEMMA OpenKeepsRate ==
    ASSUME RateInv, NEW h \in Rounds, NEW force, NEW coins, coins \in CoinOrders,
           OpenRound(h, force, coins), UNCHANGED <<rate, early>>,
           byHand' = [c \in Coins |-> byHand'[c]],
           \A c \in Coins : /\ byHand'[c] > 0 => byHand'[c] = byHand[c] /\ ~auto'
                            /\ force => \A i \in DOMAIN coins : ~(byHand'[coins[i]] > 0)
    PROVE  RateInv'
<1> DEFINE what == [at |-> "ask", force |-> force, todo |-> coins]
<1>1. /\ what.at = "ask" /\ what.force = force /\ what.todo = coins
      /\ {"at", "force", "todo"} \subseteq DOMAIN what
  OBVIOUS
<1>2. round' = [round EXCEPT ![h] = what]
  BY DEF OpenRound
<1> HIDE DEF what
<1>3. RoundOK(what)
  BY <1>1, OrdersOfCoins DEF RoundOK
<1>4. ASSUME NEW c \in Coins, WorksOn(what, c) PROVE ~(byHand'[c] > 0)
  BY <1>1, <1>4 DEF WorksOn
<1>. QED BY <1>2, <1>3, <1>4, RoundMoves

\* A round leaves the coin it is at.
LEMMA OnwardKeepsRate ==
    ASSUME RateInv, NEW h \in Rounds, round[h].at # "rest", Onward(h),
           UNCHANGED <<auto, early>>, byHand' = [c \in Coins |-> byHand'[c]],
           rate' = [c \in Coins |-> rate'[c]],
           \A c \in Coins : byHand'[c] > 0 => byHand'[c] = byHand[c] /\ rate'[c] = rate[c]
    PROVE  RateInv'
<1> DEFINE e == round[h]
           on == [at |-> "ask", force |-> e.force, todo |-> Tail(e.todo)]
           what == IF Len(e.todo) = 1 THEN NoRound ELSE on
<1>0. e.todo \in Seq(Coins) /\ e.todo # <<>>
  BY DEF RateInv, RoundOK
<1>1. /\ on.at = "ask" /\ on.force = e.force /\ on.todo = Tail(e.todo)
      /\ {"at", "force", "todo"} \subseteq DOMAIN on
  OBVIOUS
<1>2. round' = [round EXCEPT ![h] = what]
  BY DEF Onward
<1>3. \/ Len(e.todo) = 1 /\ what = NoRound
      \/ Len(e.todo) # 1 /\ what = on
  OBVIOUS
<1> HIDE DEF what, on
<1>4. RoundOK(what) /\ \A c \in Coins : WorksOn(what, c) => WorksOn(e, c)
  <2>1. CASE Len(e.todo) = 1
    BY <1>3, <2>1, RestWorksOnNothing
  <2>2. CASE Len(e.todo) # 1
    <3>1. /\ Tail(e.todo) \in Seq(Coins) /\ Tail(e.todo) # <<>>
          /\ \A i \in DOMAIN Tail(e.todo) : i + 1 \in DOMAIN e.todo /\ Tail(e.todo)[i] = e.todo[i + 1]
      BY <1>0, <2>2, HeadAndTail
    <3>2. what = on /\ RoundOK(what)
      BY <1>1, <1>3, <2>2, <3>1 DEF RoundOK
    <3>3. ASSUME NEW c \in Coins, WorksOn(what, c) PROVE WorksOn(e, c)
      <4>1. e.force /\ \E i \in DOMAIN Tail(e.todo) : Tail(e.todo)[i] = c
        BY <1>1, <3>2, <3>3 DEF WorksOn
      <4>2. \E i \in DOMAIN e.todo : e.todo[i] = c
        BY <3>1, <4>1
      <4>. QED BY <4>1, <4>2 DEF WorksOn
    <3>. QED BY <3>2, <3>3
  <2>. QED BY <2>1, <2>2
<1>5. /\ round' = [k \in Rounds |-> round'[k]] /\ round'[h] = what
      /\ \A k \in Rounds : k # h => round'[k] = round[k]
  BY <1>2 DEF RateInv
<1>6. \A k \in Rounds : RoundOK(round'[k])
  BY <1>4, <1>5 DEF RateInv
<1>7. ASSUME NEW c \in Coins, byHand'[c] > 0
      PROVE  /\ ~auto' /\ rate'[c] = byHand'[c]
             /\ \A k \in Rounds : WorksOn(round'[k], c) => k \in early'[c]
  <2>1. ~auto /\ rate[c] = byHand[c] /\ \A k \in Rounds : WorksOn(round[k], c) => k \in early[c]
    BY <1>7 DEF RateInv
  <2>. QED BY <1>4, <1>5, <1>7, <2>1
<1>. QED BY <1>5, <1>6, <1>7 DEF RateInv

\* A round is at one coin: it asks whether it is wanted, then for the market's rate,
\* compares and stores.
LEMMA RoundKeepsRate ==
    ASSUME RateInv, NEW h \in Rounds, Ask(h) \/ Market(h) \/ Compare(h) \/ Store(h)
    PROVE  RateInv'
<1> DEFINE e == round[h]
<1>0. /\ e.at # "rest" /\ e.todo \in Seq(Coins) /\ e.todo # <<>> /\ Head(e.todo) \in Coins
      /\ byHand = [c \in Coins |-> byHand[c]] /\ rate = [c \in Coins |-> rate[c]]
      /\ {"at", "force", "todo"} \subseteq DOMAIN e
  BY HeadAndTail DEF Ask, Market, Compare, Store, RateInv, RoundOK
<1>1. ASSUME NEW what, round' = [round EXCEPT ![h] = what], what.at \in {"market", "compare", "set"},
             what.force = e.force, what.todo = e.todo, {"at", "force", "todo"} \subseteq DOMAIN what,
             UNCHANGED <<rate, auto, byHand, early>>,
             e.at # "ask" \/ e.force \/ auto
      PROVE  RateInv'
  <2>1. RoundOK(what)
    BY <1>0, <1>1 DEF RoundOK
  <2>2. ASSUME NEW c \in Coins, WorksOn(what, c), ~WorksOn(e, c) PROVE ~(byHand[c] > 0)
    <3>1. e.at = "ask" /\ Head(e.todo) = c /\ ~e.force
      <4>1. Head(e.todo) = e.todo[1] /\ 1 \in DOMAIN e.todo
        BY <1>0, HeadAndTail
      <4>. QED BY <1>0, <1>1, <2>2, <4>1 DEF WorksOn
    <3>. QED BY <1>1, <3>1 DEF RateInv
  <2>3. \A c \in Coins : byHand[c] > 0 => ~auto
    BY DEF RateInv
  <2>4. \A c \in Coins : /\ byHand'[c] > 0 => byHand'[c] = byHand[c] /\ ~auto'
                         /\ WorksOn(what, c) => WorksOn(e, c) \/ ~(byHand'[c] > 0)
    BY <1>1, <2>2, <2>3
  <2>. QED BY <1>0, <1>1, <2>1, <2>4, RoundMoves
<1>2. ASSUME Onward(h), UNCHANGED <<rate, auto, byHand, early>>
      PROVE  RateInv'
  BY <1>0, <1>2, OnwardKeepsRate
<1>3. CASE Ask(h)
  <2>1. e.at = "ask" /\ UNCHANGED <<rate, auto, byHand, early>>
    BY <1>3 DEF Ask
  <2>2. CASE Wanted(h)
    <3> DEFINE what == [e EXCEPT !.at = "market"]
    <3>1. round' = [round EXCEPT ![h] = what]
      BY <1>3, <2>2 DEF Ask
    <3>2. e.force \/ auto
      BY <2>2 DEF Wanted
    <3>3. /\ what.at = "market" /\ what.force = e.force /\ what.todo = e.todo
          /\ {"at", "force", "todo"} \subseteq DOMAIN what
      BY <1>0
    <3> HIDE DEF what
    <3>. QED BY <1>1, <2>1, <3>1, <3>2, <3>3
  <2>3. CASE ~Wanted(h)
    BY <1>2, <1>3, <2>1, <2>3 DEF Ask
  <2>. QED BY <2>2, <2>3
<1>4. CASE Market(h)
  <2>1. e.at = "market" /\ UNCHANGED <<rate, auto, byHand, early>>
    BY <1>4 DEF Market
  <2>2. CASE Onward(h)
    BY <1>2, <2>1, <2>2
  <2>3. CASE ~Onward(h)
    <3>1. PICK market : round' = [round EXCEPT ![h] = [at |-> "compare", force |-> e.force,
                                                       todo |-> e.todo, new |-> WithMargin(market)]]
      BY <1>4, <2>3 DEF Market
    <3> DEFINE what == [at |-> "compare", force |-> e.force, todo |-> e.todo,
                        new |-> WithMargin(market)]
    <3>2. /\ what.at = "compare" /\ what.force = e.force /\ what.todo = e.todo
          /\ {"at", "force", "todo"} \subseteq DOMAIN what
      OBVIOUS
    <3> HIDE DEF what
    <3>. QED BY <1>1, <2>1, <3>1, <3>2 DEF what
  <2>. QED BY <2>2, <2>3
<1>5. CASE Compare(h)
  <2>1. e.at = "compare" /\ UNCHANGED <<rate, auto, byHand, early>>
    BY <1>5 DEF Compare
  <2>2. CASE Onward(h)
    BY <1>2, <2>1, <2>2
  <2>3. CASE ~Onward(h)
    <3> DEFINE what == [at |-> "set", force |-> e.force, todo |-> e.todo, new |-> e.new]
    <3>1. round' = [round EXCEPT ![h] = what]
      BY <1>5, <2>3 DEF Compare
    <3>2. /\ what.at = "set" /\ what.force = e.force /\ what.todo = e.todo
          /\ {"at", "force", "todo"} \subseteq DOMAIN what
      OBVIOUS
    <3> HIDE DEF what
    <3>. QED BY <1>1, <2>1, <3>1, <3>2
  <2>. QED BY <2>2, <2>3
<1>6. CASE Store(h)
  <2> DEFINE coin == Head(e.todo)
  <2>1. /\ e.at = "set" /\ Onward(h) /\ UNCHANGED <<auto, early>>
        /\ rate' = [rate EXCEPT ![coin] = e.new]
        /\ byHand' = IF h \in early[coin] THEN [byHand EXCEPT ![coin] = 0] ELSE byHand
    BY <1>6 DEF Store
  <2>2. WorksOn(e, coin)
    BY <2>1 DEF WorksOn
  <2>3. h \in early[coin] \/ ~(byHand[coin] > 0)
    BY <1>0, <2>2 DEF RateInv
  <2>4. /\ rate' = [c \in Coins |-> rate'[c]] /\ byHand' = [c \in Coins |-> byHand'[c]]
        /\ \A c \in Coins : c # coin => rate'[c] = rate[c] /\ byHand'[c] = byHand[c]
    BY <1>0, <2>1
  <2>5. ~(byHand'[coin] > 0)
    BY <1>0, <2>1, <2>3
  <2> HIDE DEF coin
  <2>6. \A c \in Coins : byHand'[c] > 0 => byHand'[c] = byHand[c] /\ rate'[c] = rate[c]
    BY <2>4, <2>5
  <2>. QED BY <1>0, <2>1, <2>4, <2>6, OnwardKeepsRate
<1>. QED BY <1>3, <1>4, <1>5, <1>6

\* A rate set by hand while the automatic one is off stays until an admin changes it,
\* switches the automatic one on or asks for the market's, for any number of rounds and
\* coins and whatever the sources answer (usdtrate.py, refresh and refresh_all).
THEOREM HandRateStays == RateSpec => []ByHandKept
<1>1. RateInit => RateInv
  <2> SUFFICES ASSUME RateInit PROVE RateInv
    OBVIOUS
  <2>1. /\ rate = [c \in Coins |-> rate[c]] /\ byHand = [c \in Coins |-> byHand[c]]
        /\ early = [c \in Coins |-> early[c]] /\ round = [h \in Rounds |-> round[h]]
    BY DEF RateInit
  <2>2. (\A h \in Rounds : round[h] = NoRound) /\ \A c \in Coins : byHand[c] = 0
    BY DEF RateInit
  <2>. QED BY <2>1, <2>2, RestWorksOnNothing DEF RateInv
<1>2. RateInv /\ [RateNext]_money => RateInv'
  <2> SUFFICES ASSUME RateInv, [RateNext]_money PROVE RateInv'
    OBVIOUS
  <2>0. /\ byHand = [c \in Coins |-> byHand[c]] /\ \A c \in Coins : byHand[c] > 0 => ~auto
        /\ rate = [c \in Coins |-> rate[c]] /\ early = [c \in Coins |-> early[c]]
    BY DEF RateInv
  <2>1. CASE UNCHANGED money
    BY <2>1 DEF money, RateInv
  <2>2. ASSUME NEW order \in InTurn, Quarterly(order) PROVE RateInv'
    <3>1. order \in CoinOrders
      BY DEF CoinOrders
    <3>. QED BY <2>0, <2>2, <3>1, OpenKeepsRate, RateAssumption DEF Quarterly
  <2>3. ASSUME NEW h \in Rounds, NEW coins, coins \in CoinOrders, FetchNow(h, coins)
        PROVE  RateInv'
    <3>1. /\ OpenRound(h, TRUE, coins) /\ UNCHANGED <<rate, auto, early>>
          /\ byHand' = [c \in Coins |-> IF c \in {coins[i] : i \in DOMAIN coins} THEN 0 ELSE byHand[c]]
      BY <2>3 DEF FetchNow
    <3>2. /\ byHand' = [c \in Coins |-> byHand'[c]]
          /\ \A c \in Coins : byHand'[c] > 0 => byHand'[c] = byHand[c] /\ ~auto'
      BY <2>0, <3>1
    <3>3. \A i \in DOMAIN coins : coins[i] \in Coins
      <4>1. coins \in Seq(Coins)
        BY <2>3, OrdersOfCoins
      <4>. QED BY <4>1
    <3>4. \A i \in DOMAIN coins : ~(byHand'[coins[i]] > 0)
      BY <3>1, <3>3
    <3>. QED BY <2>3, <3>1, <3>2, <3>4, OpenKeepsRate
  <2>4. ASSUME NEW h \in Rounds, TurnOn(h) PROVE RateInv'
    <3>1. PICK coins \in InTurn \cup {<<Usdt>>} : OpenRound(h, TRUE, coins)
      BY <2>4 DEF TurnOn
    <3>2. coins \in CoinOrders
      BY RateAssumption DEF CoinOrders
    <3>3. byHand' = [c \in Coins |-> 0] /\ UNCHANGED <<rate, early>>
      BY <2>4 DEF TurnOn
    <3>4. /\ byHand' = [c \in Coins |-> byHand'[c]] /\ \A c \in Coins : ~(byHand'[c] > 0)
          /\ \A i \in DOMAIN coins : coins[i] \in Coins
      BY <3>2, <3>3, OrdersOfCoins
    <3>. QED BY <3>1, <3>2, <3>3, <3>4, OpenKeepsRate
  <2>5. ASSUME NEW h \in Rounds, Ask(h) \/ Market(h) \/ Compare(h) \/ Store(h) PROVE RateInv'
    BY <2>5, RoundKeepsRate
  <2>6. CASE TurnOff
    BY <2>6 DEF TurnOff, RateInv
  <2>7. CASE SetByHand
    <3>1. PICK c \in Coins, v \in {p \in Prices : Sane(p)} :
           /\ rate' = [rate EXCEPT ![c] = v]
           /\ byHand' = [byHand EXCEPT ![c] = IF auto THEN 0 ELSE v]
           /\ early' = [early EXCEPT ![c] = {h \in Rounds : AtWork(h, c)}]
      BY <2>7 DEF SetByHand
    <3>2. UNCHANGED <<auto, round>>
      BY <2>7 DEF SetByHand
    <3>3. /\ rate' = [d \in Coins |-> rate'[d]] /\ byHand' = [d \in Coins |-> byHand'[d]]
          /\ early' = [d \in Coins |-> early'[d]]
          /\ \A d \in Coins : d # c => /\ rate'[d] = rate[d] /\ byHand'[d] = byHand[d]
                                       /\ early'[d] = early[d]
          /\ rate'[c] = v /\ byHand'[c] = (IF auto THEN 0 ELSE v)
          /\ early'[c] = {h \in Rounds : AtWork(h, c)}
      BY <2>0, <3>1
    <3>4. \A h \in Rounds : WorksOn(round[h], c) => AtWork(h, c)
      <4>1. NoRound.at = "rest"
        BY DEF NoRound
      <4>. QED BY <4>1 DEF WorksOn, AtWork
    <3>5. byHand'[c] > 0 => /\ ~auto' /\ rate'[c] = byHand'[c]
                            /\ \A h \in Rounds : WorksOn(round'[h], c) => h \in early'[c]
      BY <3>2, <3>3, <3>4
    <3>. QED BY <3>2, <3>3, <3>5 DEF RateInv
  <2>8. CASE Killed
    <3>1. /\ round' = [h \in Rounds |-> NoRound] /\ UNCHANGED <<rate, auto, byHand, early>>
          /\ \A h \in Rounds : round'[h] = NoRound
      BY <2>8 DEF Killed
    <3>. QED BY <3>1, RestWorksOnNothing DEF RateInv
  <2>. QED BY <2>1, <2>2, <2>3, <2>4, <2>5, <2>6, <2>7, <2>8 DEF RateNext, CoinOrders
<1>3. RateInv => ByHandKept
  BY DEF RateInv, ByHandKept
<1>. QED BY <1>1, <1>2, <1>3, PTL DEF RateSpec

-----------------------------------------------------------------------------
\* The pace of a target and of a task, and the fair use of a day (RateLimit).

\* popleft stops somewhere: what it takes is older than the span, and what is left
\* begins with a stamp that is not.
LEMMA PoppedWhileOld ==
    ASSUME NEW stamps \in Seq(Nat), NEW span \in Nat, clock \in Nat
    PROVE  /\ Outdated(stamps, span) \in 0 .. Len(stamps)
           /\ \A i \in 1 .. Outdated(stamps, span) : clock - stamps[i] > span
<1> DEFINE Enough == {k \in 0 .. Len(stamps) : k < Len(stamps) => clock - stamps[k + 1] <= span}
           Firsts == {1 .. k : k \in Enough}
           Old(k) == /\ \A i \in 1 .. k : clock - stamps[i] > span
                     /\ k < Len(stamps) => clock - stamps[k + 1] <= span
<1>1. Len(stamps) \in Nat /\ Len(stamps) \in Enough
  OBVIOUS
<1>2. PICK m \in Firsts : \A t \in Firsts : ~(t \subseteq m /\ t # m)
  <2>1. Firsts \in SUBSET SUBSET (1 .. Len(stamps)) /\ Firsts # {}
    BY <1>1
  <2>2. IsFiniteSet(1 .. Len(stamps))
    BY <1>1, FS_Interval
  <2> DEFINE Indices == 1 .. Len(stamps)
  <2> HIDE DEF Firsts, Indices, Enough
  <2>3. IsFiniteSet(Indices) /\ Firsts \in SUBSET SUBSET Indices /\ Firsts # {}
    BY <2>1, <2>2 DEF Indices
  <2> QED BY <2>3, SmallestSet
<1>3. PICK k \in Enough : m = 1 .. k
  BY <1>2
<1>4. k \in 0 .. Len(stamps) /\ (k < Len(stamps) => clock - stamps[k + 1] <= span)
  BY <1>3
<1>5. \A i \in 1 .. k : clock - stamps[i] > span
  <2> SUFFICES ASSUME NEW i \in 1 .. k, clock - stamps[i] <= span PROVE FALSE
    BY <1>1, <1>4
  <2>1. i - 1 \in 0 .. Len(stamps) /\ (i - 1) + 1 = i /\ i \in Nat
    BY <1>1, <1>4
  <2>2. i - 1 \in Enough
    BY <2>1
  <2>3. 1 .. (i - 1) \in Firsts
    BY <2>2
  <2>4. 1 .. (i - 1) \subseteq m /\ 1 .. (i - 1) # m
    BY <1>3, <1>4, <2>1
  <2> QED BY <1>2, <2>3, <2>4
<1>6. \E j \in 0 .. Len(stamps) : Old(j)
  BY <1>4, <1>5
<1>7. Outdated(stamps, span) = CHOOSE j \in 0 .. Len(stamps) : Old(j)
  BY DEF Outdated
<1>8. Outdated(stamps, span) \in 0 .. Len(stamps) /\ Old(Outdated(stamps, span))
  <2> HIDE DEF Old
  <2> QED BY <1>6, <1>7
<1> QED BY <1>8

\* The stamps in a window are the last times its cap let a post through; the ones
\* before them have left it; and no span of time sees more than the cap.
InWindow(stamps, times, span, most) ==
    /\ stamps \in Seq(Nat) /\ times \in Seq(Nat)
    /\ Len(stamps) <= Len(times)
    /\ \A k \in 1 .. Len(stamps) : stamps[k] = times[Len(times) - Len(stamps) + k]
    /\ \A k \in 1 .. Len(times) - Len(stamps) : clock - times[k] > span
    /\ \A k \in 1 .. Len(times) : k > most => times[k] - times[k - most] > span

PaceInv ==
    /\ clock \in Nat
    /\ DOMAIN window = Caps /\ DOMAIN sentAt = Caps
    /\ \A cap \in Caps : InWindow(window[cap], sentAt[cap], Span[cap], Most[cap])

\* A count that was seeded has seen every post its day let in, or began too low.
Counted(kept, let, low) ==
    /\ DOMAIN kept = {"day", "seeded", "used"} /\ (kept.day \in Days => kept.used \in Nat)
    /\ kept.seeded /\ kept.day \in Days => let[kept.day] <= kept.used \/ kept.day \in low

CountInv ==
    /\ DOMAIN admitted = Days /\ \A d \in Days : admitted[d] \in Nat
    /\ DOMAIN copied = Days /\ \A d \in Days : copied[d] \in Nat
    /\ DOMAIN post = Senders
    /\ \A s \in Senders : (post[s].at = "seed" /\ post[s].day \in Days) => post[s].spent \in Nat
    /\ Counted(count, admitted, loose)
    /\ FairDay

\* What leaves a window was too old for it.
LEMMA WindowSlides ==
    ASSUME NEW stamps, NEW times, NEW span \in Nat, NEW most \in Nat, clock \in Nat,
           InWindow(stamps, times, span, most)
    PROVE  InWindow(Fresh(stamps, span), times, span, most)
<1> DEFINE d == Outdated(stamps, span)
           left == Fresh(stamps, span)
<1>1. d \in 0 .. Len(stamps) /\ \A i \in 1 .. d : clock - stamps[i] > span
  BY PoppedWhileOld DEF InWindow
<1>2. stamps \in Seq(Nat) /\ Len(stamps) \in Nat /\ times \in Seq(Nat) /\ Len(times) \in Nat
  BY DEF InWindow
<1>3. /\ left \in Seq(Nat) /\ Len(left) = Len(stamps) - d
      /\ \A k \in 1 .. Len(left) : left[k] = stamps[k + d]
  <2>1. left = SubSeq(stamps, d + 1, Len(stamps))
    BY DEF Fresh
  <2> HIDE DEF d, left
  <2> QED BY <1>1, <1>2, <2>1
<1> HIDE DEF d, left
<1>4. Len(left) <= Len(times)
  BY <1>1, <1>2, <1>3 DEF InWindow
<1>5. ASSUME NEW k \in 1 .. Len(left)
      PROVE  left[k] = times[Len(times) - Len(left) + k]
  <2>1. k + d \in 1 .. Len(stamps) /\ left[k] = stamps[k + d]
    BY <1>1, <1>2, <1>3
  <2>2. stamps[k + d] = times[Len(times) - Len(stamps) + (k + d)]
    BY <2>1 DEF InWindow
  <2>3. Len(times) - Len(stamps) + (k + d) = Len(times) - Len(left) + k
    BY <1>1, <1>2, <1>3
  <2> QED BY <2>1, <2>2, <2>3
<1>6. ASSUME NEW k \in 1 .. Len(times) - Len(left)
      PROVE  clock - times[k] > span
  <2>1. CASE k <= Len(times) - Len(stamps)
    <3>1. k \in 1 .. Len(times) - Len(stamps)
      BY <1>1, <1>2, <1>3, <2>1
    <3> QED BY <3>1 DEF InWindow
  <2>2. CASE k > Len(times) - Len(stamps)
    <3> DEFINE i == k - (Len(times) - Len(stamps))
    <3>1. i \in 1 .. d /\ i \in 1 .. Len(stamps) /\ Len(times) - Len(stamps) + i = k
      BY <1>1, <1>2, <1>3, <2>2, SMTT(30)
    <3>2. stamps[i] = times[Len(times) - Len(stamps) + i]
      BY <3>1 DEF InWindow
    <3> HIDE DEF i
    <3> QED BY <1>1, <3>1, <3>2
  <2> QED BY <1>1, <1>2, <1>3, <2>1, <2>2
<1>7. \A k \in 1 .. Len(times) : k > most => times[k] - times[k - most] > span
  BY DEF InWindow
<1>8. InWindow(left, times, span, most)
  BY <1>2, <1>3, <1>4, <1>5, <1>6, <1>7 DEF InWindow
<1> QED BY <1>8 DEF left

\* A window that has room may take another stamp.
LEMMA WindowGrows ==
    ASSUME NEW stamps, NEW times, NEW span \in Nat, NEW most \in Nat \ {0}, clock \in Nat,
           InWindow(stamps, times, span, most), Len(stamps) < most
    PROVE  InWindow(Append(stamps, clock), Append(times, clock), span, most)
<1> DEFINE ss == Append(stamps, clock)
           tt == Append(times, clock)
<1>1. stamps \in Seq(Nat) /\ Len(stamps) \in Nat /\ times \in Seq(Nat) /\ Len(times) \in Nat
      /\ Len(stamps) <= Len(times)
  BY DEF InWindow
<1>2. /\ ss \in Seq(Nat) /\ Len(ss) = Len(stamps) + 1 /\ ss[Len(stamps) + 1] = clock
      /\ \A k \in 1 .. Len(stamps) : ss[k] = stamps[k]
  BY <1>1
<1>3. /\ tt \in Seq(Nat) /\ Len(tt) = Len(times) + 1 /\ tt[Len(times) + 1] = clock
      /\ \A k \in 1 .. Len(times) : tt[k] = times[k]
  BY <1>1
<1> HIDE DEF ss, tt
<1>4. ASSUME NEW k \in 1 .. Len(ss)
      PROVE  ss[k] = tt[Len(tt) - Len(ss) + k]
  <2>1. Len(tt) - Len(ss) + k = Len(times) - Len(stamps) + k
    BY <1>1, <1>2, <1>3
  <2>2. CASE k = Len(stamps) + 1
    <3>1. Len(times) - Len(stamps) + k = Len(times) + 1
      BY <1>1, <2>2
    <3> QED BY <1>2, <1>3, <2>1, <2>2, <3>1
  <2>3. CASE k \in 1 .. Len(stamps)
    <3>1. Len(times) - Len(stamps) + k \in 1 .. Len(times)
      BY <1>1, <2>3
    <3>2. stamps[k] = times[Len(times) - Len(stamps) + k]
      BY <2>3 DEF InWindow
    <3> QED BY <1>2, <1>3, <2>1, <2>3, <3>1, <3>2
  <2> QED BY <1>1, <1>2, <2>2, <2>3
<1>5. ASSUME NEW k \in 1 .. Len(tt) - Len(ss)
      PROVE  clock - tt[k] > span
  <2>1. k \in 1 .. Len(times) - Len(stamps) /\ k \in 1 .. Len(times)
    BY <1>1, <1>2, <1>3, SMTT(30)
  <2>2. clock - times[k] > span
    BY <2>1 DEF InWindow
  <2> QED BY <1>3, <2>1, <2>2
<1>6. ASSUME NEW k \in 1 .. Len(tt), k > most
      PROVE  tt[k] - tt[k - most] > span
  <2>1. k - most \in 1 .. Len(times)
    BY <1>1, <1>3, <1>6
  <2>2. CASE k = Len(times) + 1
    <3>1. k - most \in 1 .. Len(times) - Len(stamps)
      BY <1>1, <1>6, <2>2
    <3>2. clock - times[k - most] > span
      BY <3>1 DEF InWindow
    <3> QED BY <1>3, <2>1, <2>2, <3>2
  <2>3. CASE k \in 1 .. Len(times)
    <3>1. times[k] - times[k - most] > span
      BY <1>6, <2>3 DEF InWindow
    <3> QED BY <1>3, <2>1, <2>3, <3>1
  <2> QED BY <1>1, <1>3, <2>2, <2>3
<1>7. Len(ss) <= Len(tt)
  BY <1>1, <1>2, <1>3
<1>8. InWindow(ss, tt, span, most)
  BY <1>2, <1>3, <1>4, <1>5, <1>6, <1>7 DEF InWindow
<1> QED BY <1>8 DEF ss, tt

\* A cap has a span and lets at least one post through.
LEMMA CapFacts ==
    ASSUME NEW cap \in Caps
    PROVE  Span[cap] \in Nat /\ Most[cap] \in Nat \ {0}
<1>1. cap = "target" \/ cap = "task"
  BY DEF Caps
<1>2. /\ Span["target"] = Minute /\ Span["task"] = Hour
      /\ Most["target"] = PerMinute /\ Most["task"] = PerHour
  BY DEF Span, Most
<1> QED BY <1>1, <1>2, LimitAssumption

\* A cap that lets a post through, or is full, keeps the windows true.
LEMMA CapsKeepPace ==
    ASSUME PaceInv, clock' = clock, NEW cap \in Caps, Let(cap) \/ Full(cap)
    PROVE  PaceInv'
<1>1. clock \in Nat /\ Span[cap] \in Nat /\ Most[cap] \in Nat \ {0}
  BY CapFacts DEF PaceInv
<1> DEFINE left == Fresh(window[cap], Span[cap])
<1>2. InWindow(left, sentAt[cap], Span[cap], Most[cap])
  BY <1>1, WindowSlides DEF PaceInv
<1>3. Len(left) \in Nat
  BY <1>2 DEF InWindow
<1>4. \E ss, tt : /\ \A c \in Caps : window'[c] = IF c = cap THEN ss ELSE window[c]
                  /\ \A c \in Caps : sentAt'[c] = IF c = cap THEN tt ELSE sentAt[c]
                  /\ InWindow(ss, tt, Span[cap], Most[cap])
  <2>1. CASE Let(cap)
    <3>1. InWindow(Append(left, clock), Append(sentAt[cap], clock), Span[cap], Most[cap])
      <4>1. Len(left) < Most[cap]
        BY <2>1 DEF Let
      <4> HIDE DEF left
      <4> QED BY <1>1, <1>2, <4>1, WindowGrows
    <3>2. /\ window' = [window EXCEPT ![cap] = Append(left, clock)]
          /\ sentAt' = [sentAt EXCEPT ![cap] = Append(sentAt[cap], clock)]
      BY <2>1 DEF Let
    <3> HIDE DEF left
    <3> QED BY <3>1, <3>2 DEF PaceInv
  <2>2. CASE Full(cap)
    <3>1. window' = [window EXCEPT ![cap] = left] /\ sentAt' = sentAt
      BY <2>2 DEF Full
    <3> HIDE DEF left
    <3> QED BY <1>2, <3>1 DEF PaceInv
  <2> QED BY <2>1, <2>2
<1>5. DOMAIN window' = Caps /\ DOMAIN sentAt' = Caps
  BY DEF PaceInv, Let, Full
<1> HIDE DEF left
<1>6. ASSUME NEW c \in Caps
      PROVE  InWindow(window'[c], sentAt'[c], Span[c], Most[c])
  BY <1>4 DEF PaceInv
<1>7. ASSUME NEW c \in Caps
      PROVE  InWindow(window[c], sentAt[c], Span[c], Most[c])'
  <2>1. InWindow(window'[c], sentAt'[c], Span[c], Most[c])
    BY <1>6
  <2> QED BY <2>1 DEF InWindow, Span, Most
<1> QED BY <1>1, <1>5, <1>7 DEF PaceInv

\* An empty window is true of a cap that has let nothing through.
LEMMA EmptyWindow ==
    ASSUME NEW span, NEW most
    PROVE  InWindow(<<>>, <<>>, span, most)
BY DEF InWindow

\* Every step keeps the windows true of the times.
LEMMA PaceIsKept ==
    ASSUME PaceInv, [LimitNext]_rates
    PROVE  PaceInv'
<1>1. CASE UNCHANGED <<clock, window, sentAt>>
  BY <1>1 DEF PaceInv, InWindow, Span, Most
<1>2. ASSUME NEW s \in Senders, NewPost(s)
      PROVE  PaceInv'
  <2>1. clock' = clock /\ (Let("task") \/ Full("task"))
    BY <1>2 DEF NewPost
  <2> QED BY <2>1, CapsKeepPace DEF Caps
<1>3. ASSUME NEW s \in Senders, Try(s)
      PROVE  PaceInv'
  <2>1. clock' = clock /\ (Let("target") \/ Full("target"))
    BY <1>3 DEF Try
  <2> QED BY <2>1, CapsKeepPace DEF Caps
<1>4. CASE Passes
  <2>1. clock' \in Nat /\ clock' = clock + 1 /\ clock \in Nat
    BY <1>4 DEF Passes, PaceInv
  <2>2. window' = window /\ sentAt' = sentAt
    BY <1>4 DEF Passes
  <2>3. ASSUME NEW c \in Caps
        PROVE  InWindow(window[c], sentAt[c], Span[c], Most[c])'
    <3> DEFINE ss == window[c]
               tt == sentAt[c]
               span == Span[c]
               most == Most[c]
    <3>1. InWindow(ss, tt, span, most) /\ span \in Nat
      BY CapFacts DEF PaceInv
    <3>2. /\ window'[c] = ss /\ sentAt'[c] = tt
          /\ Span[c]' = span /\ Most[c]' = most
      BY <2>2 DEF Span, Most
    <3> HIDE DEF ss, tt, span, most
    <3>3. \A k \in 1 .. Len(tt) - Len(ss) : clock' - tt[k] > span
      <4> SUFFICES ASSUME NEW k \in 1 .. Len(tt) - Len(ss) PROVE clock' - tt[k] > span
        OBVIOUS
      <4>1. clock - tt[k] > span
        BY <3>1 DEF InWindow
      <4>2. tt \in Seq(Nat) /\ Len(ss) \in Nat /\ Len(tt) \in Nat /\ k \in 1 .. Len(tt)
        BY <3>1 DEF InWindow
      <4>3. tt[k] \in Nat
        BY <4>2
      <4> QED BY <2>1, <3>1, <4>1, <4>3
    <3>4. /\ ss \in Seq(Nat) /\ tt \in Seq(Nat) /\ Len(ss) <= Len(tt)
          /\ \A k \in 1 .. Len(ss) : ss[k] = tt[Len(tt) - Len(ss) + k]
          /\ \A k \in 1 .. Len(tt) : k > most => tt[k] - tt[k - most] > span
      BY <3>1 DEF InWindow
    <3> QED BY <3>2, <3>3, <3>4 DEF InWindow
  <2> QED BY <2>1, <2>2, <2>3 DEF PaceInv
<1>5. CASE Paused
  <2>1. /\ clock' = clock
        /\ window' = [window EXCEPT !["task"] = <<>>] /\ sentAt' = [sentAt EXCEPT !["task"] = <<>>]
    BY <1>5 DEF Paused
  <2>2. ASSUME NEW c \in Caps
        PROVE  InWindow(window'[c], sentAt'[c], Span[c], Most[c])
    BY <2>1, EmptyWindow DEF PaceInv, Caps
  <2>3. ASSUME NEW c \in Caps
        PROVE  InWindow(window[c], sentAt[c], Span[c], Most[c])'
    <3>1. InWindow(window'[c], sentAt'[c], Span[c], Most[c])
      BY <2>2
    <3> QED BY <2>1, <3>1 DEF InWindow, Span, Most
  <2> QED BY <2>1, <2>3 DEF PaceInv
<1>6. CASE Restarted
  <2>1. clock' = clock /\ window' = NoStamps /\ sentAt' = NoStamps
    BY <1>6 DEF Restarted
  <2>2. ASSUME NEW c \in Caps
        PROVE  InWindow(window[c], sentAt[c], Span[c], Most[c])'
    <3>1. InWindow(<<>>, <<>>, Span[c], Most[c])
      BY EmptyWindow
    <3>2. window'[c] = <<>> /\ sentAt'[c] = <<>>
      BY <2>1 DEF NoStamps
    <3> QED BY <2>1, <3>1, <3>2 DEF InWindow, Span, Most
  <2> QED BY <2>1, <2>2 DEF PaceInv, NoStamps
<1>7. CASE \E s \in Senders : Look(s) \/ Query(s) \/ Seed(s) \/ Acquire(s) \/ Sent(s) \/ Cancelled(s)
  BY <1>1, <1>7 DEF Look, Query, Seed, Acquire, Sent, Cancelled
<1>8. CASE UNCHANGED rates
  BY <1>1, <1>8 DEF rates
<1> QED BY <1>2, <1>3, <1>4, <1>5, <1>6, <1>7, <1>8 DEF LimitNext

\* A day that is not the memory's begins uncounted; a count of the day is as it was.
LEMMA RolledIsCounted ==
    ASSUME CountInv, NEW day
    PROVE  /\ Counted(Rolled(day), admitted, loose)
           /\ Rolled(day).day = day
<1>1. CASE count.day = day
  BY <1>1 DEF CountInv, Rolled
<1>2. CASE count.day # day
  <2>1. Rolled(day) = [day |-> day, seeded |-> FALSE, used |-> 0]
    BY <1>2 DEF Rolled, Unseeded
  <2> QED BY <2>1 DEF Counted
<1> QED BY <1>1, <1>2

\* A seeded count lets no more in than the fair use, and counts what it lets in.
LEMMA AllowCounts ==
    ASSUME CountInv, NEW s \in Senders, NEW rolled, NEW day, NEW low, loose \subseteq low,
           rolled.day = day, rolled.seeded, Counted(rolled, admitted, low), loose' = low,
           Allow(s, rolled, day)
    PROVE  /\ Counted(count', admitted', loose')
           /\ DOMAIN admitted' = Days /\ \A d \in Days : admitted'[d] \in Nat
           /\ \A d \in Days : admitted'[d] <= FairUse \/ d \in loose'
           /\ \E what : post' = [post EXCEPT ![s] = what] /\ what.at # "seed"
<1>1. FairUse \in Nat
  BY LimitAssumption
<1>2. CASE rolled.used < FairUse
  <2>1. /\ count' = [rolled EXCEPT !.used = rolled.used + 1]
        /\ admitted' = [admitted EXCEPT ![day] = admitted[day] + 1]
        /\ post' = [post EXCEPT ![s] = [at |-> "wait"]]
    BY <1>2 DEF Allow, Goes
  <2>2. DOMAIN rolled = {"day", "seeded", "used"} /\ (day \in Days => rolled.used \in Nat)
    BY DEF Counted
  <2>3. /\ DOMAIN count' = {"day", "seeded", "used"} /\ count'.used = rolled.used + 1
        /\ count'.day = day /\ count'.seeded = rolled.seeded
    BY <2>1, <2>2
  <2>4. /\ DOMAIN admitted' = Days /\ \A d \in Days : admitted'[d] \in Nat
        /\ \A d \in Days : admitted'[d] = IF d = day THEN admitted[d] + 1 ELSE admitted[d]
    BY <2>1 DEF CountInv
  <2>5. day \in Days => admitted[day] <= rolled.used \/ day \in low
    BY DEF Counted
  <2>6. Counted(count', admitted', loose')
    <3>1. day \in Days => admitted'[day] <= count'.used \/ day \in low
      BY <2>2, <2>3, <2>4, <2>5 DEF CountInv
    <3> QED BY <2>2, <2>3, <3>1 DEF Counted
  <2>7. ASSUME NEW d \in Days
        PROVE  admitted'[d] <= FairUse \/ d \in loose'
    <3>1. admitted[d] <= FairUse \/ d \in loose
      BY DEF CountInv, FairDay
    <3>2. admitted[d] \in Nat
      BY DEF CountInv
    <3> QED BY <1>1, <1>2, <2>2, <2>4, <2>5, <3>1, <3>2
  <2>8. [at |-> "wait"].at # "seed"
    OBVIOUS
  <2> QED BY <2>1, <2>4, <2>6, <2>7, <2>8
<1>3. CASE ~(rolled.used < FairUse)
  <2>1. /\ count' = rolled /\ admitted' = admitted
        /\ post' = [post EXCEPT ![s] = NoPost]
    BY <1>3 DEF Allow, Goes
  <2>2. NoPost.at # "seed"
    BY DEF NoPost
  <2>3. ASSUME NEW d \in Days
        PROVE  admitted'[d] <= FairUse \/ d \in loose'
    BY <2>1 DEF CountInv, FairDay
  <2> QED BY <2>1, <2>2, <2>3 DEF CountInv
<1> QED BY <1>2, <1>3

\* What the senders hold stays fit when one goes on to something else than a sum read.
LEMMA OthersStay ==
    ASSUME CountInv, NEW s \in Senders, NEW what, post' = [post EXCEPT ![s] = what],
           (what.at = "seed" /\ what.day \in Days) => what.spent \in Nat
    PROVE  /\ DOMAIN post' = Senders
           /\ \A t \in Senders :
                (post'[t].at = "seed" /\ post'[t].day \in Days) => post'[t].spent \in Nat
BY DEF CountInv

\* Every step keeps the day's count true of what was let in.
LEMMA CountIsKept ==
    ASSUME CountInv, [LimitNext]_rates
    PROVE  CountInv'
<1>1. CASE UNCHANGED <<count, copied, admitted, loose, post>>
  BY <1>1 DEF CountInv, Counted, FairDay, Days
<1>2. ASSUME UNCHANGED <<count, copied, admitted, loose>>, NEW s \in Senders, NEW what,
             Goes(s, what), (what.at = "seed" /\ what.day \in Days) => what.spent \in Nat
      PROVE  CountInv'
  <2>1. /\ DOMAIN post' = Senders
        /\ \A t \in Senders :
             (post'[t].at = "seed" /\ post'[t].day \in Days) => post'[t].spent \in Nat
    BY <1>2, OthersStay DEF Goes
  <2> QED BY <1>2, <2>1 DEF CountInv, Counted, FairDay, Days
<1>3. ASSUME NEW s \in Senders, NewPost(s)
      PROVE  CountInv'
  <2>1. CASE Goes(s, [at |-> "day"])
    <3>1. [at |-> "day"].at # "seed"
      OBVIOUS
    <3> QED BY <1>2, <1>3, <2>1, <3>1 DEF NewPost
  <2>2. CASE UNCHANGED post
    BY <1>1, <1>3, <2>2 DEF NewPost
  <2> QED BY <1>3, <2>1, <2>2 DEF NewPost
<1>4. ASSUME NEW s \in Senders, Look(s)
      PROVE  CountInv'
  <2> DEFINE day == Today
             rolled == Rolled(Today)
  <2>1. Counted(rolled, admitted, loose) /\ rolled.day = day
    BY RolledIsCounted
  <2>2. copied' = copied /\ loose' = loose
    BY <1>4 DEF Look
  <2>3. CASE ~rolled.seeded
    <3>1. /\ count' = rolled /\ admitted' = admitted
          /\ post' = [post EXCEPT ![s] = [at |-> "query", day |-> day]]
      BY <1>4, <2>3 DEF Look, Goes
    <3>2. [at |-> "query", day |-> day].at # "seed"
      OBVIOUS
    <3> DEFINE what == [at |-> "query", day |-> day]
    <3> HIDE DEF rolled, day, what
    <3>3. post' = [post EXCEPT ![s] = what] /\ what.at # "seed"
      BY <3>1, <3>2 DEF what
    <3>4. /\ DOMAIN post' = Senders
          /\ \A t \in Senders :
               (post'[t].at = "seed" /\ post'[t].day \in Days) => post'[t].spent \in Nat
      BY <3>3, OthersStay
    <3> QED BY <2>1, <2>2, <3>1, <3>4 DEF CountInv, Counted, FairDay, Days
  <2>4. CASE rolled.seeded
    <3>1. Allow(s, rolled, day)
      BY <1>4, <2>4 DEF Look
    <3> HIDE DEF rolled, day
    <3>2. /\ Counted(count', admitted', loose')
          /\ DOMAIN admitted' = Days /\ \A d \in Days : admitted'[d] \in Nat
          /\ \A d \in Days : admitted'[d] <= FairUse \/ d \in loose'
          /\ \E what : post' = [post EXCEPT ![s] = what] /\ what.at # "seed"
      BY <2>1, <2>2, <2>4, <3>1, AllowCounts
    <3>3. /\ DOMAIN post' = Senders
          /\ \A t \in Senders :
               (post'[t].at = "seed" /\ post'[t].day \in Days) => post'[t].spent \in Nat
      BY <3>2, OthersStay
    <3> QED BY <2>2, <3>2, <3>3 DEF CountInv, Counted, FairDay, Days
  <2> QED BY <2>3, <2>4
<1>5. ASSUME NEW s \in Senders, Query(s)
      PROVE  CountInv'
  <2> DEFINE day == post[s].day
             what == [at |-> "seed", day |-> day, spent |-> copied[day]]
  <2>1. Goes(s, what) /\ UNCHANGED <<count, copied, admitted, loose>>
    BY <1>5 DEF Query
  <2>2. what.day = day /\ what.spent = copied[day]
    OBVIOUS
  <2>3. day \in Days => copied[day] \in Nat
    BY DEF CountInv
  <2> HIDE DEF what, day
  <2> QED BY <1>2, <2>1, <2>2, <2>3
<1>6. ASSUME NEW s \in Senders, Seed(s)
      PROVE  CountInv'
  <2> DEFINE day == post[s].day
             kept == Rolled(post[s].day)
             spent == post[s].spent
             rolled == Seeded(Rolled(post[s].day), post[s].spent)
  <2>1. Counted(kept, admitted, loose) /\ kept.day = day
    BY RolledIsCounted
  <2>2. /\ copied' = copied /\ Allow(s, rolled, day)
        /\ loose' = IF ~kept.seeded /\ spent < admitted[day] THEN loose \cup {day} ELSE loose
    BY <1>6 DEF Seed
  <2>3. day \in Days => spent \in Nat
    BY <1>6 DEF Seed, CountInv
  <2>4. rolled = IF kept.seeded THEN kept ELSE [kept EXCEPT !.seeded = TRUE, !.used = spent]
    BY DEF Seeded, Replaced
  <2> HIDE DEF rolled, kept, day, spent
  <2>5. rolled.day = day /\ rolled.seeded /\ loose \subseteq loose'
    BY <2>1, <2>2, <2>4 DEF Counted
  <2>6. Counted(rolled, admitted, loose')
    <3>1. CASE kept.seeded
      BY <2>1, <2>2, <2>4, <3>1 DEF Counted
    <3>2. CASE ~kept.seeded
      <4>1. DOMAIN rolled = {"day", "seeded", "used"} /\ rolled.used = spent
        BY <2>1, <2>4, <3>2 DEF Counted
      <4> QED BY <2>2, <2>3, <2>5, <3>2, <4>1 DEF Counted, CountInv
    <3> QED BY <3>1, <3>2
  <2>7. /\ Counted(count', admitted', loose')
        /\ DOMAIN admitted' = Days /\ \A d \in Days : admitted'[d] \in Nat
        /\ \A d \in Days : admitted'[d] <= FairUse \/ d \in loose'
        /\ \E what : post' = [post EXCEPT ![s] = what] /\ what.at # "seed"
    BY <2>2, <2>5, <2>6, AllowCounts
  <2>8. /\ DOMAIN post' = Senders
        /\ \A t \in Senders :
             (post'[t].at = "seed" /\ post'[t].day \in Days) => post'[t].spent \in Nat
    BY <2>7, OthersStay
  <2> QED BY <2>2, <2>7, <2>8 DEF CountInv, Counted, FairDay, Days
<1>7. ASSUME NEW s \in Senders, Acquire(s)
      PROVE  CountInv'
  <2>1. [at |-> "line"].at # "seed"
    OBVIOUS
  <2> QED BY <1>2, <1>7, <2>1 DEF Acquire
<1>8. ASSUME NEW s \in Senders, Try(s)
      PROVE  CountInv'
  <2>1. CASE Goes(s, [at |-> "send"])
    <3>1. [at |-> "send"].at # "seed"
      OBVIOUS
    <3> QED BY <1>2, <1>8, <2>1, <3>1 DEF Try
  <2>2. CASE UNCHANGED post
    BY <1>1, <1>8, <2>2 DEF Try
  <2> QED BY <1>8, <2>1, <2>2 DEF Try
<1>9. ASSUME NEW s \in Senders, Sent(s)
      PROVE  CountInv'
  <2>1. PICK more \in 0 .. 1 : copied' = [copied EXCEPT ![Today] = copied[Today] + more]
    BY <1>9 DEF Sent
  <2>2. DOMAIN copied' = Days /\ \A d \in Days : copied'[d] \in Nat
    BY <2>1 DEF CountInv
  <2>3. post' = [post EXCEPT ![s] = NoPost] /\ NoPost.at # "seed"
    BY <1>9 DEF Sent, Goes, NoPost
  <2>4. /\ DOMAIN post' = Senders
        /\ \A t \in Senders :
             (post'[t].at = "seed" /\ post'[t].day \in Days) => post'[t].spent \in Nat
    BY <2>3, OthersStay
  <2>5. UNCHANGED <<count, admitted, loose>>
    BY <1>9 DEF Sent
  <2> QED BY <2>2, <2>4, <2>5 DEF CountInv, Counted, FairDay, Days
<1>10. ASSUME NEW s \in Senders, Cancelled(s)
       PROVE  CountInv'
  <2>1. NoPost.at # "seed"
    BY DEF NoPost
  <2> QED BY <1>2, <1>10, <2>1 DEF Cancelled
<1>11. CASE Passes
  BY <1>1, <1>11 DEF Passes
<1>12. CASE Paused
  BY <1>1, <1>12 DEF Paused
<1>13. CASE Restarted
  <2>1. /\ UNCHANGED <<copied, admitted, loose>>
        /\ count' = [day |-> Today, seeded |-> FALSE, used |-> 0]
        /\ post' = [s \in Senders |-> NoPost]
    BY <1>13 DEF Restarted, Unseeded
  <2>2. /\ DOMAIN post' = Senders
        /\ \A t \in Senders : post'[t].at # "seed"
    BY <2>1 DEF NoPost
  <2>3. Counted(count, admitted, loose)'
    BY <2>1 DEF Counted
  <2> QED BY <2>1, <2>2, <2>3 DEF CountInv, FairDay, Days
<1>14. CASE UNCHANGED rates
  BY <1>1, <1>14 DEF rates
<1> QED
  BY <1>3, <1>4, <1>5, <1>6, <1>7, <1>8, <1>9, <1>10, <1>11, <1>12, <1>13, <1>14 DEF LimitNext

\* Windows and count begin empty.
LEMMA LimitsBegin ==
    ASSUME LimitInit
    PROVE  PaceInv /\ CountInv
<1>1. PaceInv
  <2>1. ASSUME NEW c \in Caps
        PROVE  InWindow(window[c], sentAt[c], Span[c], Most[c])
    BY EmptyWindow DEF LimitInit, NoStamps
  <2> QED BY <2>1 DEF PaceInv, LimitInit, NoStamps
<1>2. CountInv
  <2>1. /\ DOMAIN post = Senders
        /\ \A t \in Senders : post[t].at # "seed"
    BY DEF LimitInit, NoPost
  <2>2. Counted(count, admitted, loose)
    BY DEF LimitInit, Unseeded, Counted
  <2>3. FairUse \in Nat
    BY LimitAssumption
  <2> QED BY <2>1, <2>2, <2>3 DEF CountInv, FairDay, LimitInit
<1> QED BY <1>1, <1>2

\* However its senders come, wait, are cancelled and wake, no span of time sees more
\* posts to a target, or of a task, than its cap (RateLimiter.acquire and
\* HourlyQuota.allow), and no day lets in more than its fair use unless its count began
\* again from a sum that lacked posts let in (DailyQuota, _message_quota_ok): for any
\* senders, caps and spans.
THEOREM PaceHolds == LimitSpec => []PaceKept
<1>1. LimitInit => PaceInv /\ CountInv
  BY LimitsBegin
<1>2. PaceInv /\ CountInv /\ [LimitNext]_rates => (PaceInv /\ CountInv)'
  BY PaceIsKept, CountIsKept
<1>3. PaceInv /\ CountInv => PaceKept
  <2> SUFFICES ASSUME PaceInv, CountInv PROVE PaceKept
    OBVIOUS
  <2>1. ASSUME NEW cap \in Caps, NEW i \in DOMAIN sentAt[cap], i > Most[cap]
        PROVE  sentAt[cap][i] - sentAt[cap][i - Most[cap]] > Span[cap]
    <3> DEFINE tt == sentAt[cap]
    <3>1. /\ tt \in Seq(Nat)
          /\ \A k \in 1 .. Len(tt) : k > Most[cap] => tt[k] - tt[k - Most[cap]] > Span[cap]
      BY DEF PaceInv, InWindow
    <3>2. i \in 1 .. Len(tt)
      BY <2>1, <3>1
    <3> QED BY <2>1, <3>1, <3>2
  <2> QED BY <2>1 DEF PaceKept, SteadyPace, CountInv
<1> QED BY <1>1, <1>2, <1>3, PTL DEF LimitSpec

-----------------------------------------------------------------------------
\* The tasks of one customer (TaskDesk).

Chats == {ChatOf[ref] : ref \in Places} \cup {Null}
Extra == [ref : Places, chat : Chats]
RowFields == {"kind", "mode", "src", "srcId", "dest", "destId", "extras", "clean", "asked", "torn",
           "born"}

\* Kind and ids fit the references.
Fits(row) ==
    /\ row.kind = KindOf(row.src)
    /\ row.srcId \in {Null, ChatOf[row.src]}
    /\ row.destId \in {Null, ChatOf[row.dest]}

\* No two destinations are one channel.
Separate(dest, extras) ==
    /\ \A i \in 1 .. Len(extras) : ChatOf[extras[i].ref] # ChatOf[dest]
    /\ \A i, j \in 1 .. Len(extras) : i # j => ChatOf[extras[i].ref] # ChatOf[extras[j].ref]

RowOK(row, born) ==
    /\ DOMAIN row = RowFields
    /\ row.born \in 1 .. born
    /\ row.extras \in Seq(Extra)
    /\ row.clean => Fits(row)
    /\ ~row.torn => \A i \in 1 .. Len(row.extras) : row.extras[i].chat = ChatOf[row.extras[i].ref]
    /\ row.clean /\ ~row.torn => Separate(row.dest, row.extras)

\* The answers of a dialogue that replaced none.
Meant(d) ==
    /\ \/ d.src = Null /\ d.kind = Null /\ d.srcId = Null
       \/ d.src \in Sources /\ d.kind = Null /\ d.srcId \in {Null, ChatOf[d.src]}
       \/ d.src \in FeedUrls /\ d.kind = "rss" /\ d.srcId = Null
    /\ \/ d.dest = Null /\ d.destId = Null
       \/ d.dest \in Places /\ d.destId \in {Null, ChatOf[d.dest]}

DialogFields == {"at", "task", "kind", "src", "srcId", "dest", "destId", "mixed", "asked"}

DialogOK ==
    /\ DOMAIN dialog = DialogFields
    /\ ~dialog.mixed => Meant(dialog)

\* A row about to be written.
FreshRow(row) ==
    /\ DOMAIN row = RowFields
    /\ row.extras = <<>> /\ ~row.torn
    /\ row.clean => Fits(row)

\* What a coroutine holds is true of the row it means, unless the id is another's now.
HandOK(w, rows, born) ==
    /\ w.op = "simple_source" => w.ref \in Sources
    /\ w.op \in {"dest", "simple_dest", "dest_add", "place", "add"} => w.ref \in Places
    /\ w.op \in {"web_count", "insert"} => FreshRow(w.row)
    /\ w.op \in {"resolve", "mode"} =>
          /\ w.born \in 1 .. born
          /\ (w.task \in DOMAIN rows /\ rows[w.task].born = w.born) =>
                /\ w.src \in {Null, rows[w.task].src}
                /\ w.op = "resolve" => w.dest = rows[w.task].dest
    /\ w.op \in {"place", "add"} =>
          /\ w.main.born \in 1 .. born
          /\ w.main.clean => Fits(w.main)
          /\ (w.task \in DOMAIN rows /\ rows[w.task].born = w.main.born) =>
                /\ w.main.dest = rows[w.task].dest
                /\ rows[w.task].clean => w.main.clean
    /\ w.op = "add" =>
          /\ w.chat \in {ChatOf[w.ref], Null}
          /\ ~Taken(w.main, w.others, w.ref, w.chat)

HandsOK == DOMAIN hand = Handlers /\ \A h \in Handlers : HandOK(hand[h], tasks, births)

DeskInv ==
    /\ births \in Nat
    /\ \A t \in DOMAIN tasks : RowOK(tasks[t], births)
    /\ DialogOK
    /\ HandsOK

\* Tasks the plan was asked for: there, about to be written, or in the dialogue.
AskedTasks == {t \in DOMAIN tasks : tasks[t].asked}
AskedRows == {h \in Handlers : hand[h].op = "insert" /\ hand[h].row.asked}
AskedDialog == IF dialog.asked THEN 1 ELSE 0

\* Coroutines about to add a place to a task: of the mini app, which count when they have
\* read the others, and of the bot, which has counted when the dialogue asked.
WebAdds(t) == {h \in Handlers : hand[h].op = "add" /\ hand[h].web /\ hand[h].task = t}
BotAdds(t) == {h \in Handlers : hand[h].op \in {"place", "add"} /\ ~hand[h].web /\ hand[h].task = t}

AskedInv ==
    Cardinality(AskedTasks) + Cardinality(AskedRows) + AskedDialog
       <= TaskLimit + Cardinality(Handlers)

PlaceRoom(t) ==
    /\ dialog.task = t =>
          Len(Extras(t)) + Cardinality(WebAdds(t)) < ExtraLimit + Cardinality(Handlers)
    /\ Len(Extras(t)) + Cardinality(WebAdds(t)) + Cardinality(BotAdds(t))
          < ExtraLimit + 2 * Cardinality(Handlers)

PlacesInv == \A t \in Nat \ {0} : PlaceRoom(t)

RoomInv ==
    /\ IsFiniteSet(DOMAIN tasks) /\ DOMAIN tasks \subseteq Nat \ {0}
    /\ AskedInv
    /\ PlacesInv

\* A row that stays what the coroutines know of it, or one that none of them knows.
StaysKnown(old, new, born, t) ==
    \/ /\ t \in DOMAIN old
       /\ new[t].born = old[t].born /\ new[t].dest = old[t].dest /\ new[t].src = old[t].src
       /\ new[t].clean => old[t].clean
    \/ new[t].born > born

\* What a coroutine believes stays true of rows that change like this.
LEMMA KnownStays ==
    ASSUME NEW w, NEW old, NEW new, NEW b \in Nat, NEW c \in Nat, b <= c, HandOK(w, old, b),
           \A t \in DOMAIN new : StaysKnown(old, new, b, t)
    PROVE  HandOK(w, new, c)
<1>1. ASSUME w.op \in {"resolve", "mode"}
      PROVE  /\ w.born \in 1 .. c
             /\ (w.task \in DOMAIN new /\ new[w.task].born = w.born) =>
                   /\ w.src \in {Null, new[w.task].src}
                   /\ w.op = "resolve" => w.dest = new[w.task].dest
  <2>1. /\ w.born \in 1 .. b
        /\ (w.task \in DOMAIN old /\ old[w.task].born = w.born) =>
              /\ w.src \in {Null, old[w.task].src}
              /\ w.op = "resolve" => w.dest = old[w.task].dest
    BY <1>1 DEF HandOK
  <2>2. ASSUME w.task \in DOMAIN new, new[w.task].born = w.born
        PROVE  /\ w.task \in DOMAIN old /\ old[w.task].born = w.born
               /\ new[w.task].dest = old[w.task].dest /\ new[w.task].src = old[w.task].src
    <3>1. StaysKnown(old, new, b, w.task)
      BY <2>2
    <3>2. ~(new[w.task].born > b)
      BY <2>1, <2>2
    <3> QED BY <2>2, <3>1, <3>2 DEF StaysKnown
  <2> QED BY <2>1, <2>2
<1>2. ASSUME w.op \in {"place", "add"}
      PROVE  /\ w.main.born \in 1 .. c
             /\ w.main.clean => Fits(w.main)
             /\ (w.task \in DOMAIN new /\ new[w.task].born = w.main.born) =>
                   /\ w.main.dest = new[w.task].dest
                   /\ new[w.task].clean => w.main.clean
  <2>1. /\ w.main.born \in 1 .. b
        /\ w.main.clean => Fits(w.main)
        /\ (w.task \in DOMAIN old /\ old[w.task].born = w.main.born) =>
              /\ w.main.dest = old[w.task].dest
              /\ old[w.task].clean => w.main.clean
    BY <1>2 DEF HandOK
  <2>2. ASSUME w.task \in DOMAIN new, new[w.task].born = w.main.born
        PROVE  /\ w.task \in DOMAIN old /\ old[w.task].born = w.main.born
               /\ new[w.task].dest = old[w.task].dest
               /\ new[w.task].clean => old[w.task].clean
    <3>1. StaysKnown(old, new, b, w.task)
      BY <2>2
    <3>2. ~(new[w.task].born > b)
      BY <2>1, <2>2
    <3> QED BY <2>2, <3>1, <3>2 DEF StaysKnown
  <2> QED BY <2>1, <2>2
<1> QED BY <1>1, <1>2 DEF HandOK

\* A step that keeps the rows true, and gives one coroutine something true to hold.
LEMMA DeskGoesOn ==
    ASSUME DeskInv, births' \in Nat, births <= births', DialogOK',
           \A t \in DOMAIN tasks' : RowOK(tasks'[t], births') /\ StaysKnown(tasks, tasks', births, t),
           \/ hand' = hand
           \/ \E h \in Handlers : \E does :
                 hand' = [hand EXCEPT ![h] = does] /\ HandOK(does, tasks', births')
    PROVE  DeskInv'
<1>1. ASSUME NEW h \in Handlers
      PROVE  HandOK(hand[h], tasks', births')
  BY KnownStays DEF DeskInv, HandsOK
<1>2. DOMAIN hand = Handlers
  BY DEF DeskInv, HandsOK
<1>3. DOMAIN hand' = Handlers /\ \A h \in Handlers : HandOK(hand'[h], tasks', births')
  BY <1>1, <1>2
<1>4. HandsOK'
  BY <1>3 DEF HandsOK
<1> QED BY <1>4 DEF DeskInv

\* The same, when the rows are left alone.
LEMMA DeskStands ==
    ASSUME DeskInv, tasks' = tasks, births' = births, DialogOK',
           \/ hand' = hand
           \/ \E h \in Handlers : \E does :
                 hand' = [hand EXCEPT ![h] = does] /\ HandOK(does, tasks, births)
    PROVE  DeskInv'
<1>1. births' \in Nat /\ births <= births'
  BY DEF DeskInv
<1>2. \A t \in DOMAIN tasks' : RowOK(tasks'[t], births') /\ StaysKnown(tasks, tasks', births, t)
  BY DEF DeskInv, StaysKnown
<1> QED BY <1>1, <1>2, DeskGoesOn

\* What names no row and no place is true whatever the rows are.
LEMMA EasyHand ==
    ASSUME NEW w, NEW rows, NEW b,
           w.op \in {"rest", "open", "source", "title", "simple_title", "open_dest"}
    PROVE  HandOK(w, rows, b)
BY DEF HandOK

\* A dialogue that is left alone stays meant.
LEMMA SameDialog ==
    ASSUME DeskInv, dialog' = dialog
    PROVE  DialogOK'
BY DEF DeskInv, DialogOK, Meant

\* A cleared dialogue has no answers that could be mixed.
LEMMA NoDialogOK ==
    ASSUME dialog' = NoDialog
    PROVE  DialogOK'
BY DEF NoDialog, DialogOK, DialogFields, Meant

\* Steps of the dialogues that leave the rows alone.
LEMMA DialogSteps ==
    ASSUME DeskInv, NEW h \in Handlers,
           \/ NewTask(h) \/ OpenTask(h) \/ Reply(h) \/ Picked(h) \/ AcceptSource(h)
           \/ AcceptFeed(h) \/ AcceptDest(h) \/ SimpleSource(h) \/ SimpleDest(h)
    PROVE  DeskInv'
<1>1. DialogOK /\ HandsOK /\ HandOK(hand[h], tasks, births)
  BY DEF DeskInv, HandsOK
<1>2. HandOK(Rest, tasks, births)
  BY EasyHand DEF Rest
<1>3. ASSUME NEW does, HandOK(does, tasks, births), hand' = [hand EXCEPT ![h] = does],
             dialog' = dialog, tasks' = tasks, births' = births
      PROVE  DeskInv'
  BY <1>3, SameDialog, DeskStands
<1>4. ASSUME DialogOK', hand' = [hand EXCEPT ![h] = Rest], tasks' = tasks, births' = births
      PROVE  DeskInv'
  BY <1>2, <1>4, DeskStands
<1>5. CASE NewTask(h)
  <2>1. PICK way \in {"source", "simple_source"} : Begin(h, [op |-> "open", way |-> way])
    BY <1>5 DEF NewTask
  <2>2. HandOK([op |-> "open", way |-> way], tasks, births)
    BY EasyHand
  <2> QED BY <1>3, <1>5, <2>1, <2>2 DEF NewTask, Begin
<1>6. CASE OpenTask(h)
  <2>1. CASE TaskRoom
    <3>1. dialog' = [dialog EXCEPT !.at = hand[h].way, !.asked = TRUE,
                          !.mixed = dialog.mixed \/ dialog.src # Null \/ dialog.kind # Null]
      BY <1>6, <2>1 DEF OpenTask
    <3>2. DOMAIN dialog = DialogFields
      BY <1>1 DEF DialogOK
    <3>3. /\ DOMAIN dialog' = DialogFields
          /\ dialog'.src = dialog.src /\ dialog'.kind = dialog.kind
          /\ dialog'.srcId = dialog.srcId /\ dialog'.dest = dialog.dest
          /\ dialog'.destId = dialog.destId
          /\ dialog'.mixed <=> (dialog.mixed \/ dialog.src # Null \/ dialog.kind # Null)
      BY <3>1, <3>2 DEF DialogFields
    <3>4. DialogOK'
      BY <1>1, <3>3 DEF DialogOK, Meant
    <3> QED BY <1>4, <1>6, <3>4 DEF OpenTask, Then
  <2>2. CASE ~TaskRoom
    <3>1. dialog' = dialog
      BY <1>6, <2>2 DEF OpenTask
    <3> QED BY <1>4, <1>6, <3>1, SameDialog DEF OpenTask, Then
  <2> QED BY <2>1, <2>2
<1>7. CASE Reply(h)
  <2>1. PICK does : /\ Begin(h, does)
                    /\ \/ does.op \in {"source", "title", "simple_title"}
                       \/ does.op = "simple_source" /\ does.ref \in Sources
                       \/ does.op \in {"dest", "simple_dest", "dest_add"} /\ does.ref \in Places
    <3>1. CASE \E ref \in Refs : Begin(h, [op |-> "source", ref |-> ref])
      BY <3>1
    <3>2. CASE \E ref \in Sources : Begin(h, [op |-> "simple_source", ref |-> ref])
      BY <3>2
    <3>3. CASE /\ dialog.at \in {"dest", "simple_dest", "dest_add"}
               /\ \E ref \in Places : Begin(h, [op |-> dialog.at, ref |-> ref])
      <4>1. PICK ref \in Places : Begin(h, [op |-> dialog.at, ref |-> ref])
        BY <3>3
      <4> DEFINE does == [op |-> dialog.at, ref |-> ref]
      <4>2. does.op = dialog.at /\ does.ref = ref /\ Begin(h, does)
        BY <4>1
      <4> HIDE DEF does
      <4> QED BY <3>3, <4>2
    <3>4. CASE dialog.at \in {"title", "simple_title"} /\ Begin(h, [op |-> dialog.at])
      <4> DEFINE does == [op |-> dialog.at]
      <4>1. does.op = dialog.at /\ Begin(h, does)
        BY <3>4
      <4> HIDE DEF does
      <4> QED BY <3>4, <4>1
    <3> QED BY <1>7, <3>1, <3>2, <3>3, <3>4 DEF Reply
  <2>2. HandOK(does, tasks, births)
    BY <2>1 DEF HandOK
  <2> QED BY <1>3, <1>7, <2>1, <2>2 DEF Reply, Begin
<1>8. CASE Picked(h)
  <2>1. PICK does : /\ Begin(h, does)
                    /\ does.op = "source" \/ (does.op = "dest" /\ does.ref \in Places)
    <3>1. CASE \E ref \in Sources \cap Offered : Begin(h, [op |-> "source", ref |-> ref])
      BY <3>1
    <3>2. CASE \E ref \in Places \cap Offered : Begin(h, [op |-> "dest", ref |-> ref])
      BY <3>2
    <3> QED BY <1>8, <3>1, <3>2 DEF Picked
  <2>2. HandOK(does, tasks, births)
    BY <2>1 DEF HandOK
  <2> QED BY <1>3, <1>8, <2>1, <2>2 DEF Picked, Begin
<1>9. CASE AcceptSource(h)
  <2>1. CASE dialog' = [dialog EXCEPT !.src = hand[h].ref, !.at = "dest", !.mixed = Overwrites]
    <3>1. DOMAIN dialog = DialogFields
      BY <1>1 DEF DialogOK
    <3>2. /\ DOMAIN dialog' = DialogFields
          /\ dialog'.src = hand[h].ref /\ dialog'.kind = dialog.kind
          /\ dialog'.srcId = dialog.srcId /\ dialog'.dest = dialog.dest
          /\ dialog'.destId = dialog.destId
          /\ dialog'.mixed <=> (dialog.mixed \/ dialog.src # Null \/ dialog.kind # Null)
      BY <2>1, <3>1 DEF DialogFields, Overwrites
    <3>3. hand[h].ref \in Sources
      BY <1>9 DEF AcceptSource
    <3>4. ASSUME ~dialog'.mixed
          PROVE  Meant(dialog')
      BY <1>1, <3>2, <3>3, <3>4, DeskAssumption DEF DialogOK, Meant
    <3>5. DialogOK'
      BY <3>2, <3>4 DEF DialogOK, Meant
    <3> QED BY <1>4, <1>9, <3>5 DEF AcceptSource, Then
  <2>2. CASE UNCHANGED dialog
    BY <1>4, <1>9, <2>2, SameDialog DEF AcceptSource, Then
  <2> QED BY <1>9, <2>1, <2>2 DEF AcceptSource
<1>10. CASE AcceptFeed(h)
  <2>1. CASE dialog' = [dialog EXCEPT !.src = hand[h].ref, !.kind = "rss", !.at = "dest",
                                      !.mixed = Overwrites]
    <3>1. DOMAIN dialog = DialogFields
      BY <1>1 DEF DialogOK
    <3>2. /\ DOMAIN dialog' = DialogFields
          /\ dialog'.src = hand[h].ref /\ dialog'.kind = "rss"
          /\ dialog'.srcId = dialog.srcId /\ dialog'.dest = dialog.dest
          /\ dialog'.destId = dialog.destId
          /\ dialog'.mixed <=> (dialog.mixed \/ dialog.src # Null \/ dialog.kind # Null)
      BY <2>1, <3>1 DEF DialogFields, Overwrites
    <3>3. hand[h].ref \in FeedUrls
      BY <1>10 DEF AcceptFeed
    <3>4. ASSUME ~dialog'.mixed
          PROVE  Meant(dialog')
      BY <1>1, <3>2, <3>3, <3>4, DeskAssumption DEF DialogOK, Meant
    <3>5. DialogOK'
      BY <3>2, <3>4 DEF DialogOK, Meant
    <3> QED BY <1>4, <1>10, <3>5 DEF AcceptFeed, Then
  <2>2. CASE UNCHANGED dialog
    BY <1>4, <1>10, <2>2, SameDialog DEF AcceptFeed, Then
  <2> QED BY <1>10, <2>1, <2>2 DEF AcceptFeed
<1>11. CASE AcceptDest(h)
  <2>1. CASE dialog' = [dialog EXCEPT !.dest = hand[h].ref, !.at = "title",
                                      !.mixed = dialog.mixed \/ dialog.dest # Null]
    <3>1. DOMAIN dialog = DialogFields
      BY <1>1 DEF DialogOK
    <3>2. /\ DOMAIN dialog' = DialogFields
          /\ dialog'.src = dialog.src /\ dialog'.kind = dialog.kind
          /\ dialog'.srcId = dialog.srcId /\ dialog'.dest = hand[h].ref
          /\ dialog'.destId = dialog.destId
          /\ dialog'.mixed <=> (dialog.mixed \/ dialog.dest # Null)
      BY <2>1, <3>1 DEF DialogFields
    <3>3. hand[h].ref \in Places
      BY <1>1, <1>11 DEF AcceptDest, HandOK
    <3>4. ASSUME ~dialog'.mixed
          PROVE  Meant(dialog')
      BY <1>1, <3>2, <3>3, <3>4, DeskAssumption DEF DialogOK, Meant
    <3>5. DialogOK'
      BY <3>2, <3>4 DEF DialogOK, Meant
    <3> QED BY <1>4, <1>11, <3>5 DEF AcceptDest, Then
  <2>2. CASE UNCHANGED dialog
    BY <1>4, <1>11, <2>2, SameDialog DEF AcceptDest, Then
  <2> QED BY <1>11, <2>1, <2>2 DEF AcceptDest
<1>12. CASE SimpleSource(h)
  <2>1. CASE dialog' = [dialog EXCEPT !.src = hand[h].ref, !.srcId = ChatOf[hand[h].ref],
                                      !.at = "simple_dest", !.mixed = Overwrites]
    <3>1. DOMAIN dialog = DialogFields
      BY <1>1 DEF DialogOK
    <3>2. /\ DOMAIN dialog' = DialogFields
          /\ dialog'.src = hand[h].ref /\ dialog'.kind = dialog.kind
          /\ dialog'.srcId = ChatOf[hand[h].ref] /\ dialog'.dest = dialog.dest
          /\ dialog'.destId = dialog.destId
          /\ dialog'.mixed <=> (dialog.mixed \/ dialog.src # Null \/ dialog.kind # Null)
      BY <2>1, <3>1 DEF DialogFields, Overwrites
    <3>3. hand[h].ref \in Sources
      BY <1>1, <1>12 DEF SimpleSource, HandOK
    <3>4. ASSUME ~dialog'.mixed
          PROVE  Meant(dialog')
      BY <1>1, <3>2, <3>3, <3>4, DeskAssumption DEF DialogOK, Meant
    <3>5. DialogOK'
      BY <3>2, <3>4 DEF DialogOK, Meant
    <3> QED BY <1>4, <1>12, <3>5 DEF SimpleSource, Then
  <2>2. CASE UNCHANGED dialog
    BY <1>4, <1>12, <2>2, SameDialog DEF SimpleSource, Then
  <2>3. CASE dialog' = NoDialog
    BY <1>4, <1>12, <2>3, NoDialogOK DEF SimpleSource, Then
  <2> QED BY <1>12, <2>1, <2>2, <2>3 DEF SimpleSource
<1>13. CASE SimpleDest(h)
  <2>1. CASE dialog' = [dialog EXCEPT !.dest = hand[h].ref, !.destId = ChatOf[hand[h].ref],
                                      !.at = "simple_title",
                                      !.mixed = dialog.mixed \/ dialog.dest # Null]
    <3>1. DOMAIN dialog = DialogFields
      BY <1>1 DEF DialogOK
    <3>2. /\ DOMAIN dialog' = DialogFields
          /\ dialog'.src = dialog.src /\ dialog'.kind = dialog.kind
          /\ dialog'.srcId = dialog.srcId /\ dialog'.dest = hand[h].ref
          /\ dialog'.destId = ChatOf[hand[h].ref]
          /\ dialog'.mixed <=> (dialog.mixed \/ dialog.dest # Null)
      BY <2>1, <3>1 DEF DialogFields
    <3>3. hand[h].ref \in Places
      BY <1>1, <1>13 DEF SimpleDest, HandOK
    <3>4. ASSUME ~dialog'.mixed
          PROVE  Meant(dialog')
      BY <1>1, <3>2, <3>3, <3>4, DeskAssumption DEF DialogOK, Meant
    <3>5. DialogOK'
      BY <3>2, <3>4 DEF DialogOK, Meant
    <3> QED BY <1>4, <1>13, <3>5 DEF SimpleDest, Then
  <2>2. CASE UNCHANGED dialog
    BY <1>4, <1>13, <2>2, SameDialog DEF SimpleDest, Then
  <2> QED BY <1>13, <2>1, <2>2 DEF SimpleDest
<1> QED
  BY <1>5, <1>6, <1>7, <1>8, <1>9, <1>10, <1>11, <1>12, <1>13

\* A new row has what it is made of.
LEMMA MadeRow ==
    ASSUME NEW kind, NEW mode, NEW src, NEW srcId, NEW dest, NEW destId, NEW clean, NEW asked
    PROVE  LET row == TaskRow(kind, mode, src, srcId, dest, destId, clean, asked)
           IN  /\ DOMAIN row = RowFields /\ row.kind = kind /\ row.src = src /\ row.srcId = srcId
               /\ row.dest = dest /\ row.destId = destId /\ row.extras = <<>> /\ ~row.torn
               /\ row.clean = clean /\ row.asked = asked /\ row.mode = mode
               /\ row.born = births + 1
BY DEF TaskRow, RowFields

\* got_title writes a row whose kind and ids fit, when its answers were meant together.
LEMMA TitleStep ==
    ASSUME DeskInv, NEW h \in Handlers, Title(h)
    PROVE  DeskInv'
<1>1. DialogOK /\ dialog' = NoDialog /\ tasks' = tasks /\ births' = births
  BY DEF Title, DeskInv
<1>2. DialogOK'
  BY <1>1, NoDialogOK
<1> DEFINE clean == ~dialog.mixed
           asked == dialog.asked
           simpleRow == TaskRow("telegram", "simple", dialog.src, dialog.srcId,
                                dialog.dest, dialog.destId, clean, asked)
           kind == IF dialog.kind = Null THEN "telegram" ELSE dialog.kind
           fullRow == TaskRow(kind, "full", dialog.src, Null, dialog.dest, Null, clean, asked)
<1>3. \/ hand' = [hand EXCEPT ![h] = Rest]
      \/ /\ Null \notin {dialog.src, dialog.dest, dialog.srcId, dialog.destId}
         /\ hand' = [hand EXCEPT ![h] = [op |-> "insert", row |-> simpleRow]]
      \/ /\ Null \notin {dialog.src, dialog.dest}
         /\ hand' = [hand EXCEPT ![h] = [op |-> "insert", row |-> fullRow]]
  <2> HIDE DEF simpleRow, fullRow
  <2>1. CASE hand[h].op = "simple_title"
    BY <2>1 DEF Title, Then, simpleRow
  <2>2. CASE hand[h].op # "simple_title"
    BY <2>2 DEF Title, Then, fullRow
  <2> QED BY <2>1, <2>2
<1>4. ASSUME NEW row, FreshRow(row), hand' = [hand EXCEPT ![h] = [op |-> "insert", row |-> row]]
      PROVE  DeskInv'
  <2>1. HandOK([op |-> "insert", row |-> row], tasks, births)
    BY <1>4 DEF HandOK
  <2> QED BY <1>1, <1>2, <1>4, <2>1, DeskStands
<1>5. CASE hand' = [hand EXCEPT ![h] = Rest]
  <2>1. HandOK(Rest, tasks, births)
    BY EasyHand DEF Rest
  <2> QED BY <1>1, <1>2, <1>5, <2>1, DeskStands
<1>6. ASSUME Null \notin {dialog.src, dialog.dest, dialog.srcId, dialog.destId}
      PROVE  FreshRow(simpleRow)
  <2>1. /\ DOMAIN simpleRow = RowFields /\ simpleRow.kind = "telegram" /\ simpleRow.src = dialog.src
        /\ simpleRow.srcId = dialog.srcId /\ simpleRow.dest = dialog.dest
        /\ simpleRow.destId = dialog.destId /\ simpleRow.extras = <<>> /\ ~simpleRow.torn
        /\ simpleRow.clean = clean
    BY MadeRow
  <2> HIDE DEF simpleRow
  <2>2. simpleRow.clean => ~dialog.mixed
    BY <2>1
  <2>3. ASSUME simpleRow.clean PROVE Fits(simpleRow)
    <3>1. Meant(dialog)
      BY <1>1, <2>2, <2>3 DEF DialogOK
    <3>2. dialog.src \in Sources /\ dialog.srcId \in {Null, ChatOf[dialog.src]}
          /\ dialog.destId \in {Null, ChatOf[dialog.dest]}
      BY <1>6, <3>1 DEF Meant
    <3>3. KindOf(dialog.src) = "telegram"
      BY <3>2, DeskAssumption DEF KindOf
    <3> QED BY <2>1, <3>2, <3>3 DEF Fits
  <2> QED BY <2>1, <2>3 DEF FreshRow
<1>7. ASSUME Null \notin {dialog.src, dialog.dest}
      PROVE  FreshRow(fullRow)
  <2>1. /\ DOMAIN fullRow = RowFields /\ fullRow.kind = kind /\ fullRow.src = dialog.src
        /\ fullRow.srcId = Null /\ fullRow.dest = dialog.dest
        /\ fullRow.destId = Null /\ fullRow.extras = <<>> /\ ~fullRow.torn
        /\ fullRow.clean = clean
    BY MadeRow
  <2> HIDE DEF fullRow
  <2>2. fullRow.clean => ~dialog.mixed
    BY <2>1
  <2>3. ASSUME fullRow.clean PROVE Fits(fullRow)
    <3>1. Meant(dialog)
      BY <1>1, <2>2, <2>3 DEF DialogOK
    <3>2. KindOf(dialog.src) = kind
      BY <1>7, <3>1, DeskAssumption DEF KindOf, Meant
    <3> QED BY <2>1, <3>2 DEF Fits
  <2> QED BY <2>1, <2>3 DEF FreshRow
<1> HIDE DEF simpleRow, fullRow
<1> QED BY <1>3, <1>4, <1>5, <1>6, <1>7

\* Other steps that leave the rows alone.
LEMMA QuietSteps ==
    ASSUME DeskInv, NEW h \in Handlers,
           \/ WebTask(h) \/ WebCount(h) \/ ChangeMode(h) \/ AskPlace(h) \/ OpenPlace(h)
           \/ GotPlace(h) \/ WebPlace(h) \/ CheckPlace(h)
    PROVE  DeskInv'
<1>1. /\ DialogOK /\ HandsOK /\ HandOK(hand[h], tasks, births) /\ births \in Nat
      /\ \A t \in DOMAIN tasks : RowOK(tasks[t], births)
  BY DEF DeskInv, HandsOK
<1>2. HandOK(Rest, tasks, births)
  BY EasyHand DEF Rest
<1>3. ASSUME NEW does, HandOK(does, tasks, births), hand' = [hand EXCEPT ![h] = does],
             dialog' = dialog, tasks' = tasks, births' = births
      PROVE  DeskInv'
  BY <1>3, SameDialog, DeskStands
<1>4. CASE WebTask(h)
  <2>1. PICK src \in FeedUrls \cup (Sources \cap Offered), dest \in Places \cap Offered :
          Begin(h, [op |-> "web_count",
                    row |-> TaskRow(KindOf(src), "full", src, Null, dest, Null, TRUE, TRUE)])
    BY <1>4 DEF WebTask
  <2> DEFINE row == TaskRow(KindOf(src), "full", src, Null, dest, Null, TRUE, TRUE)
  <2>2. /\ DOMAIN row = RowFields /\ row.kind = KindOf(src) /\ row.src = src /\ row.srcId = Null
        /\ row.dest = dest /\ row.destId = Null /\ row.extras = <<>> /\ ~row.torn
    BY DEF TaskRow, RowFields
  <2>3. hand' = [hand EXCEPT ![h] = [op |-> "web_count", row |-> row]]
    BY <2>1 DEF Begin
  <2> HIDE DEF row
  <2>4. HandOK([op |-> "web_count", row |-> row], tasks, births)
    BY <2>2 DEF HandOK, FreshRow, Fits
  <2> QED BY <1>3, <1>4, <2>3, <2>4 DEF WebTask
<1>5. CASE WebCount(h)
  <2>1. FreshRow(hand[h].row)
    BY <1>1, <1>5 DEF WebCount, HandOK
  <2>2. HandOK([op |-> "insert", row |-> hand[h].row, web |-> TRUE], tasks, births)
    BY <2>1 DEF HandOK
  <2> QED BY <1>2, <1>3, <1>5, <2>2 DEF WebCount, Then
<1>6. CASE ChangeMode(h)
  <2>1. PICK t \in DOMAIN tasks, mode \in {"full", "simple"} :
          Begin(h, [op |-> "mode", mode |-> mode, task |-> t, src |-> tasks[t].src,
                    born |-> tasks[t].born])
    BY <1>6 DEF ChangeMode
  <2> DEFINE does == [op |-> "mode", mode |-> mode, task |-> t, src |-> tasks[t].src,
                      born |-> tasks[t].born]
  <2>2. tasks[t].born \in 1 .. births
    BY <1>1 DEF RowOK
  <2>3. /\ does.op = "mode" /\ does.task = t /\ does.src = tasks[t].src
        /\ does.born = tasks[t].born /\ hand' = [hand EXCEPT ![h] = does]
    BY <2>1 DEF Begin
  <2> HIDE DEF does
  <2>4. HandOK(does, tasks, births)
    BY <2>2, <2>3 DEF HandOK
  <2> QED BY <1>3, <1>6, <2>3, <2>4 DEF ChangeMode
<1>7. CASE AskPlace(h)
  <2>1. PICK t \in DOMAIN tasks : Begin(h, [op |-> "open_dest", task |-> t])
    BY <1>7 DEF AskPlace
  <2>2. HandOK([op |-> "open_dest", task |-> t], tasks, births)
    BY EasyHand
  <2> QED BY <1>3, <1>7, <2>1, <2>2 DEF AskPlace, Begin
<1>8. CASE OpenPlace(h)
  <2>1. CASE dialog' = dialog
    BY <1>2, <1>3, <1>8, <2>1 DEF OpenPlace, Then
  <2>2. CASE dialog' = [dialog EXCEPT !.at = "dest_add", !.task = hand[h].task]
    <3>1. DialogOK'
      BY <1>1, <2>2 DEF DialogOK, DialogFields, Meant
    <3> QED BY <1>2, <1>8, <3>1, DeskStands DEF OpenPlace, Then
  <2> QED BY <1>8, <2>1, <2>2 DEF OpenPlace
<1>9. ASSUME NEW does, NEW t \in DOMAIN tasks, does.op = "place", does.task = t,
             does.ref \in Places, does.main = tasks[t], hand' = [hand EXCEPT ![h] = does],
             dialog' = dialog, tasks' = tasks, births' = births
      PROVE  DeskInv'
  <2>1. RowOK(tasks[t], births)
    BY <1>1
  <2>2. HandOK(does, tasks, births)
    BY <1>9, <2>1 DEF HandOK, RowOK
  <2> QED BY <1>3, <1>9, <2>2
<1>10. CASE GotPlace(h)
  <2>1. CASE dialog.task \in DOMAIN tasks
    <3> DEFINE does == [op |-> "place", task |-> dialog.task, ref |-> hand[h].ref,
                        main |-> tasks[dialog.task], web |-> FALSE]
    <3>1. hand' = [hand EXCEPT ![h] = does]
      BY <1>10, <2>1 DEF GotPlace, Then
    <3>2. /\ does.op = "place" /\ does.task = dialog.task /\ does.ref = hand[h].ref
          /\ does.main = tasks[dialog.task]
      OBVIOUS
    <3>3. hand[h].ref \in Places
      BY <1>1, <1>10 DEF GotPlace, HandOK
    <3> HIDE DEF does
    <3> QED BY <1>9, <1>10, <2>1, <3>1, <3>2, <3>3 DEF GotPlace
  <2>2. CASE dialog.task \notin DOMAIN tasks
    BY <1>2, <1>10, <2>2, NoDialogOK, DeskStands DEF GotPlace, Then
  <2> QED BY <2>1, <2>2
<1>11. CASE WebPlace(h)
  <2>1. PICK t \in DOMAIN tasks, ref \in Places :
          Begin(h, [op |-> "place", task |-> t, ref |-> ref, main |-> tasks[t], web |-> TRUE])
    BY <1>11 DEF WebPlace
  <2> DEFINE does == [op |-> "place", task |-> t, ref |-> ref, main |-> tasks[t], web |-> TRUE]
  <2>2. /\ does.op = "place" /\ does.task = t /\ does.ref = ref /\ does.main = tasks[t]
        /\ hand' = [hand EXCEPT ![h] = does]
    BY <2>1 DEF Begin
  <2> HIDE DEF does
  <2> QED BY <1>9, <1>11, <2>2 DEF WebPlace
<1>12. CASE CheckPlace(h)
  <2>1. CASE Then(h, Rest)
    BY <1>2, <1>3, <1>12, <2>1 DEF CheckPlace, Then
  <2> DEFINE others == Extras(hand[h].task)
  <2>2. CASE \E found \in {ChatOf[hand[h].ref], Null} :
               /\ ~Taken(hand[h].main, others, hand[h].ref, found)
               /\ Then(h, [op |-> "add", task |-> hand[h].task, ref |-> hand[h].ref,
                           chat |-> found, main |-> hand[h].main, others |-> others,
                           web |-> hand[h].web])
    <3> HIDE DEF others
    <3>1. PICK found \in {ChatOf[hand[h].ref], Null} :
               /\ ~Taken(hand[h].main, others, hand[h].ref, found)
               /\ Then(h, [op |-> "add", task |-> hand[h].task, ref |-> hand[h].ref,
                           chat |-> found, main |-> hand[h].main, others |-> others,
                           web |-> hand[h].web])
      BY <2>2
    <3> DEFINE does == [op |-> "add", task |-> hand[h].task, ref |-> hand[h].ref,
                        chat |-> found, main |-> hand[h].main, others |-> others,
                        web |-> hand[h].web]
    <3>2. /\ does.op = "add" /\ does.task = hand[h].task /\ does.ref = hand[h].ref
          /\ does.chat = found /\ does.main = hand[h].main /\ does.others = others
          /\ hand' = [hand EXCEPT ![h] = does]
      BY <3>1 DEF Then
    <3> HIDE DEF does
    <3>3. hand[h].op = "place"
      BY <1>12 DEF CheckPlace
    <3>4. HandOK(does, tasks, births)
      BY <1>1, <3>1, <3>2, <3>3 DEF HandOK
    <3> QED BY <1>3, <1>12, <3>2, <3>4 DEF CheckPlace
  <2> QED BY <1>12, <2>1, <2>2 DEF CheckPlace
<1> QED
  BY <1>4, <1>5, <1>6, <1>7, <1>8, <1>10, <1>11, <1>12

\* A row stays true when more rows are made.
LEMMA OlderRow ==
    ASSUME NEW row, NEW b \in Nat, NEW c \in Nat, b <= c, RowOK(row, b)
    PROVE  RowOK(row, c)
BY DEF RowOK

\* A row gets an id, which no coroutine means yet.
LEMMA InsertStep ==
    ASSUME DeskInv, NEW h \in Handlers, InsertTask(h)
    PROVE  DeskInv'
<1> DEFINE row == hand[h].row
           made == [hand[h].row EXCEPT !.born = births + 1]
           id == NewId
           asks == [op |-> "resolve", task |-> NewId, dest |-> hand[h].row.dest,
                    src |-> IF "web" \in DOMAIN hand[h] /\ hand[h].row.kind = "telegram"
                            THEN hand[h].row.src ELSE Null,
                    born |-> births + 1]
<1>1. /\ tasks' = [t \in DOMAIN tasks \cup {id} |-> IF t \in DOMAIN tasks THEN tasks[t] ELSE made]
      /\ births' = births + 1 /\ dialog' = dialog
      /\ hand' = [hand EXCEPT ![h] = IF row.mode = "simple" THEN Rest ELSE asks]
  BY DEF InsertTask, Then
<1>2. /\ FreshRow(row) /\ births \in Nat /\ births' \in Nat /\ births <= births'
      /\ \A t \in DOMAIN tasks : RowOK(tasks[t], births)
  BY <1>1 DEF InsertTask, DeskInv, HandsOK, HandOK
<1>3. /\ DOMAIN made = RowFields /\ made.born = births + 1 /\ made.extras = <<>>
      /\ made.kind = row.kind /\ made.src = row.src /\ made.srcId = row.srcId
      /\ made.dest = row.dest /\ made.destId = row.destId /\ made.clean = row.clean
      /\ made.torn = row.torn
  BY <1>2 DEF FreshRow, RowFields
<1>4. asks.op = "resolve" /\ asks.task = id /\ asks.dest = row.dest /\ asks.born = births + 1
      /\ asks.src \in {Null, row.src}
  OBVIOUS
<1> HIDE DEF row, made, id, asks
<1>5. RowOK(made, births')
  <2>1. made.extras \in Seq(Extra) /\ Len(made.extras) = 0
    BY <1>3
  <2>2. made.clean => Fits(made)
    BY <1>2, <1>3 DEF FreshRow, Fits
  <2> QED BY <1>1, <1>2, <1>3, <2>1, <2>2 DEF RowOK, Separate
<1>6. ASSUME NEW t \in DOMAIN tasks'
      PROVE  \/ t \in DOMAIN tasks /\ tasks'[t] = tasks[t]
             \/ t = id /\ tasks'[t] = made
  BY <1>1
<1>7. ASSUME NEW t \in DOMAIN tasks'
      PROVE  RowOK(tasks'[t], births') /\ StaysKnown(tasks, tasks', births, t)
  <2>1. CASE t \in DOMAIN tasks /\ tasks'[t] = tasks[t]
    BY <1>2, <2>1, OlderRow DEF StaysKnown
  <2>2. CASE tasks'[t] = made
    BY <1>2, <1>3, <1>5, <2>2 DEF StaysKnown
  <2> QED BY <1>6, <2>1, <2>2
<1>8. HandOK(Rest, tasks', births')
  BY EasyHand DEF Rest
<1>9. HandOK(asks, tasks', births')
  <2>1. ASSUME id \in DOMAIN tasks', tasks'[id].born = births + 1
        PROVE  tasks'[id] = made
    <3>1. CASE id \in DOMAIN tasks /\ tasks'[id] = tasks[id]
      <4>1. tasks[id].born \in 1 .. births
        BY <1>2, <3>1 DEF RowOK
      <4> QED BY <1>2, <2>1, <3>1, <4>1
    <3> QED BY <1>6, <2>1, <3>1
  <2> QED BY <1>1, <1>2, <1>3, <1>4, <2>1 DEF HandOK
<1>10. \E does : hand' = [hand EXCEPT ![h] = does] /\ HandOK(does, tasks', births')
  BY <1>1, <1>8, <1>9
<1>11. DialogOK'
  BY <1>1, SameDialog
<1> QED BY <1>2, <1>7, <1>10, <1>11, DeskGoesOn

\* A step that changes the ids of one row, knowing that row or making it unclean.
LEMMA IdsStep ==
    ASSUME DeskInv, NEW h \in Handlers, WriteIds(h) \/ WriteMode(h)
    PROVE  DeskInv'
<1>1. /\ births \in Nat /\ HandOK(hand[h], tasks, births)
      /\ \A t \in DOMAIN tasks : RowOK(tasks[t], births)
  BY DEF DeskInv, HandsOK
<1>2. /\ births' = births /\ dialog' = dialog /\ hand' = [hand EXCEPT ![h] = Rest]
  BY DEF WriteIds, WriteMode, Then
<1>3. DialogOK'
  BY <1>2, SameDialog
<1>4. \E does : hand' = [hand EXCEPT ![h] = does] /\ HandOK(does, tasks', births')
  <2>1. HandOK(Rest, tasks', births')
    BY EasyHand DEF Rest
  <2> QED BY <1>2, <2>1
<1>5. ASSUME tasks' = tasks
      PROVE  DeskInv'
  <2>1. HandOK(Rest, tasks, births)
    BY EasyHand DEF Rest
  <2> QED BY <1>2, <1>3, <1>5, <2>1, DeskStands
<1>6. ASSUME DOMAIN tasks' = DOMAIN tasks,
             \A t \in DOMAIN tasks : t # hand[h].task => tasks'[t] = tasks[t],
             hand[h].task \in DOMAIN tasks =>
                LET new == tasks'[hand[h].task]
                    old == tasks[hand[h].task]
                IN  /\ DOMAIN new = RowFields /\ new.born = old.born /\ new.kind = old.kind
                    /\ new.src = old.src /\ new.dest = old.dest /\ new.extras = old.extras
                    /\ new.torn = old.torn
                    /\ new.clean => old.clean /\ old.born = hand[h].born
                    /\ new.clean => new.srcId \in {Null, old.srcId, ChatOf[old.src]}
                    /\ new.clean => new.destId \in {Null, old.destId, ChatOf[old.dest]}
      PROVE  DeskInv'
  <2>1. ASSUME NEW t \in DOMAIN tasks'
        PROVE  RowOK(tasks'[t], births') /\ StaysKnown(tasks, tasks', births, t)
    <3>1. CASE t # hand[h].task
      BY <1>1, <1>2, <1>6, <2>1, <3>1 DEF StaysKnown
    <3>2. CASE t = hand[h].task
      <4> DEFINE new == tasks'[t]
                 old == tasks[t]
      <4>1. /\ DOMAIN new = RowFields /\ new.born = old.born /\ new.kind = old.kind
            /\ new.src = old.src /\ new.dest = old.dest /\ new.extras = old.extras
            /\ new.torn = old.torn /\ (new.clean => old.clean)
            /\ new.clean => new.srcId \in {Null, old.srcId, ChatOf[old.src]}
            /\ new.clean => new.destId \in {Null, old.destId, ChatOf[old.dest]}
        BY <1>6, <2>1, <3>2
      <4>2. RowOK(old, births) /\ t \in DOMAIN tasks
        BY <1>1, <1>6, <2>1
      <4>3. StaysKnown(tasks, tasks', births, t)
        BY <4>1, <4>2 DEF StaysKnown
      <4> HIDE DEF new, old
      <4>4. new.clean => Fits(new)
        BY <4>1, <4>2 DEF RowOK, Fits
      <4>5. RowOK(new, births)
        BY <4>1, <4>2, <4>4 DEF RowOK
      <4> QED BY <1>2, <4>3, <4>5 DEF new
    <3> QED BY <3>1, <3>2
  <2>2. births' \in Nat /\ births <= births'
    BY <1>1, <1>2
  <2> QED BY <1>3, <1>4, <2>1, <2>2, DeskGoesOn
<1>7. CASE WriteIds(h)
  <2>1. PICK dest \in {ChatOf[hand[h].dest], Null},
             src \in IF hand[h].src = Null THEN {Null} ELSE {ChatOf[hand[h].src], Null} :
           tasks' = [t \in DOMAIN tasks |->
                        IF t # hand[h].task THEN tasks[t]
                        ELSE [tasks[t] EXCEPT !.destId = IF dest = Null THEN @ ELSE dest,
                                              !.srcId = IF src = Null THEN @ ELSE src,
                                              !.clean = @ /\ tasks[t].born = hand[h].born]]
    BY <1>7 DEF WriteIds
  <2>2. ASSUME hand[h].task \in DOMAIN tasks
        PROVE  LET new == tasks'[hand[h].task]
                   old == tasks[hand[h].task]
               IN  /\ DOMAIN new = RowFields /\ new.born = old.born /\ new.kind = old.kind
                   /\ new.src = old.src /\ new.dest = old.dest /\ new.extras = old.extras
                   /\ new.torn = old.torn
                   /\ new.clean => old.clean /\ old.born = hand[h].born
                   /\ new.clean => new.srcId \in {Null, old.srcId, ChatOf[old.src]}
                   /\ new.clean => new.destId \in {Null, old.destId, ChatOf[old.dest]}
    <3> DEFINE new == tasks'[hand[h].task]
               old == tasks[hand[h].task]
               known == old.clean /\ old.born = hand[h].born
    <3>1. DOMAIN old = RowFields
      BY <1>1, <2>2 DEF RowOK
    <3>2. new = [old EXCEPT !.destId = IF dest = Null THEN old.destId ELSE dest,
                            !.srcId = IF src = Null THEN old.srcId ELSE src,
                            !.clean = old.clean /\ old.born = hand[h].born]
      BY <2>1, <2>2
    <3> HIDE DEF new, old
    <3>3. /\ DOMAIN new = RowFields /\ new.born = old.born /\ new.kind = old.kind
          /\ new.src = old.src /\ new.dest = old.dest /\ new.extras = old.extras
          /\ new.torn = old.torn
          /\ new.clean <=> (old.clean /\ old.born = hand[h].born)
          /\ new.srcId = IF src = Null THEN old.srcId ELSE src
          /\ new.destId = IF dest = Null THEN old.destId ELSE dest
      BY <3>1, <3>2 DEF RowFields
    <3>4. ASSUME old.born = hand[h].born
          PROVE  hand[h].dest = old.dest /\ hand[h].src \in {Null, old.src}
      BY <1>1, <1>7, <2>2, <3>4 DEF WriteIds, HandOK, old
    <3>5. ASSUME new.clean
          PROVE  /\ new.srcId \in {Null, old.srcId, ChatOf[old.src]}
                 /\ new.destId \in {Null, old.destId, ChatOf[old.dest]}
      BY <2>1, <3>3, <3>4, <3>5
    <3> QED BY <3>3, <3>5 DEF new, old
  <2>3. /\ DOMAIN tasks' = DOMAIN tasks
        /\ \A t \in DOMAIN tasks : t # hand[h].task => tasks'[t] = tasks[t]
    BY <2>1
  <2> QED BY <1>6, <2>2, <2>3
<1>8. CASE WriteMode(h)
  <2>1. CASE tasks' = tasks
    BY <1>5, <2>1
  <2>2. CASE tasks' = [t \in DOMAIN tasks |->
                 IF t # hand[h].task THEN tasks[t]
                 ELSE [tasks[t] EXCEPT !.mode = hand[h].mode,
                                       !.srcId = IF hand[h].mode = "full"
                                                 THEN ChatOf[hand[h].src] ELSE @,
                                       !.clean = @ /\ tasks[t].born = hand[h].born]]
             /\ (hand[h].mode = "full" => hand[h].src \in Sources)
    <3>1. ASSUME hand[h].task \in DOMAIN tasks
          PROVE  LET new == tasks'[hand[h].task]
                     old == tasks[hand[h].task]
                 IN  /\ DOMAIN new = RowFields /\ new.born = old.born /\ new.kind = old.kind
                     /\ new.src = old.src /\ new.dest = old.dest /\ new.extras = old.extras
                     /\ new.torn = old.torn
                     /\ new.clean => old.clean /\ old.born = hand[h].born
                     /\ new.clean => new.srcId \in {Null, old.srcId, ChatOf[old.src]}
                     /\ new.clean => new.destId \in {Null, old.destId, ChatOf[old.dest]}
      <4> DEFINE new == tasks'[hand[h].task]
                 old == tasks[hand[h].task]
      <4>1. DOMAIN old = RowFields
        BY <1>1, <3>1 DEF RowOK
      <4>2. new = [old EXCEPT !.mode = hand[h].mode,
                              !.srcId = IF hand[h].mode = "full"
                                        THEN ChatOf[hand[h].src] ELSE old.srcId,
                              !.clean = old.clean /\ old.born = hand[h].born]
        BY <2>2, <3>1
      <4> HIDE DEF new, old
      <4>3. /\ DOMAIN new = RowFields /\ new.born = old.born /\ new.kind = old.kind
            /\ new.src = old.src /\ new.dest = old.dest /\ new.extras = old.extras
            /\ new.torn = old.torn /\ new.destId = old.destId
            /\ new.clean <=> (old.clean /\ old.born = hand[h].born)
            /\ new.srcId = IF hand[h].mode = "full" THEN ChatOf[hand[h].src] ELSE old.srcId
        BY <4>1, <4>2 DEF RowFields
      <4>4. ASSUME old.born = hand[h].born
            PROVE  hand[h].src \in {Null, old.src}
        BY <1>1, <1>8, <3>1, <4>4 DEF WriteMode, HandOK, old
      <4>5. ASSUME new.clean
            PROVE  new.srcId \in {Null, old.srcId, ChatOf[old.src]}
        BY <2>2, <4>3, <4>4, <4>5, DeskAssumption
      <4> QED BY <4>3, <4>5 DEF new, old
    <3>2. /\ DOMAIN tasks' = DOMAIN tasks
          /\ \A t \in DOMAIN tasks : t # hand[h].task => tasks'[t] = tasks[t]
      BY <2>2
    <3> QED BY <1>6, <3>1, <3>2
  <2> QED BY <1>8, <2>1, <2>2 DEF WriteMode
<1> QED BY <1>7, <1>8

\* A place that was none of the others when they were read is none of them now, if nothing
\* about them has changed since.
LEMMA AddStep ==
    ASSUME DeskInv, NEW h \in Handlers, AddPlace(h)
    PROVE  DeskInv'
<1> DEFINE w == hand[h]
<1>1. /\ births \in Nat /\ HandOK(w, tasks, births) /\ w.op = "add" /\ DialogOK
      /\ \A t \in DOMAIN tasks : RowOK(tasks[t], births)
  BY DEF DeskInv, HandsOK, AddPlace
<1>2. /\ births' = births /\ hand' = [hand EXCEPT ![h] = Rest]
      /\ dialog' = dialog \/ dialog' = NoDialog
  BY DEF AddPlace, Then
<1>3. DialogOK'
  BY <1>2, SameDialog, NoDialogOK
<1>4. \E does : hand' = [hand EXCEPT ![h] = does] /\ HandOK(does, tasks', births')
  <2>1. HandOK(Rest, tasks', births')
    BY EasyHand DEF Rest
  <2> QED BY <1>2, <2>1
<1> DEFINE place == [ref |-> w.ref, chat |-> w.chat]
<1>5. tasks' = [t \in DOMAIN tasks |->
           IF t # w.task THEN tasks[t]
           ELSE [tasks[t] EXCEPT
                    !.extras = Append(@, place),
                    !.torn = @ \/ Null \in {w.chat, w.main.destId}
                               \/ tasks[t].extras # w.others
                               \/ tasks[t].born # w.main.born]]
  BY DEF AddPlace
<1>6. place.ref = w.ref /\ place.chat = w.chat /\ place \in Extra
  <2>1. w.ref \in Places /\ w.chat \in {ChatOf[w.ref], Null}
    BY <1>1 DEF HandOK
  <2> QED BY <2>1 DEF Extra, Chats
<1> HIDE DEF place
<1>7. ASSUME NEW t \in DOMAIN tasks'
      PROVE  RowOK(tasks'[t], births') /\ StaysKnown(tasks, tasks', births, t)
  <2>1. t \in DOMAIN tasks
    BY <1>5
  <2>2. CASE t # w.task
    BY <1>1, <1>2, <1>5, <2>1, <2>2 DEF StaysKnown
  <2>3. CASE t = w.task
    <3> DEFINE new == tasks'[t]
               old == tasks[t]
    <3>1. RowOK(old, births)
      BY <1>1, <2>1
    <3>2. new = [old EXCEPT !.extras = Append(old.extras, place),
                            !.torn = old.torn \/ Null \in {w.chat, w.main.destId}
                                     \/ old.extras # w.others \/ old.born # w.main.born]
      BY <1>5, <2>1, <2>3
    <3>3. old.born = w.main.born => /\ w.main.dest = old.dest
                                    /\ old.clean => w.main.clean
      BY <1>1, <2>1, <2>3 DEF HandOK
    <3> DEFINE some == Append(old.extras, place)
    <3>4. StaysKnown(tasks, tasks', births, t) <=> \/ /\ new.born = old.born /\ new.dest = old.dest
                                                      /\ new.src = old.src
                                                      /\ new.clean => old.clean
                                                   \/ new.born > births
      BY <2>1 DEF StaysKnown
    <3> HIDE DEF new, old
    <3>5. DOMAIN old = RowFields /\ old.extras \in Seq(Extra)
      BY <3>1 DEF RowOK
    <3>6. /\ DOMAIN new = RowFields /\ new.born = old.born /\ new.kind = old.kind
          /\ new.src = old.src /\ new.dest = old.dest /\ new.srcId = old.srcId
          /\ new.destId = old.destId /\ new.clean = old.clean
          /\ new.extras = some
          /\ new.torn <=> (old.torn \/ Null \in {w.chat, w.main.destId}
                           \/ old.extras # w.others \/ old.born # w.main.born)
      BY <3>2, <3>5 DEF RowFields
    <3>7. /\ some \in Seq(Extra) /\ Len(some) = Len(old.extras) + 1
          /\ some[Len(old.extras) + 1] = place /\ Len(old.extras) \in Nat
          /\ \A i \in 1 .. Len(old.extras) : some[i] = old.extras[i]
      BY <1>6, <3>5
    <3> HIDE DEF some
    <3>8. new.clean => Fits(new)
      BY <3>1, <3>6 DEF RowOK, Fits
    <3>9. ASSUME ~new.torn
          PROVE  /\ w.chat = ChatOf[w.ref] /\ w.main.destId # Null
                 /\ old.extras = w.others /\ old.born = w.main.born
                 /\ \A i \in 1 .. Len(old.extras) :
                       old.extras[i].chat = ChatOf[old.extras[i].ref]
      <4>1. w.chat \in {ChatOf[w.ref], Null}
        BY <1>1 DEF HandOK
      <4> QED BY <3>1, <3>6, <3>9, <4>1 DEF RowOK
    <3>10. ASSUME ~new.torn, NEW i \in 1 .. Len(some)
           PROVE  some[i].chat = ChatOf[some[i].ref]
      <4>1. i = Len(old.extras) + 1 \/ i \in 1 .. Len(old.extras)
        BY <3>7
      <4> QED BY <1>6, <3>7, <3>9, <3>10, <4>1
    <3>11. ASSUME ~new.torn, new.clean
           PROVE  Separate(new.dest, some)
      <4>1. Separate(old.dest, old.extras)
        BY <3>1, <3>6, <3>11 DEF RowOK
      <4>2. ~Taken(w.main, w.others, w.ref, w.chat) /\ (w.main.clean => Fits(w.main))
        BY <1>1 DEF HandOK
      <4>3. /\ w.chat # w.main.destId
            /\ \A i \in 1 .. Len(old.extras) : old.extras[i].chat # w.chat
        <5>1. DOMAIN w.others = 1 .. Len(old.extras)
          BY <3>5, <3>9, <3>11
        <5> QED BY <3>9, <3>11, <4>2, <5>1 DEF Taken
      <4>4. ChatOf[place.ref] # ChatOf[new.dest]
        <5>1. w.main.clean /\ w.main.dest = old.dest
          BY <3>3, <3>6, <3>9, <3>11
        <5>2. w.main.destId = ChatOf[old.dest]
          BY <3>9, <3>11, <4>2, <5>1 DEF Fits
        <5> QED BY <1>6, <3>6, <3>9, <3>11, <4>3, <5>2
      <4>5. \A i \in 1 .. Len(old.extras) : ChatOf[old.extras[i].ref] # ChatOf[place.ref]
        BY <1>6, <3>9, <3>11, <4>3
      <4>6. \A i \in 1 .. Len(some) : i = Len(old.extras) + 1 \/ i \in 1 .. Len(old.extras)
        BY <3>7
      <4>7. \A i \in 1 .. Len(some) : ChatOf[some[i].ref] # ChatOf[new.dest]
        BY <3>6, <3>7, <4>1, <4>4, <4>6 DEF Separate
      <4>8. \A i, j \in 1 .. Len(some) : i # j => ChatOf[some[i].ref] # ChatOf[some[j].ref]
        <5> SUFFICES ASSUME NEW i \in 1 .. Len(some), NEW j \in 1 .. Len(some), i # j
                     PROVE  ChatOf[some[i].ref] # ChatOf[some[j].ref]
          OBVIOUS
        <5>1. CASE i \in 1 .. Len(old.extras) /\ j \in 1 .. Len(old.extras)
          <6>1. some[i] = old.extras[i] /\ some[j] = old.extras[j]
            BY <3>7, <5>1
          <6> QED BY <4>1, <5>1, <6>1 DEF Separate
        <5>2. CASE i = Len(old.extras) + 1
          <6>1. j \in 1 .. Len(old.extras) /\ some[i] = place
            BY <3>7, <4>6, <5>2
          <6>2. some[j] = old.extras[j]
            BY <3>7, <6>1
          <6> QED BY <4>5, <6>1, <6>2
        <5>3. CASE j = Len(old.extras) + 1
          <6>1. i \in 1 .. Len(old.extras) /\ some[j] = place
            BY <3>7, <4>6, <5>3
          <6>2. some[i] = old.extras[i]
            BY <3>7, <6>1
          <6> QED BY <4>5, <6>1, <6>2
        <5> QED BY <4>6, <5>1, <5>2, <5>3
      <4> QED BY <4>7, <4>8 DEF Separate
    <3>12. RowOK(new, births)
      BY <3>1, <3>6, <3>7, <3>8, <3>10, <3>11 DEF RowOK
    <3>13. StaysKnown(tasks, tasks', births, t)
      BY <3>4, <3>6
    <3> QED BY <1>2, <3>12, <3>13 DEF new
  <2> QED BY <2>2, <2>3
<1>8. births' \in Nat /\ births <= births'
  BY <1>1, <1>2
<1> QED BY <1>3, <1>4, <1>7, <1>8, DeskGoesOn

\* What is left of a list when one of it is taken out.
LEMMA OneLess ==
    ASSUME NEW S, NEW s \in Seq(S), NEW i \in 1 .. Len(s)
    PROVE  LET r == SubSeq(s, 1, i - 1) \o SubSeq(s, i + 1, Len(s))
           IN  /\ r \in Seq(S) /\ Len(r) = Len(s) - 1
               /\ \A k \in 1 .. Len(r) : r[k] = s[IF k < i THEN k ELSE k + 1]
<1> DEFINE a == SubSeq(s, 1, i - 1)
           b == SubSeq(s, i + 1, Len(s))
<1>1. /\ a \in Seq(S) /\ Len(a) = i - 1 /\ \A k \in 1 .. Len(a) : a[k] = s[k]
      /\ b \in Seq(S) /\ Len(b) = Len(s) - i /\ \A k \in 1 .. Len(b) : b[k] = s[k + i]
  OBVIOUS
<1> HIDE DEF a, b
<1>2. /\ a \o b \in Seq(S) /\ Len(a \o b) = Len(s) - 1
      /\ \A k \in 1 .. Len(s) - 1 : (a \o b)[k] = IF k <= Len(a) THEN a[k] ELSE b[k - Len(a)]
  <2>1. a \in Seq(S) /\ b \in Seq(S)
    BY <1>1
  <2>2. /\ a \o b \in Seq(S) /\ Len(a \o b) = Len(a) + Len(b)
        /\ \A k \in 1 .. Len(a) + Len(b) : (a \o b)[k] = IF k <= Len(a) THEN a[k] ELSE b[k - Len(a)]
    BY <2>1
  <2>3. Len(a) + Len(b) = Len(s) - 1
    BY <1>1
  <2> QED BY <2>2, <2>3
<1>3. ASSUME NEW k \in 1 .. Len(s) - 1
      PROVE  (a \o b)[k] = s[IF k < i THEN k ELSE k + 1]
  <2>1. CASE k < i
    BY <1>1, <1>2, <2>1
  <2>2. CASE ~(k < i)
    <3>1. k - Len(a) \in 1 .. Len(b) /\ (k - Len(a)) + i = k + 1 /\ ~(k <= Len(a))
      BY <1>1, <2>2
    <3> QED BY <1>1, <1>2, <2>2, <3>1
  <2> QED BY <2>1, <2>2
<1> QED BY <1>2, <1>3 DEF a, b

\* Removing one of the others leaves the rest apart.
LEMMA DropStep ==
    ASSUME DeskInv, DropPlace
    PROVE  DeskInv'
<1>1. births \in Nat /\ \A t \in DOMAIN tasks : RowOK(tasks[t], births)
  BY DEF DeskInv
<1>9. PICK u \in DOMAIN tasks : \E i \in DOMAIN tasks[u].extras :
        tasks' = [tasks EXCEPT ![u].extras =
                     SubSeq(tasks[u].extras, 1, i - 1)
                        \o SubSeq(tasks[u].extras, i + 1, Len(tasks[u].extras))]
  BY DEF DropPlace
<1>2. PICK i \in DOMAIN tasks[u].extras :
        tasks' = [tasks EXCEPT ![u].extras =
                     SubSeq(tasks[u].extras, 1, i - 1)
                        \o SubSeq(tasks[u].extras, i + 1, Len(tasks[u].extras))]
  BY <1>9
<1>3. dialog' = dialog /\ hand' = hand /\ births' = births
  BY DEF DropPlace
<1> DEFINE s == tasks[u].extras
           r == SubSeq(s, 1, i - 1) \o SubSeq(s, i + 1, Len(s))
<1>4. s \in Seq(Extra) /\ i \in 1 .. Len(s) /\ Len(s) \in Nat
  <2>1. s \in Seq(Extra)
    BY <1>1, <1>2 DEF RowOK
  <2> QED BY <1>2, <2>1
<1>5. DOMAIN tasks' = DOMAIN tasks /\ (\A t \in DOMAIN tasks : t # u => tasks'[t] = tasks[t])
      /\ tasks'[u] = [tasks[u] EXCEPT !.extras = r]
  BY <1>2
<1> HIDE DEF s
<1>6. /\ r \in Seq(Extra) /\ Len(r) = Len(s) - 1
      /\ \A k \in 1 .. Len(r) : r[k] = s[IF k < i THEN k ELSE k + 1]
  BY <1>4, OneLess
<1> HIDE DEF r
<1>7. ASSUME NEW t \in DOMAIN tasks'
      PROVE  RowOK(tasks'[t], births') /\ StaysKnown(tasks, tasks', births, t)
  <2>1. CASE t # u
    BY <1>1, <1>3, <1>5, <2>1 DEF StaysKnown
  <2>2. CASE t = u
    <3> DEFINE new == tasks'[u]
               old == tasks[u]
    <3>1. RowOK(old, births)
      BY <1>1, <1>2
    <3>2. DOMAIN old = RowFields
      BY <3>1 DEF RowOK
    <3>3. /\ DOMAIN new = RowFields /\ new.born = old.born /\ new.kind = old.kind
          /\ new.src = old.src /\ new.dest = old.dest /\ new.srcId = old.srcId
          /\ new.destId = old.destId /\ new.clean = old.clean /\ new.torn = old.torn
          /\ new.extras = r
      BY <1>5, <3>2 DEF RowFields
    <3>4. StaysKnown(tasks, tasks', births, t)
      BY <1>2, <2>2, <3>3 DEF StaysKnown
    <3>5. old.extras = s
      BY DEF s
    <3> HIDE DEF new, old
    <3> DEFINE at(k) == IF k < i THEN k ELSE k + 1
    <3>6. /\ \A k \in 1 .. Len(r) : at(k) \in 1 .. Len(s) /\ r[k] = s[at(k)]
          /\ \A j, k \in 1 .. Len(r) : j # k => at(j) # at(k)
      BY <1>4, <1>6
    <3> HIDE DEF at
    <3>7. new.clean => Fits(new)
      BY <3>1, <3>3 DEF RowOK, Fits
    <3>8. ~new.torn => \A k \in 1 .. Len(r) : r[k].chat = ChatOf[r[k].ref]
      BY <3>1, <3>3, <3>5, <3>6 DEF RowOK
    <3>9. new.clean /\ ~new.torn => Separate(new.dest, r)
      BY <3>1, <3>3, <3>5, <3>6, SMTT(30) DEF RowOK, Separate
    <3>10. RowOK(new, births)
      BY <1>6, <3>1, <3>3, <3>7, <3>8, <3>9 DEF RowOK
    <3> QED BY <1>3, <2>2, <3>4, <3>10 DEF new
  <2> QED BY <2>1, <2>2
<1>8. births' \in Nat /\ births <= births' /\ DialogOK'
  BY <1>1, <1>3, SameDialog
<1> QED BY <1>3, <1>7, <1>8, DeskGoesOn

\* Every step keeps what is believed of the rows.
LEMMA DeskIsKept ==
    ASSUME DeskInv, [DeskNext]_desk
    PROVE  DeskInv'
<1>1. CASE UNCHANGED desk
  <2>1. tasks' = tasks /\ births' = births /\ dialog' = dialog /\ hand' = hand
    BY <1>1 DEF desk
  <2> QED BY <2>1, SameDialog, DeskStands
<1>2. CASE Cancel
  BY <1>2, NoDialogOK, DeskStands DEF Cancel
<1>3. CASE DeleteTask
  <2>1. PICK u \in DOMAIN tasks : tasks' = [t \in DOMAIN tasks \ {u} |-> tasks[t]]
    BY <1>3 DEF DeleteTask
  <2>2. dialog' = dialog /\ hand' = hand /\ births' = births
    BY <1>3 DEF DeleteTask
  <2>3. \A t \in DOMAIN tasks' : RowOK(tasks'[t], births') /\ StaysKnown(tasks, tasks', births, t)
    BY <2>1, <2>2 DEF DeskInv, StaysKnown
  <2>4. births' \in Nat /\ births <= births' /\ DialogOK'
    BY <2>2, SameDialog DEF DeskInv
  <2> QED BY <2>2, <2>3, <2>4, DeskGoesOn
<1>4. CASE DropPlace
  BY <1>4, DropStep
<1>5. ASSUME NEW h \in Handlers,
             \/ NewTask(h) \/ OpenTask(h) \/ Reply(h) \/ Picked(h) \/ AcceptSource(h)
             \/ AcceptFeed(h) \/ AcceptDest(h) \/ SimpleSource(h) \/ SimpleDest(h)
      PROVE  DeskInv'
  BY <1>5, DialogSteps
<1>6. ASSUME NEW h \in Handlers,
             \/ WebTask(h) \/ WebCount(h) \/ ChangeMode(h) \/ AskPlace(h) \/ OpenPlace(h)
             \/ GotPlace(h) \/ WebPlace(h) \/ CheckPlace(h)
      PROVE  DeskInv'
  BY <1>6, QuietSteps
<1>7. ASSUME NEW h \in Handlers,
             Title(h) \/ InsertTask(h) \/ WriteIds(h) \/ WriteMode(h) \/ AddPlace(h)
      PROVE  DeskInv'
  BY <1>7, TitleStep, InsertStep, IdsStep, AddStep
<1> QED BY <1>1, <1>2, <1>3, <1>4, <1>5, <1>6, <1>7 DEF DeskNext

\* A customer starts with nothing, or with a row that fits.
LEMMA DeskBegins ==
    ASSUME DeskInit
    PROVE  DeskInv
<1>1. births = 1 /\ births \in Nat /\ dialog = NoDialog /\ hand = [h \in Handlers |-> Rest]
  BY DEF DeskInit
<1>2. DialogOK
  BY <1>1 DEF NoDialog, DialogOK, DialogFields, Meant
<1>3. HandsOK
  BY <1>1, EasyHand DEF HandsOK, Rest
<1> DEFINE row == [TaskRow("telegram", "full", FirstSource, ChatOf[FirstSource],
                           FirstPlace, ChatOf[FirstPlace], TRUE, TRUE) EXCEPT !.born = 1]
<1>4. RowOK(row, births)
  <2>1. /\ DOMAIN row = RowFields /\ row.kind = "telegram" /\ row.src = FirstSource
        /\ row.srcId = ChatOf[FirstSource] /\ row.dest = FirstPlace
        /\ row.destId = ChatOf[FirstPlace] /\ row.extras = <<>> /\ row.born = 1
    BY DEF TaskRow, RowFields
  <2> HIDE DEF row
  <2>2. row.extras \in Seq(Extra) /\ Len(row.extras) = 0
    BY <2>1
  <2>3. Fits(row)
    BY <2>1, DeskAssumption DEF Fits, KindOf
  <2> QED BY <1>1, <2>1, <2>2, <2>3 DEF RowOK, Separate
<1>5. \A t \in DOMAIN tasks : RowOK(tasks[t], births)
  <2>1. CASE tasks = <<>>
    BY <2>1
  <2>2. CASE tasks = <<row>>
    <3> HIDE DEF row
    <3> QED BY <1>4, <2>2
  <2> HIDE DEF row
  <2> QED BY <2>1, <2>2 DEF DeskInit, row
<1> QED BY <1>1, <1>2, <1>3, <1>5 DEF DeskInv

\* A row whose ghosts say that nothing came between has a place of its own for each name,
\* and kind and ids that fit.
LEMMA DeskSays ==
    ASSUME DeskInv
    PROVE  PlacesApart /\ IdsFit
<1>1. ASSUME NEW t \in DOMAIN tasks
      PROVE  RowOK(tasks[t], births)
  BY DEF DeskInv
<1>2. IdsFit
  BY <1>1 DEF IdsFit, RowOK, Fits
<1>3. ASSUME NEW t \in DOMAIN tasks, tasks[t].clean /\ ~tasks[t].torn,
             NEW i \in 0 .. Len(tasks[t].extras), NEW j \in 0 .. Len(tasks[t].extras), i # j
      PROVE  (IF i = 0 THEN ChatOf[tasks[t].dest] ELSE ChatOf[tasks[t].extras[i].ref])
                # (IF j = 0 THEN ChatOf[tasks[t].dest] ELSE ChatOf[tasks[t].extras[j].ref])
  <2>1. Separate(tasks[t].dest, tasks[t].extras) /\ tasks[t].extras \in Seq(Extra)
    BY <1>1, <1>3 DEF RowOK
  <2>2. Len(tasks[t].extras) \in Nat
    BY <2>1
  <2> QED BY <1>3, <2>1, <2>2 DEF Separate
<1>4. PlacesApart
  BY <1>3 DEF PlacesApart
<1> QED BY <1>2, <1>4

\* Sets of coroutines are no larger than the set of all.
LEMMA Crowd ==
    ASSUME NEW S, S \subseteq Handlers
    PROVE  /\ IsFiniteSet(S) /\ Cardinality(S) \in Nat /\ Cardinality(Handlers) \in Nat
           /\ Cardinality(S) <= Cardinality(Handlers)
           /\ \A T : T \subseteq S => Cardinality(T) <= Cardinality(S)
           /\ \A h \in Handlers : h \notin S => Cardinality(S) < Cardinality(Handlers)
           /\ \A h : h \in S => Cardinality(S \ {h}) = Cardinality(S) - 1
           /\ \A h : Cardinality(S \cup {h}) <= Cardinality(S) + 1
<1>1. IsFiniteSet(Handlers) /\ IsFiniteSet(S)
  BY FS_Subset, DeskAssumption
<1>2. /\ Cardinality(S) \in Nat /\ Cardinality(Handlers) \in Nat
      /\ Cardinality(S) <= Cardinality(Handlers)
      /\ \A T : T \subseteq S => Cardinality(T) <= Cardinality(S)
  BY <1>1, FS_Subset, FS_CardinalityType
<1>3. ASSUME NEW h \in Handlers, h \notin S
      PROVE  Cardinality(S) < Cardinality(Handlers)
  <2>1. S \subseteq Handlers \ {h} /\ IsFiniteSet(Handlers \ {h})
    BY <1>1, <1>3, FS_RemoveElement
  <2>2. Cardinality(S) <= Cardinality(Handlers \ {h})
    BY <2>1, FS_Subset
  <2>3. Cardinality(Handlers \ {h}) = Cardinality(Handlers) - 1
    BY <1>1, <1>3, FS_RemoveElement
  <2> QED BY <1>2, <2>2, <2>3
<1>4. ASSUME NEW h
      PROVE  /\ h \in S => Cardinality(S \ {h}) = Cardinality(S) - 1
             /\ Cardinality(S \cup {h}) <= Cardinality(S) + 1
  <2>1. h \in S => Cardinality(S \ {h}) = Cardinality(S) - 1
    BY <1>1, FS_RemoveElement
  <2>2. Cardinality(S \cup {h}) = IF h \in S THEN Cardinality(S) ELSE Cardinality(S) + 1
    BY <1>1, FS_AddElement
  <2> QED BY <1>2, <2>1, <2>2
<1> QED BY <1>1, <1>2, <1>3, <1>4

\* The others of a task are a sequence, empty when it is gone.
LEMMA ExtrasLength ==
    ASSUME DeskInv, NEW t
    PROVE  Extras(t) \in Seq(Extra) /\ Len(Extras(t)) \in Nat
<1>1. CASE t \in DOMAIN tasks
  BY <1>1 DEF Extras, DeskInv, RowOK
<1>2. CASE t \notin DOMAIN tasks
  BY <1>2 DEF Extras
<1>3. Extras(t) \in Seq(Extra)
  BY <1>1, <1>2
<1> QED BY <1>3

\* The same, after a step.
LEMMA ExtrasLengthAfter ==
    ASSUME DeskInv', NEW t
    PROVE  Extras(t)' \in Seq(Extra) /\ Len(Extras(t)') \in Nat
<1>1. CASE t \in DOMAIN tasks'
  BY <1>1 DEF Extras, DeskInv, RowOK
<1>2. CASE t \notin DOMAIN tasks'
  BY <1>2 DEF Extras
<1>3. Extras(t)' \in Seq(Extra)
  BY <1>1, <1>2
<1> QED BY <1>3

\* A coroutine that turns to something else than a row or a place.
LEMMA HandsLeave ==
    ASSUME HandsOK, NEW h \in Handlers, NEW does, hand' = [hand EXCEPT ![h] = does],
           does.op \notin {"insert", "place", "add"}
    PROVE  /\ AskedRows' \subseteq AskedRows \ {h}
           /\ \A t : WebAdds(t)' \subseteq WebAdds(t) \ {h} /\ BotAdds(t)' \subseteq BotAdds(t) \ {h}
<1>1. DOMAIN hand = Handlers /\ hand'[h] = does /\ \A g \in Handlers : g # h => hand'[g] = hand[g]
  BY DEF HandsOK
<1>2. AskedRows' \subseteq AskedRows \ {h}
  BY <1>1 DEF AskedRows
<1>3. \A t : WebAdds(t)' \subseteq WebAdds(t) \ {h} /\ BotAdds(t)' \subseteq BotAdds(t) \ {h}
  BY <1>1 DEF WebAdds, BotAdds
<1> QED BY <1>2, <1>3

\* Fewer tasks that were asked about.
LEMMA AskedStands ==
    ASSUME AskedInv, IsFiniteSet(DOMAIN tasks), AskedTasks' \subseteq AskedTasks,
           AskedRows' \subseteq AskedRows, dialog'.asked => dialog.asked
    PROVE  AskedInv'
<1>1. IsFiniteSet(AskedTasks)
  BY FS_Subset DEF AskedTasks
<1>2. /\ Cardinality(AskedTasks') <= Cardinality(AskedTasks)
      /\ Cardinality(AskedTasks') \in Nat /\ Cardinality(AskedTasks) \in Nat
  BY <1>1, FS_Subset, FS_CardinalityType
<1>3. AskedRows \subseteq Handlers
  BY DEF AskedRows
<1>4. /\ Cardinality(AskedRows') <= Cardinality(AskedRows)
      /\ Cardinality(AskedRows') \in Nat /\ Cardinality(AskedRows) \in Nat
      /\ Cardinality(Handlers) \in Nat
  BY <1>3, Crowd
<1>5. AskedDialog' <= AskedDialog /\ AskedDialog \in 0 .. 1 /\ AskedDialog' \in 0 .. 1
  BY DEF AskedDialog
<1>6. TaskLimit \in Nat
  BY DeskAssumption
<1>7. Cardinality(AskedTasks') + Cardinality(AskedRows') + AskedDialog'
         <= TaskLimit + Cardinality(Handlers)
  BY <1>2, <1>4, <1>5, <1>6 DEF AskedInv
<1> QED BY <1>7 DEF AskedInv

\* Fewer places of a task, or as many.
LEMMA PlaceStands ==
    ASSUME DeskInv, DeskInv', PlacesInv, NEW t \in Nat \ {0}, dialog'.task = t => dialog.task = t,
           Len(Extras(t)') <= Len(Extras(t)),
           WebAdds(t)' \subseteq WebAdds(t), BotAdds(t)' \subseteq BotAdds(t)
    PROVE  PlaceRoom(t)'
<1>1. WebAdds(t) \subseteq Handlers /\ BotAdds(t) \subseteq Handlers
  BY DEF WebAdds, BotAdds
<1>2. /\ Cardinality(WebAdds(t)') <= Cardinality(WebAdds(t))
      /\ Cardinality(WebAdds(t)') \in Nat /\ Cardinality(WebAdds(t)) \in Nat
      /\ Cardinality(Handlers) \in Nat
  BY <1>1, Crowd
<1>3. /\ Cardinality(BotAdds(t)') <= Cardinality(BotAdds(t))
      /\ Cardinality(BotAdds(t)') \in Nat /\ Cardinality(BotAdds(t)) \in Nat
  BY <1>1, Crowd
<1>4. Len(Extras(t)) \in Nat /\ Len(Extras(t)') \in Nat
  BY ExtrasLength, ExtrasLengthAfter
<1>5. ExtraLimit \in Nat
  BY DeskAssumption
<1> DEFINE e == Len(Extras(t))
           ee == Len(Extras(t)')
           w == Cardinality(WebAdds(t))
           ww == Cardinality(WebAdds(t)')
           b == Cardinality(BotAdds(t))
           bb == Cardinality(BotAdds(t)')
           n == Cardinality(Handlers)
<1>6. e \in Nat /\ ee \in Nat /\ w \in Nat /\ ww \in Nat /\ b \in Nat /\ bb \in Nat /\ n \in Nat
      /\ ee <= e /\ ww <= w /\ bb <= b
  BY <1>2, <1>3, <1>4
<1>7. (dialog.task = t => e + w < ExtraLimit + n) /\ e + w + b < ExtraLimit + 2 * n
  BY DEF PlacesInv, PlaceRoom
<1> HIDE DEF e, ee, w, ww, b, bb, n
<1>8. (dialog'.task = t => ee + ww < ExtraLimit + n) /\ ee + ww + bb < ExtraLimit + 2 * n
  BY <1>5, <1>6, <1>7
<1> QED BY <1>8 DEF ee, ww, bb, n, PlaceRoom

\* Fewer places, or as many.
LEMMA PlacesStand ==
    ASSUME DeskInv, DeskInv', PlacesInv, dialog'.task \in {0, dialog.task},
           \A t \in Nat \ {0} : /\ Len(Extras(t)') <= Len(Extras(t))
                                /\ WebAdds(t)' \subseteq WebAdds(t)
                                /\ BotAdds(t)' \subseteq BotAdds(t)
    PROVE  PlacesInv'
<1>1. ASSUME NEW t \in Nat \ {0}
      PROVE  PlaceRoom(t)'
  BY PlaceStands
<1> QED BY <1>1 DEF PlacesInv

\* A step that makes no task and no place, and is about to make none.
LEMMA RoomStands ==
    ASSUME DeskInv, DeskInv', RoomInv, DOMAIN tasks' \subseteq DOMAIN tasks,
           \A t \in DOMAIN tasks' : /\ tasks'[t].asked => tasks[t].asked
                                    /\ Len(tasks'[t].extras) <= Len(tasks[t].extras),
           dialog'.asked => dialog.asked, dialog'.task \in {0, dialog.task},
           \/ hand' = hand
           \/ \E h \in Handlers : \E does :
                 hand' = [hand EXCEPT ![h] = does] /\ does.op \notin {"insert", "place", "add"}
    PROVE  RoomInv'
<1>1. HandsOK
  BY DEF DeskInv
<1>2. /\ AskedRows' \subseteq AskedRows
      /\ \A t : WebAdds(t)' \subseteq WebAdds(t) /\ BotAdds(t)' \subseteq BotAdds(t)
  <2>1. CASE hand' = hand
    BY <2>1 DEF AskedRows, WebAdds, BotAdds
  <2>2. ASSUME NEW h \in Handlers, NEW does, hand' = [hand EXCEPT ![h] = does],
               does.op \notin {"insert", "place", "add"}
        PROVE  /\ AskedRows' \subseteq AskedRows
               /\ \A t : WebAdds(t)' \subseteq WebAdds(t) /\ BotAdds(t)' \subseteq BotAdds(t)
    <3>1. /\ AskedRows' \subseteq AskedRows \ {h}
          /\ \A t : /\ WebAdds(t)' \subseteq WebAdds(t) \ {h}
                    /\ BotAdds(t)' \subseteq BotAdds(t) \ {h}
      BY <1>1, <2>2, HandsLeave
    <3> QED BY <3>1
  <2> QED BY <2>1, <2>2
<1>3. AskedTasks' \subseteq AskedTasks
  BY DEF AskedTasks
<1>4. AskedInv'
  BY <1>2, <1>3, AskedStands DEF RoomInv
<1>5. ASSUME NEW t \in Nat \ {0}
      PROVE  Len(Extras(t)') <= Len(Extras(t))
  <2>1. CASE t \in DOMAIN tasks'
    BY <2>1 DEF Extras
  <2>2. CASE t \notin DOMAIN tasks'
    <3>1. Len(Extras(t)') = 0
      BY <2>2 DEF Extras
    <3>2. Len(Extras(t)) \in Nat
      BY ExtrasLength
    <3> QED BY <3>1, <3>2
  <2> QED BY <2>1, <2>2
<1>6. PlacesInv'
  BY <1>2, <1>5, PlacesStand DEF RoomInv
<1>7. IsFiniteSet(DOMAIN tasks') /\ DOMAIN tasks' \subseteq Nat \ {0}
  BY FS_Subset DEF RoomInv
<1> QED BY <1>4, <1>6, <1>7 DEF RoomInv

\* The same, when the rows are left alone.
LEMMA QuietRoom ==
    ASSUME DeskInv, DeskInv', RoomInv, tasks' = tasks,
           dialog'.asked => dialog.asked, dialog'.task \in {0, dialog.task},
           \/ hand' = hand
           \/ \E h \in Handlers : \E does :
                 hand' = [hand EXCEPT ![h] = does] /\ does.op \notin {"insert", "place", "add"}
    PROVE  RoomInv'
<1>1. \A t \in DOMAIN tasks : Len(tasks[t].extras) \in Nat
  BY DEF DeskInv, RowOK
<1>2. /\ DOMAIN tasks' \subseteq DOMAIN tasks
      /\ \A t \in DOMAIN tasks' : /\ tasks'[t].asked => tasks[t].asked
                                  /\ Len(tasks'[t].extras) <= Len(tasks[t].extras)
  BY <1>1
<1> QED BY <1>2, RoomStands

\* A dialogue opens, after the tasks were counted.
LEMMA OpenRoom ==
    ASSUME DeskInv, DeskInv', RoomInv, NEW h \in Handlers, OpenTask(h)
    PROVE  RoomInv'
<1>1. /\ tasks' = tasks /\ hand' = [hand EXCEPT ![h] = Rest]
      /\ Rest.op \notin {"insert", "place", "add"}
  BY DEF OpenTask, Then, Rest
<1>2. CASE dialog' = dialog
  BY <1>1, <1>2, QuietRoom
<1>3. CASE /\ TaskRoom
           /\ dialog' = [dialog EXCEPT !.at = hand[h].way, !.asked = TRUE,
                              !.mixed = dialog.mixed \/ dialog.src # Null \/ dialog.kind # Null]
  <2>1. dialog'.task = dialog.task
    BY <1>3 DEF DeskInv, DialogOK, DialogFields
  <2>2. /\ AskedRows' \subseteq AskedRows \ {h}
        /\ \A t : /\ WebAdds(t)' \subseteq WebAdds(t) \ {h}
                  /\ BotAdds(t)' \subseteq BotAdds(t) \ {h}
    BY <1>1, HandsLeave DEF DeskInv
  <2>3. \A t \in Nat \ {0} : Len(Extras(t)') <= Len(Extras(t))
    <3>1. \A t \in Nat \ {0} : Len(Extras(t)) \in Nat
      BY ExtrasLength
    <3>2. \A t : Extras(t)' = Extras(t)
      BY <1>1 DEF Extras
    <3> QED BY <3>1, <3>2
  <2>4. PlacesInv'
    BY <2>1, <2>2, <2>3, PlacesStand DEF RoomInv
  <2>5. IsFiniteSet(DOMAIN tasks) /\ AskedTasks' \subseteq DOMAIN tasks
    BY <1>1 DEF RoomInv, AskedTasks
  <2>6. /\ Cardinality(AskedTasks') <= Cardinality(DOMAIN tasks)
        /\ Cardinality(AskedTasks') \in Nat /\ Cardinality(DOMAIN tasks) \in Nat
    BY <2>5, FS_Subset, FS_CardinalityType
  <2>7. AskedRows' \subseteq Handlers /\ h \notin AskedRows'
    BY <2>2 DEF AskedRows
  <2>8. /\ Cardinality(AskedRows') < Cardinality(Handlers)
        /\ Cardinality(AskedRows') \in Nat /\ Cardinality(Handlers) \in Nat
    BY <2>7, Crowd
  <2>9. AskedDialog' \in 0 .. 1 /\ TaskLimit \in Nat /\ Cardinality(DOMAIN tasks) < TaskLimit
    BY <1>3, DeskAssumption DEF AskedDialog, TaskRoom
  <2>10. AskedInv'
    <3>1. Cardinality(AskedTasks') + Cardinality(AskedRows') + AskedDialog'
             <= TaskLimit + Cardinality(Handlers)
      BY <2>6, <2>8, <2>9
    <3> QED BY <3>1 DEF AskedInv
  <2> QED BY <1>1, <2>4, <2>10 DEF RoomInv
<1> QED BY <1>2, <1>3 DEF OpenTask

\* A step that holds the rows and the dialogue, and lets its coroutine write a row.
LEMMA RowHand ==
    ASSUME HandsOK, NEW h \in Handlers, NEW does, hand' = [hand EXCEPT ![h] = does],
           does.op = "insert"
    PROVE  /\ AskedRows' \subseteq AskedRows \cup {h}
           /\ ~does.row.asked => AskedRows' \subseteq AskedRows
           /\ \A t : WebAdds(t)' \subseteq WebAdds(t) /\ BotAdds(t)' \subseteq BotAdds(t)
<1>1. DOMAIN hand = Handlers /\ hand'[h] = does /\ \A g \in Handlers : g # h => hand'[g] = hand[g]
  BY DEF HandsOK
<1>2. /\ AskedRows' \subseteq AskedRows \cup {h}
      /\ ~does.row.asked => AskedRows' \subseteq AskedRows
  BY <1>1 DEF AskedRows
<1>3. \A t : WebAdds(t)' \subseteq WebAdds(t) /\ BotAdds(t)' \subseteq BotAdds(t)
  BY <1>1 DEF WebAdds, BotAdds
<1> QED BY <1>2, <1>3

\* Rows that are left alone have as many places.
LEMMA SameRows ==
    ASSUME DeskInv, tasks' = tasks
    PROVE  /\ \A t : Len(Extras(t)') <= Len(Extras(t))
           /\ AskedTasks' = AskedTasks
<1>1. \A t : Len(Extras(t)) \in Nat
  BY ExtrasLength
<1>2. \A t : Extras(t)' = Extras(t)
  BY DEF Extras
<1> QED BY <1>1, <1>2 DEF AskedTasks

\* What the dialogue was asked about becomes a row about to be written.
LEMMA TitleRoom ==
    ASSUME DeskInv, DeskInv', RoomInv, NEW h \in Handlers, Title(h)
    PROVE  RoomInv'
<1>1. dialog' = NoDialog /\ tasks' = tasks
  BY DEF Title
<1>2. dialog'.task = 0 /\ ~dialog'.asked
  BY <1>1 DEF NoDialog
<1>3. \/ hand' = [hand EXCEPT ![h] = Rest]
      \/ \E row : /\ hand' = [hand EXCEPT ![h] = [op |-> "insert", row |-> row]]
                  /\ row.asked => dialog.asked
  <2> DEFINE clean == ~dialog.mixed
             asked == dialog.asked
             simpleRow == TaskRow("telegram", "simple", dialog.src, dialog.srcId,
                                  dialog.dest, dialog.destId, clean, asked)
             kind == IF dialog.kind = Null THEN "telegram" ELSE dialog.kind
             fullRow == TaskRow(kind, "full", dialog.src, Null, dialog.dest, Null, clean, asked)
  <2>1. simpleRow.asked = asked /\ fullRow.asked = asked
    BY DEF TaskRow
  <2> HIDE DEF simpleRow, fullRow
  <2>2. CASE hand[h].op = "simple_title"
    BY <2>1, <2>2 DEF Title, Then, simpleRow
  <2>3. CASE hand[h].op # "simple_title"
    BY <2>1, <2>3 DEF Title, Then, fullRow
  <2> QED BY <2>2, <2>3
<1>4. CASE hand' = [hand EXCEPT ![h] = Rest]
  <2>1. Rest.op \notin {"insert", "place", "add"}
    BY DEF Rest
  <2> QED BY <1>1, <1>2, <1>4, <2>1, QuietRoom
<1>5. ASSUME NEW row, hand' = [hand EXCEPT ![h] = [op |-> "insert", row |-> row]],
             row.asked => dialog.asked
      PROVE  RoomInv'
  <2> DEFINE does == [op |-> "insert", row |-> row]
  <2>1. does.op = "insert" /\ does.row = row /\ hand' = [hand EXCEPT ![h] = does]
    BY <1>5
  <2> HIDE DEF does
  <2>2. /\ AskedRows' \subseteq AskedRows \cup {h}
        /\ ~row.asked => AskedRows' \subseteq AskedRows
        /\ \A t : WebAdds(t)' \subseteq WebAdds(t) /\ BotAdds(t)' \subseteq BotAdds(t)
    BY <2>1, RowHand DEF DeskInv
  <2>3. PlacesInv'
    BY <1>1, <1>2, <2>2, SameRows, PlacesStand DEF RoomInv
  <2>4. AskedTasks' = AskedTasks
    BY <1>1, SameRows
  <2>5. AskedRows \subseteq Handlers
    BY DEF AskedRows
  <2>6. CASE ~row.asked
    <3>1. AskedInv'
      BY <1>2, <2>2, <2>4, <2>6, AskedStands DEF RoomInv
    <3> QED BY <1>1, <2>3, <3>1 DEF RoomInv
  <2>7. CASE row.asked
    <3>1. Cardinality(AskedRows \cup {h}) <= Cardinality(AskedRows) + 1
      BY <2>5, Crowd
    <3>2. AskedRows \cup {h} \subseteq Handlers
      BY <2>5
    <3>3. /\ Cardinality(AskedRows') <= Cardinality(AskedRows \cup {h})
          /\ Cardinality(AskedRows') \in Nat /\ Cardinality(AskedRows \cup {h}) \in Nat
      <4>1. AskedRows' \subseteq Handlers
        BY <2>2, <3>2
      <4> QED BY <2>2, <3>2, <4>1, Crowd
    <3>4. Cardinality(AskedRows) \in Nat /\ Cardinality(Handlers) \in Nat
      BY <2>5, Crowd
    <3>5. AskedDialog = 1 /\ AskedDialog' = 0
      BY <1>2, <1>5, <2>7 DEF AskedDialog
    <3>6. Cardinality(AskedTasks) \in Nat
      <4>1. IsFiniteSet(AskedTasks)
        BY FS_Subset DEF AskedTasks, RoomInv
      <4> QED BY <4>1, FS_CardinalityType
    <3>7. Cardinality(AskedTasks) + Cardinality(AskedRows) + AskedDialog
             <= TaskLimit + Cardinality(Handlers)
      BY DEF RoomInv, AskedInv
    <3>8. Cardinality(AskedTasks') + Cardinality(AskedRows') + AskedDialog'
             <= TaskLimit + Cardinality(Handlers)
      BY <2>4, <3>1, <3>3, <3>4, <3>5, <3>6, <3>7, DeskAssumption
    <3>9. AskedInv'
      BY <3>8 DEF AskedInv
    <3> QED BY <1>1, <2>3, <3>9 DEF RoomInv
  <2> QED BY <2>6, <2>7
<1> QED BY <1>3, <1>4, <1>5

\* The mini app counts, and is about to write.
LEMMA WebRoom ==
    ASSUME DeskInv, DeskInv', RoomInv, NEW h \in Handlers, WebCount(h)
    PROVE  RoomInv'
<1>1. dialog' = dialog /\ tasks' = tasks
  BY DEF WebCount
<1>2. CASE Then(h, Rest)
  <2>1. Rest.op \notin {"insert", "place", "add"} /\ hand' = [hand EXCEPT ![h] = Rest]
    BY <1>2 DEF Rest, Then
  <2> QED BY <1>1, <2>1, QuietRoom
<1>3. CASE TaskRoom /\ Then(h, [op |-> "insert", row |-> hand[h].row, web |-> TRUE])
  <2> DEFINE does == [op |-> "insert", row |-> hand[h].row, web |-> TRUE]
  <2>1. does.op = "insert" /\ hand' = [hand EXCEPT ![h] = does]
    BY <1>3 DEF Then
  <2> HIDE DEF does
  <2>2. \A t : WebAdds(t)' \subseteq WebAdds(t) /\ BotAdds(t)' \subseteq BotAdds(t)
    BY <2>1, RowHand DEF DeskInv
  <2>3. PlacesInv'
    BY <1>1, <2>2, SameRows, PlacesStand DEF RoomInv
  <2>4. IsFiniteSet(DOMAIN tasks) /\ AskedTasks' \subseteq DOMAIN tasks
    BY <1>1 DEF RoomInv, AskedTasks
  <2>5. /\ Cardinality(AskedTasks') <= Cardinality(DOMAIN tasks)
        /\ Cardinality(AskedTasks') \in Nat /\ Cardinality(DOMAIN tasks) \in Nat
    BY <2>4, FS_Subset, FS_CardinalityType
  <2>6. AskedRows' \subseteq Handlers
    BY DEF AskedRows
  <2>7. /\ Cardinality(AskedRows') <= Cardinality(Handlers)
        /\ Cardinality(AskedRows') \in Nat /\ Cardinality(Handlers) \in Nat
    BY <2>6, Crowd
  <2>8. AskedDialog' \in 0 .. 1 /\ TaskLimit \in Nat /\ Cardinality(DOMAIN tasks) < TaskLimit
    BY <1>3, DeskAssumption DEF AskedDialog, TaskRoom
  <2>9. AskedInv'
    <3>1. Cardinality(AskedTasks') + Cardinality(AskedRows') + AskedDialog'
             <= TaskLimit + Cardinality(Handlers)
      BY <2>5, <2>7, <2>8
    <3> QED BY <3>1 DEF AskedInv
  <2> QED BY <1>1, <2>3, <2>9 DEF RoomInv
<1> QED BY <1>2, <1>3 DEF WebCount

\* SQLite's next id is no task's number below one.
LEMMA NextId ==
    ASSUME IsFiniteSet(DOMAIN tasks), DOMAIN tasks \subseteq Nat \ {0}
    PROVE  NewId \in Nat \ {0}
<1> DEFINE ids == DOMAIN tasks
           below == {1 .. t : t \in ids}
           f == [t \in ids |-> 1 .. t]
<1>1. f \in Surjection(ids, below)
  BY DEF Surjection
<1>2. IsFiniteSet(ids)
  OBVIOUS
<1> HIDE DEF f, ids
<1>3. IsFiniteSet(below)
  <2> HIDE DEF below
  <2> QED BY <1>1, <1>2, FS_Surjection
<1>4. \A T \in below : IsFiniteSet(T)
  <2>1. ASSUME NEW t \in ids
        PROVE  IsFiniteSet(1 .. t)
    <3>1. 1 \in Int /\ t \in Int
      BY DEF ids
    <3> QED BY <3>1, FS_Interval
  <2> QED BY <2>1
<1>5. IsFiniteSet(UNION below)
  <2> HIDE DEF below
  <2> QED BY <1>3, <1>4, FS_UNION
<1>6. Cardinality(UNION below) \in Nat
  BY <1>5, FS_CardinalityType
<1>7. NewId = 1 + Cardinality(UNION below)
  BY DEF NewId, ids
<1> HIDE DEF below
<1> QED BY <1>6, <1>7

\* The row that was about to be written is written: it was counted before.
LEMMA InsertRoom ==
    ASSUME DeskInv, DeskInv', RoomInv, NEW h \in Handlers, InsertTask(h)
    PROVE  RoomInv'
<1> DEFINE made == [hand[h].row EXCEPT !.born = births + 1]
           id == NewId
<1>1. /\ tasks' = [t \in DOMAIN tasks \cup {id} |-> IF t \in DOMAIN tasks THEN tasks[t] ELSE made]
      /\ dialog' = dialog /\ hand[h].op = "insert"
  BY DEF InsertTask
<1>2. PICK does : hand' = [hand EXCEPT ![h] = does] /\ does.op \notin {"insert", "place", "add"}
  <2> DEFINE asks == [op |-> "resolve", task |-> NewId, dest |-> hand[h].row.dest,
                    src |-> IF "web" \in DOMAIN hand[h] /\ hand[h].row.kind = "telegram"
                            THEN hand[h].row.src ELSE Null,
                    born |-> births + 1]
  <2>1. hand' = [hand EXCEPT ![h] = IF hand[h].row.mode = "simple" THEN Rest ELSE asks]
    BY DEF InsertTask, Then
  <2>2. asks.op = "resolve" /\ Rest.op = "rest"
    BY DEF Rest
  <2> HIDE DEF asks
  <2> QED BY <2>1, <2>2
<1>3. id \in Nat \ {0} /\ IsFiniteSet(DOMAIN tasks)
  BY NextId DEF RoomInv
<1>4. FreshRow(hand[h].row)
  BY <1>1 DEF DeskInv, HandsOK, HandOK
<1>5. made.extras = <<>> /\ (made.asked <=> hand[h].row.asked)
  BY <1>4 DEF FreshRow, RowFields
<1> HIDE DEF made, id
<1>6. /\ AskedRows' \subseteq AskedRows \ {h}
      /\ \A t : /\ WebAdds(t)' \subseteq WebAdds(t) \ {h}
                /\ BotAdds(t)' \subseteq BotAdds(t) \ {h}
  BY <1>2, HandsLeave DEF DeskInv
<1>7. IsFiniteSet(DOMAIN tasks') /\ DOMAIN tasks' \subseteq Nat \ {0}
  <2>1. IsFiniteSet(DOMAIN tasks \cup {id})
    BY <1>3, FS_AddElement
  <2>2. DOMAIN tasks' = DOMAIN tasks \cup {id}
    BY <1>1
  <2> QED BY <1>3, <2>1, <2>2 DEF RoomInv
<1>8. ASSUME NEW t \in Nat \ {0}
      PROVE  Len(Extras(t)') <= Len(Extras(t))
  <2>1. Len(Extras(t)) \in Nat
    BY ExtrasLength
  <2>2. CASE t \in DOMAIN tasks
    BY <1>1, <2>1, <2>2 DEF Extras
  <2>3. CASE t \notin DOMAIN tasks
    <3>1. Extras(t)' = <<>>
      BY <1>1, <1>5, <2>3 DEF Extras
    <3> QED BY <2>1, <3>1
  <2> QED BY <2>2, <2>3
<1>9. PlacesInv'
  BY <1>1, <1>6, <1>8, PlacesStand DEF RoomInv
<1>10. CASE ~hand[h].row.asked
  <2>1. AskedTasks' \subseteq AskedTasks
    BY <1>1, <1>5, <1>10 DEF AskedTasks
  <2>2. AskedInv'
    BY <1>1, <1>6, <2>1, AskedStands DEF RoomInv
  <2> QED BY <1>7, <1>9, <2>2 DEF RoomInv
<1>11. CASE hand[h].row.asked
  <2>1. AskedTasks' \subseteq AskedTasks \cup {id}
    BY <1>1 DEF AskedTasks
  <2>2. IsFiniteSet(AskedTasks)
    BY <1>3, FS_Subset DEF AskedTasks
  <2>3. IsFiniteSet(AskedTasks \cup {id})
    BY <2>2, FS_AddElement
  <2>4. Cardinality(AskedTasks \cup {id})
           = IF id \in AskedTasks THEN Cardinality(AskedTasks) ELSE Cardinality(AskedTasks) + 1
    BY <2>2, FS_AddElement
  <2>5. Cardinality(AskedTasks') <= Cardinality(AskedTasks \cup {id}) /\ IsFiniteSet(AskedTasks')
    BY <2>1, <2>3, FS_Subset
  <2>6. Cardinality(AskedTasks') \in Nat /\ Cardinality(AskedTasks) \in Nat
    BY <2>2, <2>5, FS_CardinalityType
  <2>7. AskedRows \subseteq Handlers /\ h \in AskedRows
    BY <1>1, <1>11 DEF AskedRows
  <2>8. Cardinality(AskedRows \ {h}) = Cardinality(AskedRows) - 1
    BY <2>7, Crowd
  <2>9. AskedRows \ {h} \subseteq Handlers /\ AskedRows' \subseteq Handlers
    BY <1>6, <2>7
  <2>10. Cardinality(AskedRows') <= Cardinality(AskedRows \ {h}) /\ Cardinality(AskedRows') \in Nat
    BY <1>6, <2>9, Crowd
  <2>11. Cardinality(AskedRows) \in Nat /\ Cardinality(Handlers) \in Nat
    BY <2>7, Crowd
  <2>12. AskedDialog' = AskedDialog /\ AskedDialog \in 0 .. 1 /\ TaskLimit \in Nat
    BY <1>1, DeskAssumption DEF AskedDialog
  <2>13. Cardinality(AskedTasks) + Cardinality(AskedRows) + AskedDialog
            <= TaskLimit + Cardinality(Handlers)
    BY DEF RoomInv, AskedInv
  <2>14. Cardinality(AskedTasks') + Cardinality(AskedRows') + AskedDialog'
            <= TaskLimit + Cardinality(Handlers)
    <3> DEFINE a == Cardinality(AskedTasks)
               aa == Cardinality(AskedTasks')
               r == Cardinality(AskedRows)
               rr == Cardinality(AskedRows')
               n == Cardinality(Handlers)
    <3>1. /\ a \in Nat /\ aa \in Nat /\ r \in Nat /\ rr \in Nat /\ n \in Nat
          /\ aa <= a + 1 /\ rr <= r - 1 /\ a + r + AskedDialog <= TaskLimit + n
      BY <2>4, <2>5, <2>6, <2>8, <2>10, <2>11, <2>13
    <3> HIDE DEF a, aa, r, rr, n
    <3>2. aa + rr + AskedDialog' <= TaskLimit + n
      BY <2>12, <3>1
    <3> QED BY <3>2 DEF aa, rr, n
  <2>15. AskedInv'
    BY <2>14 DEF AskedInv
  <2> QED BY <1>7, <1>9, <2>15 DEF RoomInv
<1> QED BY <1>10, <1>11

\* Ids and mode of a row are no part of what the plan counts.
LEMMA IdsRoom ==
    ASSUME DeskInv, DeskInv', RoomInv, NEW h \in Handlers, WriteIds(h) \/ WriteMode(h)
    PROVE  RoomInv'
<1>1. /\ dialog' = dialog /\ hand' = [hand EXCEPT ![h] = Rest]
      /\ Rest.op \notin {"insert", "place", "add"}
  BY DEF WriteIds, WriteMode, Then, Rest
<1>2. ASSUME NEW t \in DOMAIN tasks
      PROVE  DOMAIN tasks[t] = RowFields /\ Len(tasks[t].extras) \in Nat
  BY DEF DeskInv, RowOK
<1>3. DOMAIN tasks' = DOMAIN tasks
  BY DEF WriteIds, WriteMode
<1>4. ASSUME NEW t \in DOMAIN tasks
      PROVE  tasks'[t].extras = tasks[t].extras /\ tasks'[t].asked = tasks[t].asked
  <2> DEFINE old == tasks[t]
  <2>1. DOMAIN old = RowFields
    BY <1>2
  <2> DEFINE ThatRow(a, b, c) == [old EXCEPT !.destId = a, !.srcId = b, !.clean = c]
             Mode(a, b, c) == [old EXCEPT !.mode = a, !.srcId = b, !.clean = c]
  <2>2. \/ tasks'[t] = old
        \/ \E a, b, c : tasks'[t] = ThatRow(a, b, c)
        \/ \E a, b, c : tasks'[t] = Mode(a, b, c)
    <3>1. CASE WriteIds(h)
      <4>1. PICK dest \in {ChatOf[hand[h].dest], Null},
                 src \in IF hand[h].src = Null THEN {Null} ELSE {ChatOf[hand[h].src], Null} :
               tasks' = [u \in DOMAIN tasks |->
                            IF u # hand[h].task THEN tasks[u]
                            ELSE [tasks[u] EXCEPT !.destId = IF dest = Null THEN @ ELSE dest,
                                                  !.srcId = IF src = Null THEN @ ELSE src,
                                                  !.clean = @ /\ tasks[u].born = hand[h].born]]
        BY <3>1 DEF WriteIds
      <4> DEFINE a == IF dest = Null THEN old.destId ELSE dest
                 b == IF src = Null THEN old.srcId ELSE src
                 c == old.clean /\ old.born = hand[h].born
      <4>2. tasks'[t] = IF t # hand[h].task THEN old ELSE ThatRow(a, b, c)
        BY <4>1
      <4> HIDE DEF ThatRow, a, b, c, old
      <4> QED BY <4>2
    <3>2. CASE WriteMode(h)
      <4> DEFINE a == hand[h].mode
                 b == IF hand[h].mode = "full" THEN ChatOf[hand[h].src] ELSE old.srcId
                 c == old.clean /\ old.born = hand[h].born
      <4>1. tasks' = tasks \/ tasks'[t] = IF t # hand[h].task THEN old ELSE Mode(a, b, c)
        BY <3>2 DEF WriteMode
      <4> HIDE DEF Mode, a, b, c
      <4>2. CASE tasks' = tasks
        BY <4>2
      <4>3. CASE tasks' # tasks
        <5> HIDE DEF old
        <5> QED BY <4>1, <4>3
      <4> QED BY <4>2, <4>3
    <3> QED BY <3>1, <3>2
  <2> HIDE DEF old
  <2>3. tasks'[t].extras = old.extras /\ tasks'[t].asked = old.asked
    BY <2>1, <2>2 DEF RowFields
  <2> QED BY <2>3 DEF old
<1>5. /\ DOMAIN tasks' \subseteq DOMAIN tasks
      /\ \A t \in DOMAIN tasks' : /\ tasks'[t].asked => tasks[t].asked
                                  /\ Len(tasks'[t].extras) <= Len(tasks[t].extras)
  BY <1>2, <1>3, <1>4
<1> QED BY <1>1, <1>5, RoomStands

\* A coroutine that holds an answer of the dialogue or a form, not yet checked.
LEMMA HandsAside ==
    ASSUME HandsOK, NEW h \in Handlers, NEW does, hand' = [hand EXCEPT ![h] = does],
           does.op = "place"
    PROVE  /\ AskedRows' \subseteq AskedRows
           /\ \A t : /\ WebAdds(t)' \subseteq WebAdds(t)
                     /\ BotAdds(t)' \subseteq BotAdds(t) \cup {h}
                     /\ does.web \/ does.task # t => BotAdds(t)' \subseteq BotAdds(t)
<1>1. DOMAIN hand = Handlers /\ hand'[h] = does /\ \A g \in Handlers : g # h => hand'[g] = hand[g]
  BY DEF HandsOK
<1>2. AskedRows' \subseteq AskedRows
  BY <1>1 DEF AskedRows
<1>3. \A t : WebAdds(t)' \subseteq WebAdds(t) /\ BotAdds(t)' \subseteq BotAdds(t) \cup {h}
  BY <1>1 DEF WebAdds, BotAdds
<1>4. ASSUME NEW t, does.web \/ does.task # t
      PROVE  BotAdds(t)' \subseteq BotAdds(t)
  BY <1>1, <1>4 DEF BotAdds
<1> QED BY <1>2, <1>3, <1>4

\* A task whose places leave room has room for all that the coroutines may add.
LEMMA FewPlaces ==
    ASSUME NEW t, Len(Extras(t)') \in Nat, Len(Extras(t)') < ExtraLimit
    PROVE  PlaceRoom(t)'
<1>1. WebAdds(t)' \subseteq Handlers /\ BotAdds(t)' \subseteq Handlers
  BY DEF WebAdds, BotAdds
<1>2. /\ Cardinality(WebAdds(t)') \in Nat /\ Cardinality(Handlers) \in Nat
      /\ Cardinality(WebAdds(t)') <= Cardinality(Handlers)
  BY <1>1, Crowd
<1>3. /\ Cardinality(BotAdds(t)') \in Nat
      /\ Cardinality(BotAdds(t)') <= Cardinality(Handlers)
  BY <1>1, Crowd
<1> DEFINE e == Len(Extras(t)')
           w == Cardinality(WebAdds(t)')
           b == Cardinality(BotAdds(t)')
           n == Cardinality(Handlers)
<1>4. /\ e \in Nat /\ w \in Nat /\ b \in Nat /\ n \in Nat /\ ExtraLimit \in Nat
      /\ e < ExtraLimit /\ w <= n /\ b <= n
  BY <1>2, <1>3, DeskAssumption
<1> HIDE DEF e, w, b, n
<1>5. e + w < ExtraLimit + n /\ e + w + b < ExtraLimit + 2 * n
  BY <1>4
<1> QED BY <1>5 DEF e, w, b, n, PlaceRoom

\* The bot counts the places, and the dialogue turns to that task.
LEMMA OpenPlaceRoom ==
    ASSUME DeskInv, DeskInv', RoomInv, NEW h \in Handlers, OpenPlace(h)
    PROVE  RoomInv'
<1>1. /\ tasks' = tasks /\ hand' = [hand EXCEPT ![h] = Rest]
      /\ Rest.op \notin {"insert", "place", "add"}
  BY DEF OpenPlace, Then, Rest
<1>2. CASE dialog' = dialog
  BY <1>1, <1>2, QuietRoom
<1>3. CASE /\ Len(Extras(hand[h].task)) < ExtraLimit
           /\ dialog' = [dialog EXCEPT !.at = "dest_add", !.task = hand[h].task]
  <2>1. dialog'.task = hand[h].task /\ (dialog'.asked <=> dialog.asked)
    BY <1>3 DEF DeskInv, DialogOK, DialogFields
  <2>2. /\ AskedRows' \subseteq AskedRows \ {h}
        /\ \A t : /\ WebAdds(t)' \subseteq WebAdds(t) \ {h}
                  /\ BotAdds(t)' \subseteq BotAdds(t) \ {h}
    BY <1>1, HandsLeave DEF DeskInv
  <2>3. (\A t : Len(Extras(t)') <= Len(Extras(t))) /\ AskedTasks' = AskedTasks
    BY <1>1, SameRows
  <2>4. AskedInv'
    BY <2>1, <2>2, <2>3, AskedStands DEF RoomInv
  <2>5. ASSUME NEW t \in Nat \ {0}
        PROVE  PlaceRoom(t)'
    <3>1. CASE dialog'.task # t
      BY <2>2, <2>3, <3>1, PlaceStands DEF RoomInv
    <3>2. CASE dialog'.task = t
      <4>1. Len(Extras(t)') < ExtraLimit /\ Len(Extras(t)') \in Nat /\ ExtraLimit \in Nat
        <5>1. Len(Extras(t)) \in Nat /\ Len(Extras(t)') \in Nat
          BY ExtrasLength, ExtrasLengthAfter
        <5>2. Len(Extras(t)') <= Len(Extras(t)) /\ Len(Extras(t)) < ExtraLimit
          BY <1>3, <2>1, <2>3, <3>2
        <5> QED BY <5>1, <5>2, DeskAssumption
      <4> QED BY <4>1, FewPlaces
    <3> QED BY <3>1, <3>2
  <2>6. PlacesInv'
    BY <2>5 DEF PlacesInv
  <2> QED BY <1>1, <2>4, <2>6 DEF RoomInv
<1> QED BY <1>2, <1>3 DEF OpenPlace

\* A place is answered or asked for in a form.
LEMMA PlaceRoomIsKept ==
    ASSUME DeskInv, DeskInv', RoomInv, NEW h \in Handlers, GotPlace(h) \/ WebPlace(h)
    PROVE  RoomInv'
<1>1. tasks' = tasks
  BY DEF GotPlace, WebPlace
<1>2. (\A t : Len(Extras(t)') <= Len(Extras(t))) /\ AskedTasks' = AskedTasks
  BY <1>1, SameRows
<1>3. CASE /\ dialog' = NoDialog /\ hand' = [hand EXCEPT ![h] = Rest]
  <2>1. dialog'.task = 0 /\ ~dialog'.asked /\ Rest.op \notin {"insert", "place", "add"}
    BY <1>3 DEF NoDialog, Rest
  <2> QED BY <1>1, <1>3, <2>1, QuietRoom
<1>4. ASSUME NEW does, hand' = [hand EXCEPT ![h] = does], does.op = "place",
             dialog' = dialog, does.web \/ does.task = dialog.task
      PROVE  RoomInv'
  <2>1. /\ AskedRows' \subseteq AskedRows
        /\ \A t : /\ WebAdds(t)' \subseteq WebAdds(t)
                  /\ BotAdds(t)' \subseteq BotAdds(t) \cup {h}
                  /\ does.web \/ does.task # t => BotAdds(t)' \subseteq BotAdds(t)
    BY <1>4, HandsAside DEF DeskInv
  <2>2. AskedInv'
    BY <1>2, <1>4, <2>1, AskedStands DEF RoomInv
  <2>3. ASSUME NEW t \in Nat \ {0}
        PROVE  PlaceRoom(t)'
    <3>1. CASE does.web \/ does.task # t
      BY <1>2, <1>4, <2>1, <3>1, PlaceStands DEF RoomInv
    <3>2. CASE ~does.web /\ does.task = t
      <4>1. dialog.task = t /\ dialog'.task = t
        BY <1>4, <3>2
      <4>2. /\ WebAdds(t)' \subseteq WebAdds(t) /\ WebAdds(t) \subseteq Handlers
            /\ BotAdds(t)' \subseteq Handlers
        BY <2>1 DEF WebAdds, BotAdds
      <4>3. /\ Cardinality(WebAdds(t)') \in Nat /\ Cardinality(Handlers) \in Nat
            /\ Cardinality(WebAdds(t)) \in Nat
            /\ Cardinality(WebAdds(t)') <= Cardinality(WebAdds(t))
        BY <4>2, Crowd
      <4>4. /\ Cardinality(BotAdds(t)') \in Nat
            /\ Cardinality(BotAdds(t)') <= Cardinality(Handlers)
        BY <4>2, Crowd
      <4>5. Len(Extras(t)) \in Nat /\ Len(Extras(t)') \in Nat
        BY ExtrasLength, ExtrasLengthAfter
      <4>6. Len(Extras(t)) + Cardinality(WebAdds(t)) < ExtraLimit + Cardinality(Handlers)
        BY <4>1 DEF RoomInv, PlacesInv, PlaceRoom
      <4>7. /\ Len(Extras(t)') + Cardinality(WebAdds(t)') < ExtraLimit + Cardinality(Handlers)
            /\ Len(Extras(t)') + Cardinality(WebAdds(t)') + Cardinality(BotAdds(t)')
                  < ExtraLimit + 2 * Cardinality(Handlers)
        <5> DEFINE e == Len(Extras(t))
                   ee == Len(Extras(t)')
                   w == Cardinality(WebAdds(t))
                   ww == Cardinality(WebAdds(t)')
                   bb == Cardinality(BotAdds(t)')
                   n == Cardinality(Handlers)
        <5>1. /\ e \in Nat /\ ee \in Nat /\ w \in Nat /\ ww \in Nat /\ bb \in Nat /\ n \in Nat
              /\ ee <= e /\ ww <= w /\ bb <= n /\ e + w < ExtraLimit + n /\ ExtraLimit \in Nat
          BY <1>2, <4>3, <4>4, <4>5, <4>6, DeskAssumption
        <5> HIDE DEF e, ee, w, ww, bb, n
        <5>2. ee + ww < ExtraLimit + n /\ ee + ww + bb < ExtraLimit + 2 * n
          BY <5>1
        <5> QED BY <5>2 DEF ee, ww, bb, n
      <4> QED BY <4>7 DEF PlaceRoom
    <3> QED BY <3>1, <3>2
  <2>4. PlacesInv'
    BY <2>3 DEF PlacesInv
  <2> QED BY <1>1, <2>2, <2>4 DEF RoomInv
<1>5. CASE GotPlace(h)
  <2>1. CASE dialog.task \in DOMAIN tasks
    <3> DEFINE does == [op |-> "place", task |-> dialog.task, ref |-> hand[h].ref,
                        main |-> tasks[dialog.task], web |-> FALSE]
    <3>1. hand' = [hand EXCEPT ![h] = does] /\ dialog' = dialog
      BY <1>5, <2>1 DEF GotPlace, Then
    <3>2. does.op = "place" /\ does.task = dialog.task
      OBVIOUS
    <3> HIDE DEF does
    <3> QED BY <1>4, <3>1, <3>2
  <2>2. CASE dialog.task \notin DOMAIN tasks
    BY <1>3, <1>5, <2>2 DEF GotPlace, Then
  <2> QED BY <2>1, <2>2
<1>6. CASE WebPlace(h)
  <2>1. PICK t \in DOMAIN tasks, ref \in Places :
          Begin(h, [op |-> "place", task |-> t, ref |-> ref, main |-> tasks[t], web |-> TRUE])
    BY <1>6 DEF WebPlace
  <2> DEFINE does == [op |-> "place", task |-> t, ref |-> ref, main |-> tasks[t], web |-> TRUE]
  <2>2. does.op = "place" /\ does.web /\ hand' = [hand EXCEPT ![h] = does]
    BY <2>1 DEF Begin
  <2>3. dialog' = dialog
    BY <1>6 DEF WebPlace
  <2> HIDE DEF does
  <2> QED BY <1>4, <2>2, <2>3
<1> QED BY <1>5, <1>6

\* The place is none of the others; the mini app has counted them, too.
LEMMA CheckRoom ==
    ASSUME DeskInv, DeskInv', RoomInv, NEW h \in Handlers, CheckPlace(h)
    PROVE  RoomInv'
<1>1. tasks' = tasks /\ dialog' = dialog /\ hand[h].op = "place"
  BY DEF CheckPlace
<1>2. (\A t : Len(Extras(t)') <= Len(Extras(t))) /\ AskedTasks' = AskedTasks
  BY <1>1, SameRows
<1>3. CASE hand' = [hand EXCEPT ![h] = Rest]
  <2>1. Rest.op \notin {"insert", "place", "add"}
    BY DEF Rest
  <2> QED BY <1>1, <1>3, <2>1, QuietRoom
<1>4. ASSUME NEW does, hand' = [hand EXCEPT ![h] = does], does.op = "add",
             does.task = hand[h].task, does.web = hand[h].web,
             does.web => Len(Extras(does.task)) < ExtraLimit
      PROVE  RoomInv'
  <2>1. DOMAIN hand = Handlers /\ hand'[h] = does /\ \A g \in Handlers : g # h => hand'[g] = hand[g]
    BY <1>4 DEF DeskInv, HandsOK
  <2>2. AskedRows' \subseteq AskedRows
    BY <1>4, <2>1 DEF AskedRows
  <2>3. AskedInv'
    BY <1>1, <1>2, <2>2, AskedStands DEF RoomInv
  <2>4. ASSUME NEW t \in Nat \ {0}
        PROVE  PlaceRoom(t)'
    <3>1. BotAdds(t)' \subseteq BotAdds(t)
      BY <1>1, <1>4, <2>1 DEF BotAdds
    <3>2. CASE ~does.web \/ does.task # t
      <4>1. WebAdds(t)' \subseteq WebAdds(t)
        BY <2>1, <3>2 DEF WebAdds
      <4> QED BY <1>1, <1>2, <3>1, <4>1, PlaceStands DEF RoomInv
    <3>3. CASE does.web /\ does.task = t
      <4>1. Len(Extras(t)') < ExtraLimit /\ Len(Extras(t)') \in Nat /\ ExtraLimit \in Nat
        <5>1. Len(Extras(t)) \in Nat /\ Len(Extras(t)') \in Nat
          BY ExtrasLength, ExtrasLengthAfter
        <5>2. Len(Extras(t)') <= Len(Extras(t)) /\ Len(Extras(t)) < ExtraLimit
          BY <1>2, <1>4, <3>3
        <5> QED BY <5>1, <5>2, DeskAssumption
      <4> QED BY <4>1, FewPlaces
    <3> QED BY <3>2, <3>3
  <2>5. PlacesInv'
    BY <2>4 DEF PlacesInv
  <2> QED BY <1>1, <2>3, <2>5 DEF RoomInv
<1>5. \/ hand' = [hand EXCEPT ![h] = Rest]
      \/ \E does : /\ hand' = [hand EXCEPT ![h] = does] /\ does.op = "add"
                   /\ does.task = hand[h].task /\ does.web = hand[h].web
                   /\ does.web => Len(Extras(does.task)) < ExtraLimit
  <2>1. CASE Then(h, Rest)
    BY <2>1 DEF Then
  <2> DEFINE others == Extras(hand[h].task)
  <2>2. CASE \E found \in {ChatOf[hand[h].ref], Null} :
               /\ hand[h].web => Len(others) < ExtraLimit
               /\ Then(h, [op |-> "add", task |-> hand[h].task, ref |-> hand[h].ref,
                           chat |-> found, main |-> hand[h].main, others |-> others,
                           web |-> hand[h].web])
    <3> HIDE DEF others
    <3>1. PICK found \in {ChatOf[hand[h].ref], Null} :
               /\ hand[h].web => Len(others) < ExtraLimit
               /\ Then(h, [op |-> "add", task |-> hand[h].task, ref |-> hand[h].ref,
                           chat |-> found, main |-> hand[h].main, others |-> others,
                           web |-> hand[h].web])
      BY <2>2
    <3> DEFINE does == [op |-> "add", task |-> hand[h].task, ref |-> hand[h].ref,
                        chat |-> found, main |-> hand[h].main, others |-> others,
                        web |-> hand[h].web]
    <3>2. /\ does.op = "add" /\ does.task = hand[h].task /\ does.web = hand[h].web
          /\ hand' = [hand EXCEPT ![h] = does]
      BY <3>1 DEF Then
    <3> HIDE DEF does
    <3> QED BY <3>1, <3>2 DEF others
  <2> QED BY <2>1, <2>2 DEF CheckPlace
<1> QED BY <1>3, <1>4, <1>5

\* One place more, of a coroutine that was about to add it.
LEMMA AddRoom ==
    ASSUME DeskInv, DeskInv', RoomInv, NEW h \in Handlers, AddPlace(h)
    PROVE  RoomInv'
<1> DEFINE u == hand[h].task
           place == [ref |-> hand[h].ref, chat |-> hand[h].chat]
<1>1. /\ hand' = [hand EXCEPT ![h] = Rest] /\ hand[h].op = "add"
      /\ Rest.op \notin {"insert", "place", "add"}
  BY DEF AddPlace, Then, Rest
<1>2. /\ dialog' = dialog \/ dialog' = NoDialog
      /\ ~hand[h].web /\ u \in DOMAIN tasks => dialog' = NoDialog
  BY DEF AddPlace
<1>3. dialog'.task \in {0, dialog.task} /\ (dialog'.asked => dialog.asked)
      /\ (dialog' = NoDialog => dialog'.task = 0)
  BY <1>2 DEF NoDialog
<1>4. /\ DOMAIN tasks' = DOMAIN tasks
      /\ \A t \in DOMAIN tasks : t # u => tasks'[t] = tasks[t]
  BY DEF AddPlace
<1>5. ASSUME u \in DOMAIN tasks
      PROVE  /\ tasks'[u].extras = Append(tasks[u].extras, place)
             /\ tasks'[u].asked = tasks[u].asked
  <2> DEFINE old == tasks[u]
             ripped == old.torn \/ Null \in {hand[h].chat, hand[h].main.destId}
                                \/ old.extras # hand[h].others
                                \/ old.born # hand[h].main.born
  <2>1. tasks'[u] = [old EXCEPT !.extras = Append(old.extras, place), !.torn = ripped]
    BY <1>5 DEF AddPlace
  <2>2. DOMAIN old = RowFields
    BY <1>5 DEF DeskInv, RowOK
  <2> HIDE DEF old, ripped, place
  <2>3. tasks'[u].extras = Append(old.extras, place) /\ tasks'[u].asked = old.asked
    BY <2>1, <2>2 DEF RowFields
  <2> QED BY <2>3 DEF old
<1> HIDE DEF place
<1>6. /\ AskedRows' \subseteq AskedRows \ {h}
      /\ \A t : /\ WebAdds(t)' \subseteq WebAdds(t) \ {h}
                /\ BotAdds(t)' \subseteq BotAdds(t) \ {h}
  BY <1>1, HandsLeave DEF DeskInv
<1>7. AskedInv'
  <2>1. AskedTasks' \subseteq AskedTasks
    BY <1>4, <1>5 DEF AskedTasks
  <2> QED BY <1>3, <1>6, <2>1, AskedStands DEF RoomInv
<1>8. ASSUME NEW t \in Nat \ {0}
      PROVE  PlaceRoom(t)'
  <2>1. CASE t # u \/ u \notin DOMAIN tasks
    <3>1. Extras(t)' = Extras(t)
      BY <1>4, <2>1 DEF Extras
    <3>2. Len(Extras(t)) \in Nat
      BY ExtrasLength
    <3> QED BY <1>3, <1>6, <3>1, <3>2, PlaceStands DEF RoomInv
  <2>2. CASE t = u /\ u \in DOMAIN tasks
    <3>1. Len(Extras(t)') = Len(Extras(t)) + 1 /\ Len(Extras(t)) \in Nat
      <4>1. Extras(t)' = Append(tasks[u].extras, place) /\ Extras(t) = tasks[u].extras
        BY <1>4, <1>5, <2>2 DEF Extras
      <4>2. Extras(t) \in Seq(Extra)
        BY ExtrasLength
      <4> QED BY <4>1, <4>2
    <3>2. WebAdds(t) \subseteq Handlers /\ BotAdds(t) \subseteq Handlers
      BY DEF WebAdds, BotAdds
    <3>3. /\ Cardinality(WebAdds(t)') <= Cardinality(WebAdds(t))
          /\ Cardinality(WebAdds(t)') \in Nat /\ Cardinality(WebAdds(t)) \in Nat
          /\ Cardinality(Handlers) \in Nat
          /\ h \in WebAdds(t) => Cardinality(WebAdds(t)') <= Cardinality(WebAdds(t)) - 1
      <4>1. WebAdds(t)' \subseteq WebAdds(t) /\ WebAdds(t) \ {h} \subseteq Handlers
        BY <1>6, <3>2
      <4>2. Cardinality(WebAdds(t)') <= Cardinality(WebAdds(t) \ {h})
        BY <1>6, <4>1, Crowd
      <4>3. h \in WebAdds(t) => Cardinality(WebAdds(t) \ {h}) = Cardinality(WebAdds(t)) - 1
        BY <3>2, Crowd
      <4>4. WebAdds(t)' \subseteq Handlers
        BY <3>2, <4>1
      <4> QED BY <3>2, <4>1, <4>2, <4>3, <4>4, Crowd
    <3>4. /\ Cardinality(BotAdds(t)') <= Cardinality(BotAdds(t))
          /\ Cardinality(BotAdds(t)') \in Nat /\ Cardinality(BotAdds(t)) \in Nat
          /\ h \in BotAdds(t) => Cardinality(BotAdds(t)') <= Cardinality(BotAdds(t)) - 1
      <4>1. BotAdds(t)' \subseteq BotAdds(t) /\ BotAdds(t) \ {h} \subseteq Handlers
        BY <1>6, <3>2
      <4>2. Cardinality(BotAdds(t)') <= Cardinality(BotAdds(t) \ {h})
        BY <1>6, <4>1, Crowd
      <4>3. h \in BotAdds(t) => Cardinality(BotAdds(t) \ {h}) = Cardinality(BotAdds(t)) - 1
        BY <3>2, Crowd
      <4>4. BotAdds(t)' \subseteq Handlers
        BY <3>2, <4>1
      <4> QED BY <3>2, <4>1, <4>2, <4>3, <4>4, Crowd
    <3>5. PlaceRoom(t)
      BY DEF RoomInv, PlacesInv
    <3> DEFINE e == Len(Extras(t))
               ee == Len(Extras(t)')
               w == Cardinality(WebAdds(t))
               ww == Cardinality(WebAdds(t)')
               b == Cardinality(BotAdds(t))
               bb == Cardinality(BotAdds(t)')
               n == Cardinality(Handlers)
    <3>6. /\ e \in Nat /\ ee = e + 1 /\ w \in Nat /\ ww \in Nat /\ b \in Nat /\ bb \in Nat
          /\ n \in Nat /\ ExtraLimit \in Nat /\ ww <= w /\ bb <= b
      BY <3>1, <3>3, <3>4, DeskAssumption
    <3>7. /\ dialog.task = t => e + w < ExtraLimit + n
          /\ e + w + b < ExtraLimit + 2 * n
      BY <3>5 DEF PlaceRoom
    <3>8. CASE hand[h].web
      <4>1. h \in WebAdds(t)
        BY <1>1, <2>2, <3>8 DEF WebAdds
      <4>2. ww <= w - 1
        BY <3>3, <4>1
      <4>3. dialog'.task = t => dialog.task = t
        BY <1>3
      <4> HIDE DEF e, ee, w, ww, b, bb, n
      <4>4. (dialog'.task = t => ee + ww < ExtraLimit + n) /\ ee + ww + bb < ExtraLimit + 2 * n
        BY <3>6, <3>7, <4>2, <4>3
      <4> QED BY <4>4 DEF ee, ww, bb, n, PlaceRoom
    <3>9. CASE ~hand[h].web
      <4>1. h \in BotAdds(t)
        BY <1>1, <2>2, <3>9 DEF BotAdds
      <4>2. bb <= b - 1
        BY <3>4, <4>1
      <4>3. dialog'.task = 0
        BY <1>2, <1>3, <2>2, <3>9
      <4> HIDE DEF e, ee, w, ww, b, bb, n
      <4>4. (dialog'.task = t => ee + ww < ExtraLimit + n) /\ ee + ww + bb < ExtraLimit + 2 * n
        BY <3>6, <3>7, <4>2, <4>3
      <4> QED BY <4>4 DEF ee, ww, bb, n, PlaceRoom
    <3> QED BY <3>8, <3>9
  <2> QED BY <2>1, <2>2
<1>9. PlacesInv'
  BY <1>8 DEF PlacesInv
<1> QED BY <1>4, <1>7, <1>9 DEF RoomInv

\* A place or a task is taken away.
LEMMA AwayRoom ==
    ASSUME DeskInv, DeskInv', RoomInv, DropPlace \/ DeleteTask
    PROVE  RoomInv'
<1>1. dialog' = dialog /\ hand' = hand
  BY DEF DropPlace, DeleteTask
<1>2. ASSUME NEW t \in DOMAIN tasks
      PROVE  /\ DOMAIN tasks[t] = RowFields /\ tasks[t].extras \in Seq(Extra)
             /\ Len(tasks[t].extras) \in Nat
  BY DEF DeskInv, RowOK
<1>3. CASE DeleteTask
  <2>1. PICK u \in DOMAIN tasks : tasks' = [t \in DOMAIN tasks \ {u} |-> tasks[t]]
    BY <1>3 DEF DeleteTask
  <2>2. /\ DOMAIN tasks' \subseteq DOMAIN tasks
        /\ \A t \in DOMAIN tasks' : /\ tasks'[t].asked => tasks[t].asked
                                    /\ Len(tasks'[t].extras) <= Len(tasks[t].extras)
    BY <1>2, <2>1
  <2> QED BY <1>1, <2>2, RoomStands
<1>4. CASE DropPlace
  <2>1. PICK u \in DOMAIN tasks : \E i \in DOMAIN tasks[u].extras :
          tasks' = [tasks EXCEPT ![u].extras =
                       SubSeq(tasks[u].extras, 1, i - 1)
                          \o SubSeq(tasks[u].extras, i + 1, Len(tasks[u].extras))]
    BY <1>4 DEF DropPlace
  <2>2. PICK i \in DOMAIN tasks[u].extras :
          tasks' = [tasks EXCEPT ![u].extras =
                       SubSeq(tasks[u].extras, 1, i - 1)
                          \o SubSeq(tasks[u].extras, i + 1, Len(tasks[u].extras))]
    BY <2>1
  <2> DEFINE s == tasks[u].extras
             r == SubSeq(s, 1, i - 1) \o SubSeq(s, i + 1, Len(s))
  <2>3. s \in Seq(Extra) /\ i \in 1 .. Len(s) /\ Len(s) \in Nat /\ DOMAIN tasks[u] = RowFields
    <3>1. s \in Seq(Extra) /\ DOMAIN tasks[u] = RowFields
      BY <1>2
    <3> QED BY <2>2, <3>1
  <2>4. DOMAIN tasks' = DOMAIN tasks /\ (\A t \in DOMAIN tasks : t # u => tasks'[t] = tasks[t])
        /\ tasks'[u] = [tasks[u] EXCEPT !.extras = r]
    BY <2>2
  <2> HIDE DEF s
  <2>5. Len(r) = Len(s) - 1
    BY <2>3, OneLess
  <2> HIDE DEF r
  <2>6. tasks'[u].extras = r /\ tasks'[u].asked = tasks[u].asked
    BY <2>3, <2>4 DEF RowFields
  <2>7. Len(tasks'[u].extras) <= Len(tasks[u].extras)
    BY <2>3, <2>5, <2>6 DEF s
  <2>8. /\ DOMAIN tasks' \subseteq DOMAIN tasks
        /\ \A t \in DOMAIN tasks' : /\ tasks'[t].asked => tasks[t].asked
                                    /\ Len(tasks'[t].extras) <= Len(tasks[t].extras)
    <3>1. ASSUME NEW t \in DOMAIN tasks'
          PROVE  /\ tasks'[t].asked => tasks[t].asked
                 /\ Len(tasks'[t].extras) <= Len(tasks[t].extras)
      <4>1. CASE t = u
        BY <2>6, <2>7, <4>1
      <4>2. CASE t # u
        BY <1>2, <2>4, <4>2
      <4> QED BY <4>1, <4>2
    <3> QED BY <2>4, <3>1
  <2> QED BY <1>1, <2>8, RoomStands
<1> QED BY <1>3, <1>4

\* Answers and buttons make no task by themselves, and count as none.
LEMMA AnswerRoom ==
    ASSUME DeskInv, DeskInv', RoomInv, NEW h \in Handlers,
           \/ NewTask(h) \/ Reply(h) \/ Picked(h) \/ AcceptSource(h) \/ AcceptFeed(h)
           \/ AcceptDest(h) \/ SimpleSource(h) \/ SimpleDest(h) \/ WebTask(h)
           \/ ChangeMode(h) \/ AskPlace(h)
    PROVE  RoomInv'
<1>1. tasks' = tasks
  BY DEF NewTask, Reply, Picked, AcceptSource, AcceptFeed, AcceptDest, SimpleSource,
         SimpleDest, WebTask, ChangeMode, AskPlace
<1>2. ASSUME \/ AcceptSource(h) \/ AcceptFeed(h) \/ AcceptDest(h) \/ SimpleSource(h)
             \/ SimpleDest(h)
      PROVE  RoomInv'
  <2>1. hand' = [hand EXCEPT ![h] = Rest] /\ Rest.op \notin {"insert", "place", "add"}
    BY <1>2 DEF AcceptSource, AcceptFeed, AcceptDest, SimpleSource, SimpleDest, Then, Rest
  <2>2. DOMAIN dialog = DialogFields
    BY DEF DeskInv, DialogOK
  <2>3. \/ dialog' = dialog \/ dialog' = NoDialog
        \/ dialog'.task = dialog.task /\ (dialog'.asked <=> dialog.asked)
    <3>1. CASE AcceptSource(h)
      BY <2>2, <3>1 DEF AcceptSource, DialogFields
    <3>2. CASE AcceptFeed(h)
      BY <2>2, <3>2 DEF AcceptFeed, DialogFields
    <3>3. CASE AcceptDest(h)
      BY <2>2, <3>3 DEF AcceptDest, DialogFields
    <3>4. CASE SimpleSource(h)
      BY <2>2, <3>4 DEF SimpleSource, DialogFields
    <3>5. CASE SimpleDest(h)
      BY <2>2, <3>5 DEF SimpleDest, DialogFields
    <3> QED BY <1>2, <3>1, <3>2, <3>3, <3>4, <3>5
  <2>4. dialog'.task \in {0, dialog.task} /\ (dialog'.asked => dialog.asked)
    BY <2>3 DEF NoDialog
  <2> QED BY <1>1, <2>1, <2>4, QuietRoom
<1>3. ASSUME \/ NewTask(h) \/ Reply(h) \/ Picked(h) \/ WebTask(h) \/ ChangeMode(h)
             \/ AskPlace(h)
      PROVE  RoomInv'
  <2>1. dialog' = dialog
    BY <1>3 DEF NewTask, Reply, Picked, WebTask, ChangeMode, AskPlace
  <2>2. PICK does : Begin(h, does) /\ does.op \notin {"insert", "place", "add"}
    <3>1. CASE NewTask(h)
      BY <3>1 DEF NewTask
    <3>2. CASE Reply(h)
      <4>1. ASSUME NEW op \in {"source", "simple_source", "dest", "simple_dest", "dest_add"},
                   NEW ref, Begin(h, [op |-> op, ref |-> ref])
            PROVE  \E does : Begin(h, does) /\ does.op \notin {"insert", "place", "add"}
        <5> DEFINE does == [op |-> op, ref |-> ref]
        <5>1. Begin(h, does) /\ does.op = op
          BY <4>1
        <5> HIDE DEF does
        <5> QED BY <4>1, <5>1
      <4>2. ASSUME NEW op \in {"title", "simple_title"}, Begin(h, [op |-> op])
            PROVE  \E does : Begin(h, does) /\ does.op \notin {"insert", "place", "add"}
        <5> DEFINE does == [op |-> op]
        <5>1. Begin(h, does) /\ does.op = op
          BY <4>2
        <5> HIDE DEF does
        <5> QED BY <5>1
      <4>3. \/ \E op \in {"source", "simple_source", "dest", "simple_dest", "dest_add"} :
                  \E ref : Begin(h, [op |-> op, ref |-> ref])
            \/ \E op \in {"title", "simple_title"} : Begin(h, [op |-> op])
        <5>1. CASE \E ref \in Refs : Begin(h, [op |-> "source", ref |-> ref])
          BY <5>1
        <5>2. CASE \E ref \in Sources : Begin(h, [op |-> "simple_source", ref |-> ref])
          BY <5>2
        <5>3. CASE /\ dialog.at \in {"dest", "simple_dest", "dest_add"}
                   /\ \E ref \in Places : Begin(h, [op |-> dialog.at, ref |-> ref])
          <6>1. \E op \in {"dest", "simple_dest", "dest_add"} :
                  \E ref \in Places : Begin(h, [op |-> op, ref |-> ref])
            BY <5>3
          <6> QED BY <6>1
        <5>4. CASE dialog.at \in {"title", "simple_title"} /\ Begin(h, [op |-> dialog.at])
          BY <5>4
        <5> QED BY <3>2, <5>1, <5>2, <5>3, <5>4 DEF Reply
      <4> QED BY <4>1, <4>2, <4>3
    <3>3. CASE Picked(h)
      <4>1. CASE \E ref \in Sources \cap Offered : Begin(h, [op |-> "source", ref |-> ref])
        BY <4>1
      <4>2. CASE \E ref \in Places \cap Offered : Begin(h, [op |-> "dest", ref |-> ref])
        BY <4>2
      <4> QED BY <3>3, <4>1, <4>2 DEF Picked
    <3>4. CASE WebTask(h)
      <4>1. PICK row : Begin(h, [op |-> "web_count", row |-> row])
        BY <3>4 DEF WebTask
      <4> QED BY <4>1
    <3>5. CASE ChangeMode(h)
      <4>1. PICK mode, t, src, born : Begin(h, [op |-> "mode", mode |-> mode, task |-> t,
                                                src |-> src, born |-> born])
        BY <3>5 DEF ChangeMode
      <4> QED BY <4>1
    <3>6. CASE AskPlace(h)
      BY <3>6 DEF AskPlace
    <3> QED BY <1>3, <3>1, <3>2, <3>3, <3>4, <3>5, <3>6
  <2>3. hand' = [hand EXCEPT ![h] = does]
    BY <2>2 DEF Begin
  <2> QED BY <1>1, <2>1, <2>2, <2>3, QuietRoom
<1> QED BY <1>2, <1>3

\* Every step keeps the counts within the plan and what was open.
LEMMA RoomIsKept ==
    ASSUME DeskInv, DeskInv', RoomInv, [DeskNext]_desk
    PROVE  RoomInv'
<1>1. CASE UNCHANGED desk
  <2>1. tasks' = tasks /\ dialog' = dialog /\ hand' = hand
    BY <1>1 DEF desk
  <2> QED BY <2>1, QuietRoom
<1>2. CASE Cancel
  <2>1. tasks' = tasks /\ hand' = hand /\ dialog'.task = 0 /\ ~dialog'.asked
    BY <1>2 DEF Cancel, NoDialog
  <2> QED BY <2>1, QuietRoom
<1>3. CASE DeleteTask \/ DropPlace
  BY <1>3, AwayRoom
<1>4. ASSUME NEW h \in Handlers,
             \/ NewTask(h) \/ Reply(h) \/ Picked(h) \/ AcceptSource(h) \/ AcceptFeed(h)
             \/ AcceptDest(h) \/ SimpleSource(h) \/ SimpleDest(h) \/ WebTask(h)
             \/ ChangeMode(h) \/ AskPlace(h)
      PROVE  RoomInv'
  BY <1>4, AnswerRoom
<1>5. ASSUME NEW h \in Handlers,
             \/ OpenTask(h) \/ Title(h) \/ InsertTask(h) \/ WriteIds(h) \/ WebCount(h)
             \/ WriteMode(h) \/ OpenPlace(h) \/ GotPlace(h) \/ WebPlace(h) \/ CheckPlace(h)
             \/ AddPlace(h)
      PROVE  RoomInv'
  BY <1>5, OpenRoom, TitleRoom, InsertRoom, IdsRoom, WebRoom, OpenPlaceRoom,
     PlaceRoomIsKept, CheckRoom, AddRoom
<1> QED BY <1>1, <1>2, <1>3, <1>4, <1>5 DEF DeskNext

\* The first task is within the plan, if need be as one that was open.
LEMMA RoomBegins ==
    ASSUME DeskInit, DeskInv
    PROVE  RoomInv
<1>1. dialog = NoDialog /\ hand = [h \in Handlers |-> Rest]
  BY DEF DeskInit
<1>2. /\ DOMAIN tasks \subseteq {1}
      /\ \A t : Extras(t) = <<>>
  <2>1. CASE tasks = <<>>
    BY <2>1 DEF Extras
  <2> DEFINE row == [TaskRow("telegram", "full", FirstSource, ChatOf[FirstSource],
                             FirstPlace, ChatOf[FirstPlace], TRUE, TRUE) EXCEPT !.born = 1]
  <2>2. CASE tasks = <<row>>
    <3>1. row.extras = <<>>
      BY DEF TaskRow
    <3> HIDE DEF row
    <3> QED BY <2>2, <3>1 DEF Extras
  <2> HIDE DEF row
  <2> QED BY <2>1, <2>2 DEF DeskInit, row
<1>3. AskedRows = {} /\ \A t : WebAdds(t) = {} /\ BotAdds(t) = {}
  BY <1>1 DEF AskedRows, WebAdds, BotAdds, Rest
<1>4. Cardinality({}) = 0 /\ IsFiniteSet({1}) /\ Cardinality({1}) = 1
  <2>1. Cardinality({}) = 0 /\ IsFiniteSet({})
    BY FS_EmptySet
  <2>2. IsFiniteSet({} \cup {1}) /\ Cardinality({} \cup {1}) = 1
    BY <2>1, FS_AddElement
  <2>3. {} \cup {1} = {1}
    OBVIOUS
  <2> QED BY <2>1, <2>2, <2>3
<1>5. /\ IsFiniteSet(DOMAIN tasks) /\ AskedTasks \subseteq {1}
      /\ DOMAIN tasks \subseteq Nat \ {0}
  BY <1>2, <1>4, FS_Subset DEF AskedTasks
<1>6. Cardinality(AskedTasks) <= 1 /\ Cardinality(AskedTasks) \in Nat
  <2>1. Cardinality(AskedTasks) <= Cardinality({1}) /\ IsFiniteSet(AskedTasks)
    BY <1>4, <1>5, FS_Subset
  <2>2. Cardinality(AskedTasks) \in Nat
    BY <2>1, FS_CardinalityType
  <2> QED BY <1>4, <2>1, <2>2
<1>7. Cardinality(Handlers) \in Nat /\ Cardinality(Handlers) >= 1
  <2>1. PICK h \in Handlers : TRUE
    BY DeskAssumption
  <2>2. {} \subseteq Handlers /\ h \notin {}
    OBVIOUS
  <2>3. Cardinality({}) < Cardinality(Handlers) /\ Cardinality(Handlers) \in Nat
    BY <2>2, Crowd
  <2> QED BY <1>4, <2>3
<1>8. AskedDialog = 0 /\ TaskLimit \in Nat /\ ExtraLimit \in Nat
  BY <1>1, DeskAssumption DEF AskedDialog, NoDialog
<1>9. AskedInv
  BY <1>3, <1>4, <1>6, <1>7, <1>8 DEF AskedInv
<1>10. ASSUME NEW t \in Nat \ {0}
       PROVE  PlaceRoom(t)
  <2>1. Len(Extras(t)) = 0 /\ Cardinality(WebAdds(t)) = 0 /\ Cardinality(BotAdds(t)) = 0
    BY <1>2, <1>3, <1>4
  <2> QED BY <1>7, <1>8, <2>1 DEF PlaceRoom
<1> QED BY <1>5, <1>9, <1>10 DEF RoomInv, PlacesInv

\* The counts imply the limit that TasksFit names.
LEMMA RoomSays ==
    ASSUME DeskInv, RoomInv
    PROVE  WithinPlan
<1>1. Cardinality(AskedTasks) <= TaskLimit + Cardinality(Handlers)
  <2>1. IsFiniteSet(AskedTasks)
    BY FS_Subset DEF RoomInv, AskedTasks
  <2>2. Cardinality(AskedTasks) \in Nat
    BY <2>1, FS_CardinalityType
  <2>3. AskedRows \subseteq Handlers
    BY DEF AskedRows
  <2>4. Cardinality(AskedRows) \in Nat /\ Cardinality(Handlers) \in Nat
    BY <2>3, Crowd
  <2>5. AskedDialog \in 0 .. 1 /\ TaskLimit \in Nat
    BY DeskAssumption DEF AskedDialog
  <2>6. Cardinality(AskedTasks) + Cardinality(AskedRows) + AskedDialog
           <= TaskLimit + Cardinality(Handlers)
    BY DEF RoomInv, AskedInv
  <2> QED BY <2>2, <2>4, <2>5, <2>6
<1>2. ASSUME NEW t \in DOMAIN tasks
      PROVE  Len(tasks[t].extras) < ExtraLimit + 2 * Cardinality(Handlers)
  <2>1. t \in Nat \ {0} /\ Extras(t) = tasks[t].extras
    BY DEF RoomInv, Extras
  <2>2. Len(Extras(t)) + Cardinality(WebAdds(t)) + Cardinality(BotAdds(t))
           < ExtraLimit + 2 * Cardinality(Handlers)
    BY <2>1 DEF RoomInv, PlacesInv, PlaceRoom
  <2>3. WebAdds(t) \subseteq Handlers /\ BotAdds(t) \subseteq Handlers
    BY DEF WebAdds, BotAdds
  <2>4. Cardinality(WebAdds(t)) \in Nat /\ Cardinality(Handlers) \in Nat
    BY <2>3, Crowd
  <2>5. Cardinality(BotAdds(t)) \in Nat /\ Len(Extras(t)) \in Nat /\ ExtraLimit \in Nat
    BY <2>3, Crowd, ExtrasLength, DeskAssumption
  <2> QED BY <2>1, <2>2, <2>4, <2>5
<1> QED BY <1>1, <1>2 DEF WithinPlan, AskedTasks

\* Whatever the coroutines of one customer do beside each other, and however long: a task
\* whose answers were one dialogue's reads and posts where they say, and nowhere twice; and
\* the tasks and places that were asked about pass the plan by no more than what was open.
THEOREM TasksAreFit == DeskSpec => []TasksFit
<1>1. DeskInit => DeskInv /\ RoomInv
  BY DeskBegins, RoomBegins
<1>2. ASSUME DeskInv /\ RoomInv, [DeskNext]_desk
      PROVE  (DeskInv /\ RoomInv)'
  <2>1. DeskInv'
    BY <1>2, DeskIsKept
  <2> QED BY <1>2, <2>1, RoomIsKept
<1>3. DeskInv /\ RoomInv => TasksFit
  BY DeskSays, RoomSays DEF TasksFit
<1> QED BY <1>1, <1>2, <1>3, PTL DEF DeskSpec

-----------------------------------------------------------------------------
\* The notices about the end of a subscription (Reminders).

\* i ends last of S, the first of several.
IsLast(i, S) ==
    /\ i \in S
    /\ \A j \in S : subs[j].end < subs[i].end \/ (subs[j].end = subs[i].end /\ i <= j)

\* The first and the last hour in which a notice is due, and the stage that sends it.
Opens(n) ==
    LET e == subs[n[2]].end
    IN  CASE n[1] = "expiry_3" -> e - 3 * DayHours + 1
          [] n[1] = "expiry_1" -> e - DayHours + 1
          [] n[1] = "churn_ask" -> e + ChurnAfter
          [] n[1] = "agent_expiry_soon" -> e - Warning
          [] n[1] = "agent_expired" -> e
Closes(n) ==
    LET e == subs[n[2]].end
    IN  CASE n[1] = "expiry_3" -> e - 2 * DayHours
          [] n[1] = "expiry_1" -> e - 1
          [] n[1] = "churn_ask" -> e + ChurnBefore
          [] n[1] = "agent_expiry_soon" -> e - 1
          [] n[1] = "agent_expired" -> e + Grace - 1
StageOf(n) == IF n[1] \in {"churn_ask", "agent_expired"} THEN 2 ELSE 1

\* The hour at which a round that will send n begins at the latest: each message that was
\* lost costs one round.
Tries(l) == IF l = "agentnudge" THEN troubles * (SellerRound + 1) ELSE 0
LastCall(l, n) == Opens(n) + Interval[l] + Tries(l)

\* n is due by now, nothing came between, and it was not sent yet.
Awaited(l, n) ==
    /\ n \in Notices /\ n[1] \in About[l] /\ n[2] \in SubIds
    /\ l = "agentnudge" => subs[n[2]].who \in Sold
    /\ upSince < Opens(n) /\ Opens(n) <= hour /\ n \notin told
    /\ \A j \in OfCustomer(subs[n[2]].who, SubIds) : subs[j].set < Opens(n)
    /\ IsLast(n[2], OfCustomer(subs[n[2]].who, SubIds))

\* The round that runs has it on its list, or will.
StillComes(l, n) ==
    \/ \E g \in turn[l].todo : n \in g
    \/ turn[l].stage = 1 /\ StageOf(n) = 2

\* What a group of the list is: of one loop's kinds and of subscriptions that are there, one
\* notice where each is looked up before it is sent, otherwise without what was told.
GroupOK(l, g) ==
    /\ g \subseteq Notices /\ \A n \in g : n[1] \in About[l]
    /\ l = "reminders" => \A n, m \in g : n = m
    /\ l = "agentnudge" => g \cap told \subseteq unmarked

MarksTell ==
    /\ \A n \in Notices : HasMark(n) => n \in told
    /\ \A n \in told \ unmarked : HasMark(n) \/ \E l \in DOMAIN turn : n \in turn[l].doing
    /\ \A l \in DOMAIN turn : turn[l].doing \subseteq told

ListsOK ==
    \A l \in DOMAIN turn :
        /\ \A g \in turn[l].todo : GroupOK(l, g)
        /\ \A g, h \in turn[l].todo : g = h \/ g \cap h = {}
        /\ turn[l].stage = 0 => turn[l].todo = {} /\ turn[l].doing = {}

OnTime ==
    \A l \in DOMAIN turn :
        IF turn[l].stage = 0 THEN hour <= turn[l].at /\ turn[l].at <= hour + Interval[l]
        ELSE turn[l].at <= hour /\ hour <= turn[l].at + 1

Heading ==
    \A l \in DOMAIN turn : \A n \in Notices : Awaited(l, n) =>
        IF turn[l].stage = 0 \/ StillComes(l, n) THEN turn[l].at <= LastCall(l, n)
        ELSE turn[l].at + 1 + Interval[l] <= LastCall(l, n)

RemindInv == RemindTypeOK /\ MarksTell /\ ListsOK /\ OnTime /\ Heading /\ again = {}

\* The constants and the names of the two loops.
LEMMA LoopConstants ==
    /\ Round \in Nat /\ SellerRound \in Nat /\ Round > 0 /\ SellerRound > 0
    /\ DayHours \in Nat /\ DayHours > 0
    /\ ChurnAfter \in Nat /\ ChurnBefore \in Nat /\ Warning \in Nat /\ Grace \in Nat
    /\ MaxHour \in Nat /\ MaxSubs \in Nat /\ MaxTroubles \in Nat
    /\ \A l \in Loops : Interval[l] \in Nat /\ Interval[l] > 0
    /\ Interval["reminders"] = Round /\ Interval["agentnudge"] = SellerRound
    /\ About["reminders"] = {"expiry_3", "expiry_1", "churn_ask"}
    /\ About["agentnudge"] = {"agent_expiry_soon", "agent_expired"}
    /\ Warnings = {"expiry_3", "expiry_1"} /\ Expiry["expiry_3"] = 3 /\ Expiry["expiry_1"] = 1
<1>1. /\ Round \in Nat /\ SellerRound \in Nat /\ Round > 0 /\ SellerRound > 0
      /\ DayHours \in Nat /\ DayHours > 0
      /\ ChurnAfter \in Nat /\ ChurnBefore \in Nat /\ Warning \in Nat /\ Grace \in Nat
      /\ MaxHour \in Nat /\ MaxSubs \in Nat /\ MaxTroubles \in Nat
  BY RemindersAssumption
<1>2. Warnings = {"expiry_3", "expiry_1"}
  BY DEF Warnings, Expiry
<1>3. Expiry["expiry_3"] = 3 /\ Expiry["expiry_1"] = 1
  BY DEF Expiry
<1>4. Interval["reminders"] = Round /\ Interval["agentnudge"] = SellerRound
  BY DEF Interval
<1>5. /\ About["reminders"] = {"expiry_3", "expiry_1", "churn_ask"}
      /\ About["agentnudge"] = {"agent_expiry_soon", "agent_expired"}
  BY <1>2 DEF About
<1>6. \A l \in Loops : Interval[l] \in Nat /\ Interval[l] > 0
  BY <1>1, <1>4 DEF Loops
<1> QED
  BY <1>1, <1>2, <1>3, <1>4, <1>5, <1>6

\* The subscriptions, their ends, and that what ends last is there.
LEMMA SubsAre ==
    ASSUME RemindTypeOK
    PROVE  /\ SubIds = 1 .. Len(subs) /\ Len(subs) \in Nat /\ Len(subs) <= MaxSubs
           /\ IsFiniteSet(SubIds) /\ SubIds \subseteq 1 .. MaxSubs
           /\ \A i \in SubIds : /\ subs[i].who \in Customers /\ subs[i].end \in Nat
                                /\ subs[i].set \in 0 .. MaxHour
<1>1. Len(subs) \in Nat /\ SubIds = 1 .. Len(subs) /\ Len(subs) <= MaxSubs
  BY DEF RemindTypeOK, SubIds
<1>2. IsFiniteSet(SubIds)
  BY <1>1, FS_Interval
<1>3. SubIds \subseteq 1 .. MaxSubs
  BY <1>1, LoopConstants
<1> DEFINE Sub == [who : Customers, end : Nat, set : 0 .. MaxHour]
<1>4. \A i \in SubIds : subs[i] \in Sub
  <2>1. subs \in Seq(Sub)
    BY DEF RemindTypeOK
  <2> HIDE DEF Sub
  <2> QED
    BY <1>1, <2>1
<1> QED
  BY <1>1, <1>2, <1>3, <1>4

\* Of every set of subscriptions one ends last.
LEMMA SomeEndsLast ==
    ASSUME RemindTypeOK, NEW S, S \subseteq SubIds, S # {}
    PROVE  \E i \in S : IsLast(i, S)
<1> DEFINE Bad == {T \in SUBSET S : T # {} /\ ~\E i \in T : IsLast(i, T)}
<1> SUFFICES ASSUME Bad # {} PROVE FALSE
  OBVIOUS
<1>1. PICK m \in Bad : \A t \in Bad : ~(t \subseteq m /\ t # m)
  <2>1. Bad \in SUBSET SUBSET S /\ IsFiniteSet(S)
    BY SubsAre, FS_Subset
  <2> HIDE DEF Bad
  <2> QED
    BY <2>1, SmallestSet
<1>2. PICK x : x \in m
  BY <1>1
<1>3. \A i \in m : subs[i].end \in Int /\ i \in Int
  BY <1>1, SubsAre
<1>4. CASE m = {x}
  <2>1. IsLast(x, m)
    BY <1>2, <1>3, <1>4 DEF IsLast
  <2> QED
    BY <1>1, <1>2, <2>1
<1>5. CASE m # {x}
  <2>1. PICK y \in m \ {x} : IsLast(y, m \ {x})
    BY <1>1, <1>2, <1>5
  <2>2. \/ subs[x].end < subs[y].end \/ subs[y].end < subs[x].end
        \/ subs[x].end = subs[y].end /\ (x <= y \/ y <= x)
    BY <1>2, <1>3, <2>1 DEF IsLast
  <2>3. ASSUME subs[x].end < subs[y].end \/ (subs[x].end = subs[y].end /\ y <= x) PROVE IsLast(y, m)
    BY <1>2, <1>3, <2>1, <2>3 DEF IsLast
  <2>4. ASSUME subs[y].end < subs[x].end \/ (subs[x].end = subs[y].end /\ x <= y) PROVE IsLast(x, m)
    <3>1. ASSUME NEW j \in m \ {x}
          PROVE  subs[j].end < subs[x].end \/ (subs[j].end = subs[x].end /\ x <= j)
      BY <1>2, <1>3, <2>1, <2>4, <3>1 DEF IsLast
    <3> QED
      BY <1>2, <1>3, <3>1 DEF IsLast
  <2> QED
    BY <1>1, <1>2, <2>1, <2>2, <2>3, <2>4
<1> QED
  BY <1>4, <1>5

\* It is what EndsLast names.
LEMMA EndsLastIs ==
    ASSUME RemindTypeOK, NEW S, S \subseteq SubIds, S # {}
    PROVE  IsLast(EndsLast(S), S) /\ \A i : IsLast(i, S) => i = EndsLast(S)
<1>1. \A i : IsLast(i, S) <=>
         i \in S /\ \A j \in S : \/ subs[j].end < subs[i].end
                                 \/ subs[j].end = subs[i].end /\ i <= j
  BY DEF IsLast
<1>2. \E i \in S : \A j \in S : \/ subs[j].end < subs[i].end
                                \/ subs[j].end = subs[i].end /\ i <= j
  BY <1>1, SomeEndsLast
<1>3. IsLast(EndsLast(S), S)
  BY <1>1, <1>2 DEF EndsLast
<1>4. \A i \in S : subs[i].end \in Int /\ i \in Int
  BY SubsAre
<1>5. ASSUME NEW i, IsLast(i, S) PROVE i = EndsLast(S)
  BY <1>3, <1>4, <1>5 DEF IsLast
<1> QED
  BY <1>3, <1>5

\* The last ones of their customers.
LEMMA LatestAre ==
    ASSUME RemindTypeOK, NEW S, S \subseteq SubIds
    PROVE  /\ Latest(S) \subseteq S
           /\ \A i \in S : IsLast(i, OfCustomer(subs[i].who, S)) => i \in Latest(S)
<1>1. \A c : OfCustomer(c, S) \subseteq S
  BY DEF OfCustomer
<1>2. ASSUME NEW i \in S
      PROVE  /\ i \in OfCustomer(subs[i].who, S)
             /\ EndsLast(OfCustomer(subs[i].who, S)) \in S
             /\ IsLast(i, OfCustomer(subs[i].who, S)) => i = EndsLast(OfCustomer(subs[i].who, S))
  <2>1. i \in OfCustomer(subs[i].who, S)
    BY DEF OfCustomer
  <2>2. OfCustomer(subs[i].who, S) \subseteq SubIds /\ OfCustomer(subs[i].who, S) # {}
    BY <1>1, <2>1
  <2>3. EndsLast(OfCustomer(subs[i].who, S)) \in OfCustomer(subs[i].who, S)
    BY <2>2, EndsLastIs DEF IsLast
  <2> QED
    BY <1>1, <2>1, <2>2, <2>3, EndsLastIs
<1> QED
  BY <1>2 DEF Latest

\* What a stage is about are notices of its loop's kinds.
LEMMA StageKinds ==
    ASSUME RemindTypeOK, NEW l \in Loops, NEW s \in {1, 2}, NEW g \in Stage(l, s)
    PROVE  g \subseteq Notices /\ \A n \in g : n[1] \in About[l]
<1>1. SubIds \subseteq 1 .. MaxSubs /\ Running \subseteq SubIds
  BY SubsAre DEF Running
<1>2. Latest(Running) \subseteq SubIds /\ Latest(SubIds) \subseteq SubIds
  BY <1>1, LatestAre
<1>3. /\ Warned \subseteq Warnings \X SubIds /\ {"churn_ask"} \X Left \subseteq {"churn_ask"} \X SubIds
      /\ Unmarked("agent_expiry_soon", EndsSoon) \subseteq {"agent_expiry_soon"} \X SubIds
      /\ Unmarked("agent_expired", JustEnded) \subseteq {"agent_expired"} \X SubIds
  BY <1>2 DEF Warned, Left, Unmarked, EndsSoon, JustEnded, Owned
<1>4. \A S : \A h \in BySeller(S) : h \subseteq S
  BY DEF BySeller
<1>5. \/ l = "reminders" /\ s = 1 /\ g \subseteq Warned
      \/ l = "reminders" /\ s = 2 /\ g \subseteq {"churn_ask"} \X Left
      \/ l = "agentnudge" /\ s = 1 /\ g \subseteq Unmarked("agent_expiry_soon", EndsSoon)
      \/ l = "agentnudge" /\ s = 2 /\ g \subseteq Unmarked("agent_expired", JustEnded)
  BY <1>4 DEF Stage, Loops
<1>6. g \subseteq About[l] \X SubIds
  <2>1. CASE l = "reminders"
    <3>1. g \subseteq Warnings \X SubIds \/ g \subseteq {"churn_ask"} \X SubIds
      BY <1>3, <1>5, <2>1
    <3>2. Warnings \subseteq About[l] /\ "churn_ask" \in About[l]
      BY <2>1, LoopConstants
    <3> QED
      BY <3>1, <3>2
  <2>2. CASE l = "agentnudge"
    <3>1. g \subseteq {"agent_expiry_soon"} \X SubIds \/ g \subseteq {"agent_expired"} \X SubIds
      BY <1>3, <1>5, <2>2
    <3>2. "agent_expiry_soon" \in About[l] /\ "agent_expired" \in About[l]
      BY <2>2, LoopConstants
    <3> QED
      BY <3>1, <3>2
  <2> QED
    BY <2>1, <2>2 DEF Loops
<1>7. About[l] \subseteq NoticeKinds
  BY LoopConstants DEF Loops, NoticeKinds
<1> QED
  BY <1>1, <1>6, <1>7 DEF Notices

\* The number of whole days in a span.
LEMMA WholeDays ==
    ASSUME NEW d \in Nat, d > 0, NEW x \in Nat
    PROVE  /\ x < d => x \div d = 0
           /\ 2 * d <= x /\ x < 3 * d => x \div d = 2
<1>1. ASSUME NEW q \in Int, q = x \div d
      PROVE  \E r \in 0 .. d - 1 : x = d * q + r
  BY <1>1
<1> QED
  BY <1>1

\* No notice is in two groups; one to a customer is a group, and those to a reseller
\* have no mark when the list is made.
LEMMA StageGroups ==
    ASSUME RemindTypeOK, NEW l \in Loops, NEW s \in {1, 2}
    PROVE  /\ \A g, h \in Stage(l, s) : g = h \/ g \cap h = {}
           /\ l = "reminders" => \A g \in Stage(l, s) : \A n, m \in g : n = m
           /\ l = "agentnudge" => \A g \in Stage(l, s) : \A n \in g : ~HasMark(n)
<1>1. CASE l = "reminders"
  <2>1. Stage(l, s) = {{n} : n \in Warned} \/ Stage(l, s) = {{n} : n \in {"churn_ask"} \X Left}
    BY <1>1 DEF Stage
  <2>2. \A g \in Stage(l, s) : \E n : g = {n}
    BY <2>1
  <2> QED
    BY <1>1, <2>2
<1>2. CASE l = "agentnudge"
  <2>1. \E k, S : Stage(l, s) = BySeller(Unmarked(k, S))
    BY <1>2 DEF Stage
  <2>2. ASSUME NEW T PROVE \A g, h \in BySeller(T) : g = h \/ g \cap h = {}
    BY DEF BySeller
  <2>3. ASSUME NEW T PROVE \A g \in BySeller(T) : g \subseteq T
    BY DEF BySeller
  <2>4. \A k, S : \A n \in Unmarked(k, S) : ~HasMark(n)
    BY DEF Unmarked
  <2> QED
    BY <1>2, <2>1, <2>2, <2>3, <2>4
<1> QED
  BY <1>1, <1>2 DEF Loops

\* Whoever reads the tables in time finds what is awaited.
LEMMA AwaitedIsFound ==
    ASSUME RemindTypeOK, MarksTell, NEW l \in Loops, NEW n, Awaited(l, n), hour <= Closes(n)
    PROVE  \E g \in Stage(l, StageOf(n)) : n \in g
<1> DEFINE k == n[1]
           i == n[2]
           e == subs[i].end
           Mine == OfCustomer(subs[i].who, SubIds)
<1>0. /\ n = <<k, i>> /\ k \in About[l] /\ i \in SubIds /\ Opens(n) <= hour /\ ~HasMark(n)
      /\ l = "agentnudge" => subs[i].who \in Sold
      /\ IsLast(i, Mine)
  BY DEF Awaited, Notices, MarksTell
<1>1. e \in Nat /\ hour \in Nat /\ \A j \in SubIds : subs[j].end \in Nat
  <2>1. i \in SubIds /\ \A j \in SubIds : subs[j].end \in Nat
    BY <1>0, SubsAre
  <2>2. hour \in Nat
    BY LoopConstants DEF RemindTypeOK
  <2> QED
    BY <2>1, <2>2
<1> HIDE DEF k, i, e
<1>2. i \in Latest(SubIds)
  BY <1>0, LatestAre DEF Mine
<1>3. ASSUME e > hour PROVE i \in Latest(Running)
  <2>1. i \in Running /\ Running \subseteq SubIds
    BY <1>0, <1>3 DEF Running, e
  <2>2. IsLast(i, OfCustomer(subs[i].who, Running))
    BY <1>0, <2>1 DEF IsLast, OfCustomer, Mine
  <2> QED
    BY <2>1, <2>2, LatestAre
<1>4. CASE l = "reminders" /\ k \in {"expiry_3", "expiry_1"}
  <2>1. StageOf(n) = 1 /\ Stage(l, 1) = {{m} : m \in Warned}
    BY <1>4 DEF StageOf, Stage, k
  <2>2. /\ k = "expiry_3" => e - 3 * DayHours + 1 <= hour /\ hour <= e - 2 * DayHours
        /\ k = "expiry_1" => e - DayHours + 1 <= hour /\ hour <= e - 1
    BY <1>0, <1>4 DEF Opens, Closes, k, i, e
  <2>3. e > hour /\ e - hour \in Nat
    BY <1>1, <1>4, <2>2, LoopConstants
  <2>4. DaysLeft(i) = Expiry[k] - 1
    <3>1. CASE k = "expiry_3"
      <4>1. (e - hour) \div DayHours = 2
        BY <1>1, <2>2, <2>3, <3>1, WholeDays, LoopConstants
      <4> QED
        BY <3>1, <4>1, LoopConstants DEF DaysLeft, e
    <3>2. CASE k = "expiry_1"
      <4>1. (e - hour) \div DayHours = 0
        BY <1>1, <2>2, <2>3, <3>2, WholeDays, LoopConstants
      <4> QED
        BY <3>2, <4>1, LoopConstants DEF DaysLeft, e
    <3> QED
      BY <1>4, <3>1, <3>2
  <2>5. n \in Warned
    BY <1>0, <1>3, <1>4, <2>3, <2>4, LoopConstants DEF Warned
  <2> QED
    BY <2>1, <2>5
<1>5. CASE l = "reminders" /\ k = "churn_ask"
  <2>1. StageOf(n) = 2 /\ Stage(l, 2) = {{m} : m \in {"churn_ask"} \X Left}
    BY <1>5 DEF StageOf, Stage, k
  <2>2. e + ChurnAfter <= hour /\ hour <= e + ChurnBefore
    BY <1>0, <1>5 DEF Opens, Closes, k, i, e
  <2>3. Gone(i) \in ChurnAfter .. ChurnBefore
    BY <1>1, <2>2, LoopConstants DEF Gone, e
  <2>4. OfCustomer(subs[i].who, Running) = {}
    <3>1. \A j \in Mine : subs[j].end <= e
      BY <1>0, <1>1 DEF IsLast, Mine, OfCustomer, e
    <3>2. \A j \in Mine : ~(subs[j].end > hour)
      BY <1>1, <2>2, <3>1, LoopConstants DEF Mine, OfCustomer
    <3> QED
      BY <3>2 DEF Mine, OfCustomer, Running
  <2>5. n \in {"churn_ask"} \X Left
    BY <1>0, <1>5, <2>3, <2>4 DEF Left
  <2> QED
    BY <2>1, <2>5
<1>6. ASSUME NEW S, n \in Unmarked(k, S) PROVE \E g \in BySeller(Unmarked(k, S)) : n \in g
  <2> DEFINE g == {m \in Unmarked(k, S) : SellerTold(m) = SellerTold(n)}
  <2>1. n \in g
    BY <1>6
  <2>2. g \in BySeller(Unmarked(k, S))
    BY <1>6 DEF BySeller
  <2> QED
    BY <2>1, <2>2
<1>7. CASE l = "agentnudge" /\ k = "agent_expiry_soon"
  <2>1. StageOf(n) = 1 /\ Stage(l, 1) = BySeller(Unmarked("agent_expiry_soon", EndsSoon))
    BY <1>7 DEF StageOf, Stage, k
  <2>2. e - Warning <= hour /\ hour <= e - 1
    BY <1>0, <1>7 DEF Opens, Closes, k, i, e
  <2>3. i \in EndsSoon
    BY <1>0, <1>1, <1>2, <1>7, <2>2, LoopConstants DEF EndsSoon, Owned, e
  <2>4. n \in Unmarked("agent_expiry_soon", EndsSoon)
    BY <1>0, <1>7, <2>3 DEF Unmarked
  <2> QED
    BY <1>6, <1>7, <2>1, <2>4
<1>8. CASE l = "agentnudge" /\ k = "agent_expired"
  <2>1. StageOf(n) = 2 /\ Stage(l, 2) = BySeller(Unmarked("agent_expired", JustEnded))
    BY <1>8 DEF StageOf, Stage, k
  <2>2. e <= hour /\ hour <= e + Grace - 1
    BY <1>0, <1>8 DEF Opens, Closes, k, i, e
  <2>3. i \in JustEnded
    BY <1>0, <1>1, <1>2, <1>8, <2>2, LoopConstants DEF JustEnded, Gone, Owned, e
  <2>4. n \in Unmarked("agent_expired", JustEnded)
    BY <1>0, <1>8, <2>3 DEF Unmarked
  <2> QED
    BY <1>6, <1>8, <2>1, <2>4
<1> QED
  BY <1>0, <1>4, <1>5, <1>7, <1>8, LoopConstants DEF Loops

\* Notices of one message, lists of them, and a coroutine's step with its local variables.
Groups == SUBSET Notices
Lists == SUBSET Groups
Turn == [stage : 0 .. 2, at : Nat, todo : Lists, doing : Groups]

\* A behaviour has one loop.
LEMMA OneLoop ==
    ASSUME RemindTypeOK
    PROVE  \E l \in Loops :
              DOMAIN turn = {l} /\ turn = [x \in {l} |-> turn[l]] /\ turn[l] \in Turn
<1>1. PICK l \in Loops : turn \in [{l} -> Turn]
  BY DEF RemindTypeOK, Turn, Lists, Groups
<1> QED
  BY <1>1

\* What is left of a coroutine's step when its fields are replaced.
LEMMA TurnReplaced ==
    ASSUME NEW r \in Turn
    PROVE  /\ \A S \in Lists, q \in 0 .. 2, h \in Nat :
                [r EXCEPT !.stage = q, !.at = h, !.todo = S]
                  = [stage |-> q, at |-> h, todo |-> S, doing |-> r.doing]
           /\ \A S \in Lists, q \in 0 .. 2 :
                [r EXCEPT !.stage = q, !.todo = S]
                  = [stage |-> q, at |-> r.at, todo |-> S, doing |-> r.doing]
           /\ \A S \in Lists :
                [r EXCEPT !.todo = S] = [stage |-> r.stage, at |-> r.at, todo |-> S, doing |-> r.doing]
           /\ \A S \in Lists, D \in Groups :
                [r EXCEPT !.todo = S, !.doing = D]
                  = [stage |-> r.stage, at |-> r.at, todo |-> S, doing |-> D]
           /\ \A D \in Groups :
                [r EXCEPT !.doing = D]
                  = [stage |-> r.stage, at |-> r.at, todo |-> r.todo, doing |-> D]
<1> USE DEF Turn
<1>0. ASSUME NEW p \in Turn, NEW S \in Lists, NEW D \in Groups, NEW q \in 0 .. 2, NEW h \in Nat
      PROVE /\ [p EXCEPT !.stage = q] = [stage |-> q, at |-> p.at, todo |-> p.todo, doing |-> p.doing]
            /\ [p EXCEPT !.at = h] = [stage |-> p.stage, at |-> h, todo |-> p.todo, doing |-> p.doing]
            /\ [p EXCEPT !.todo = S] = [stage |-> p.stage, at |-> p.at, todo |-> S, doing |-> p.doing]
            /\ [p EXCEPT !.doing = D] = [stage |-> p.stage, at |-> p.at, todo |-> p.todo, doing |-> D]
  OBVIOUS
<1>1. ASSUME NEW p \in Turn, NEW S \in Lists, NEW q \in 0 .. 2, NEW h \in Nat
      PROVE /\ [p EXCEPT !.stage = q] \in Turn /\ [p EXCEPT !.at = h] \in Turn
            /\ [p EXCEPT !.todo = S] \in Turn
  OBVIOUS
<1>e. {} \in Groups /\ {} \in Lists /\ 0 \in 0 .. 2 /\ 0 \in Nat
  BY DEF Groups, Lists
<1>2. \A S \in Lists, q \in 0 .. 2, h \in Nat :
        [r EXCEPT !.stage = q, !.at = h, !.todo = S]
          = [stage |-> q, at |-> h, todo |-> S, doing |-> r.doing]
  <2> SUFFICES ASSUME NEW S \in Lists, NEW q \in 0 .. 2, NEW h \in Nat
               PROVE  [r EXCEPT !.stage = q, !.at = h, !.todo = S]
                        = [stage |-> q, at |-> h, todo |-> S, doing |-> r.doing]
    OBVIOUS
  <2> DEFINE o == [r EXCEPT !.stage = q]
             p == [o EXCEPT !.at = h]
  <2>1. o \in Turn /\ o = [stage |-> q, at |-> r.at, todo |-> r.todo, doing |-> r.doing]
    BY <1>0, <1>1, <1>e
  <2>2. p \in Turn /\ p = [stage |-> o.stage, at |-> h, todo |-> o.todo, doing |-> o.doing]
    <3>1. o \in Turn
      BY <2>1
    <3> HIDE DEF o
    <3> QED
      BY <3>1
  <2>3. [p EXCEPT !.todo = S] = [stage |-> p.stage, at |-> p.at, todo |-> S, doing |-> p.doing]
    <3>1. p \in Turn
      BY <2>2
    <3> HIDE DEF o, p
    <3> QED
      BY <3>1
  <2>4. [r EXCEPT !.stage = q, !.at = h, !.todo = S] = [p EXCEPT !.todo = S]
    OBVIOUS
  <2> HIDE DEF o, p
  <2>5. p.stage = q /\ p.at = h /\ p.doing = r.doing
    BY <2>1, <2>2
  <2> QED
    BY <2>3, <2>4, <2>5
<1>3. \A S \in Lists, q \in 0 .. 2 :
        [r EXCEPT !.stage = q, !.todo = S] = [stage |-> q, at |-> r.at, todo |-> S, doing |-> r.doing]
  <2> SUFFICES ASSUME NEW S \in Lists, NEW q \in 0 .. 2
               PROVE  [r EXCEPT !.stage = q, !.todo = S]
                        = [stage |-> q, at |-> r.at, todo |-> S, doing |-> r.doing]
    OBVIOUS
  <2> DEFINE p == [r EXCEPT !.stage = q]
  <2>1. p \in Turn /\ p = [stage |-> q, at |-> r.at, todo |-> r.todo, doing |-> r.doing]
    BY <1>0, <1>1, <1>e
  <2>2. [p EXCEPT !.todo = S] = [stage |-> p.stage, at |-> p.at, todo |-> S, doing |-> p.doing]
    BY <1>0, <1>e, <2>1
  <2>3. [r EXCEPT !.stage = q, !.todo = S] = [p EXCEPT !.todo = S]
    OBVIOUS
  <2> HIDE DEF p
  <2>4. p.stage = q /\ p.at = r.at /\ p.doing = r.doing
    BY <2>1
  <2> QED
    BY <2>2, <2>3, <2>4
<1>4. \A S \in Lists, D \in Groups :
        [r EXCEPT !.todo = S, !.doing = D] = [stage |-> r.stage, at |-> r.at, todo |-> S, doing |-> D]
  <2> SUFFICES ASSUME NEW S \in Lists, NEW D \in Groups
               PROVE  [r EXCEPT !.todo = S, !.doing = D]
                        = [stage |-> r.stage, at |-> r.at, todo |-> S, doing |-> D]
    OBVIOUS
  <2> DEFINE p == [r EXCEPT !.todo = S]
  <2>1. p \in Turn /\ p = [stage |-> r.stage, at |-> r.at, todo |-> S, doing |-> r.doing]
    BY <1>0, <1>1, <1>e
  <2>2. [p EXCEPT !.doing = D] = [stage |-> p.stage, at |-> p.at, todo |-> p.todo, doing |-> D]
    BY <1>0, <1>e, <2>1
  <2>3. [r EXCEPT !.todo = S, !.doing = D] = [p EXCEPT !.doing = D]
    OBVIOUS
  <2> HIDE DEF p
  <2>4. p.stage = r.stage /\ p.at = r.at /\ p.todo = S
    BY <2>1
  <2> QED
    BY <2>2, <2>3, <2>4
<1>5. \A S \in Lists, D \in Groups :
        /\ [r EXCEPT !.todo = S] = [stage |-> r.stage, at |-> r.at, todo |-> S, doing |-> r.doing]
        /\ [r EXCEPT !.doing = D] = [stage |-> r.stage, at |-> r.at, todo |-> r.todo, doing |-> D]
  OBVIOUS
<1> QED
  BY <1>2, <1>3, <1>4, <1>5, <1>e, Zenon

\* A step of the one loop l.
StepsTo(l, s, a, S, D) == turn' = [x \in {l} |-> [stage |-> s, at |-> a, todo |-> S, doing |-> D]]

\* Where each action of the loop takes it.
LEMMA StepsOfARound ==
    ASSUME RemindTypeOK, NEW l \in Loops, DOMAIN turn = {l}, turn[l] \in Turn
    PROVE  /\ Begins(l) => StepsTo(l, 1, hour, Stage(l, 1), turn[l].doing)
           /\ GoesOn(l) => \/ /\ turn[l].stage = 1
                              /\ StepsTo(l, 2, turn[l].at, Stage(l, 2), turn[l].doing)
                           \/ turn[l].stage = 2 /\ StepsTo(l, 0, hour + Interval[l], {}, {})
           /\ WritesMarks(l) => StepsTo(l, turn[l].stage, turn[l].at, turn[l].todo, {})
           /\ \A g \in turn[l].todo :
                /\ Passed(l, g) \/ IsLost(l, g) =>
                     StepsTo(l, turn[l].stage, turn[l].at, turn[l].todo \ {g}, turn[l].doing)
                /\ Tells(l, g) => StepsTo(l, turn[l].stage, turn[l].at, turn[l].todo \ {g}, g)
           /\ Restarts => StepsTo(l, 0, hour + Interval[l], {}, {})
<1> DEFINE t == turn[l]
<1>1. t \in Turn
  OBVIOUS
<1>2. t.stage \in 0 .. 2 /\ t.todo \in Lists /\ t.doing \in Groups
  BY <1>1 DEF Turn
<1>3. \A r : Advances(l, r) => turn' = [x \in {l} |-> r]
  BY DEF Advances
<1>4. hour \in Nat
  BY LoopConstants DEF RemindTypeOK
<1>5. Stage(l, 1) \in Lists /\ Stage(l, 2) \in Lists /\ {} \in Groups
  BY StageKinds DEF Lists, Groups
<1>6. \A g \in t.todo : t.todo \ {g} \in Lists /\ g \in Groups
  BY <1>2 DEF Lists
<1>b. 1 \in 0 .. 2 /\ 2 \in 0 .. 2
  OBVIOUS
<1> HIDE DEF t
<1>7. Begins(l) => StepsTo(l, 1, hour, Stage(l, 1), t.doing)
  <2>1. [t EXCEPT !.stage = 1, !.at = hour, !.todo = Stage(l, 1)]
          = [stage |-> 1, at |-> hour, todo |-> Stage(l, 1), doing |-> t.doing]
    <3>1. \A S \in Lists, q \in 0 .. 2, h \in Nat :
            [t EXCEPT !.stage = q, !.at = h, !.todo = S]
              = [stage |-> q, at |-> h, todo |-> S, doing |-> t.doing]
      BY <1>1, TurnReplaced, Zenon
    <3> QED
      BY <1>b, <1>4, <1>5, <3>1
  <2> QED
    BY <1>3, <2>1 DEF Begins, StepsTo, t
<1>8. GoesOn(l) => \/ t.stage = 1 /\ StepsTo(l, 2, t.at, Stage(l, 2), t.doing)
                   \/ t.stage = 2 /\ StepsTo(l, 0, hour + Interval[l], {}, {})
  <2>1. [t EXCEPT !.stage = 2, !.todo = Stage(l, 2)]
          = [stage |-> 2, at |-> t.at, todo |-> Stage(l, 2), doing |-> t.doing]
    <3>1. \A S \in Lists, q \in 0 .. 2 :
            [t EXCEPT !.stage = q, !.todo = S]
              = [stage |-> q, at |-> t.at, todo |-> S, doing |-> t.doing]
      BY <1>1, TurnReplaced, Zenon
    <3> QED
      BY <1>b, <1>5, <3>1
  <2>2. GoesOn(l) => t.stage = 1 \/ t.stage = 2
    BY <1>2 DEF GoesOn, t
  <2>3. GoesOn(l) /\ t.stage = 1 => StepsTo(l, 2, t.at, Stage(l, 2), t.doing)
    BY <1>3, <2>1 DEF GoesOn, StepsTo, t
  <2>4. GoesOn(l) /\ t.stage = 2 => StepsTo(l, 0, hour + Interval[l], {}, {})
    BY <1>3 DEF GoesOn, StepsTo, Asleep, t
  <2> QED
    BY <2>2, <2>3, <2>4
<1>9. WritesMarks(l) => StepsTo(l, t.stage, t.at, t.todo, {})
  <2>1. [t EXCEPT !.doing = {}] = [stage |-> t.stage, at |-> t.at, todo |-> t.todo, doing |-> {}]
    BY <1>1, <1>5, TurnReplaced, Zenon
  <2> QED
    BY <1>3, <2>1 DEF WritesMarks, StepsTo, t
<1>10. ASSUME NEW g \in t.todo
       PROVE  /\ Passed(l, g) \/ IsLost(l, g) => StepsTo(l, t.stage, t.at, t.todo \ {g}, t.doing)
              /\ Tells(l, g) => StepsTo(l, t.stage, t.at, t.todo \ {g}, g)
  <2> DEFINE S == t.todo \ {g}
  <2>0. S \in Lists /\ g \in Groups
    BY <1>6
  <2>1. /\ [t EXCEPT !.todo = S] = [stage |-> t.stage, at |-> t.at, todo |-> S, doing |-> t.doing]
        /\ [t EXCEPT !.todo = S, !.doing = g]
             = [stage |-> t.stage, at |-> t.at, todo |-> S, doing |-> g]
    <3> HIDE DEF S
    <3> QED
      BY <1>1, <2>0, TurnReplaced, Zenon
  <2>2. Passed(l, g) \/ IsLost(l, g) => Advances(l, [t EXCEPT !.todo = S])
    BY DEF Passed, IsLost, t
  <2>3. Tells(l, g) => Advances(l, [t EXCEPT !.todo = S, !.doing = g])
    BY DEF Tells, t
  <2> HIDE DEF S
  <2>4. /\ Passed(l, g) \/ IsLost(l, g) => StepsTo(l, t.stage, t.at, S, t.doing)
        /\ Tells(l, g) => StepsTo(l, t.stage, t.at, S, g)
    BY <1>3, <2>1, <2>2, <2>3 DEF StepsTo
  <2> QED
    BY <2>4 DEF S
<1>11. Restarts => StepsTo(l, 0, hour + Interval[l], {}, {})
  BY DEF Restarts, StepsTo, Asleep
<1> QED
  BY <1>7, <1>8, <1>9, <1>10, <1>11 DEF t

\* Where it is then.
LEMMA GoneThere ==
    ASSUME NEW l, NEW s, NEW a, NEW S, NEW D, StepsTo(l, s, a, S, D)
    PROVE  /\ DOMAIN turn' = {l} /\ turn'[l].stage = s /\ turn'[l].at = a
           /\ turn'[l].todo = S /\ turn'[l].doing = D
  BY DEF StepsTo

\* Every variable keeps its type.
LEMMA RemindTypes == RemindTypeOK /\ [RemindNext]_reminding => RemindTypeOK'
<1> SUFFICES ASSUME RemindTypeOK, [RemindNext]_reminding PROVE RemindTypeOK'
  OBVIOUS
<1> DEFINE Sub == [who : Customers, end : Nat, set : 0 .. MaxHour]
           Tables == /\ hour' \in 0 .. MaxHour
                     /\ subs' \in Seq(Sub) /\ Len(subs') <= MaxSubs
                     /\ noted' \in [Notices -> 0 .. MaxHour \cup {Never}]
                     /\ troubles' \in 0 .. MaxTroubles
                     /\ told' \subseteq Notices /\ unmarked' \subseteq Notices
                     /\ again' \subseteq Notices
                     /\ upSince' \in 0 .. MaxHour
<1>0. /\ hour \in 0 .. MaxHour /\ subs \in Seq(Sub) /\ Len(subs) <= MaxSubs /\ Len(subs) \in Nat
      /\ noted \in [Notices -> 0 .. MaxHour \cup {Never}] /\ troubles \in 0 .. MaxTroubles
      /\ told \subseteq Notices /\ unmarked \subseteq Notices /\ again \subseteq Notices
      /\ upSince \in 0 .. MaxHour
  BY SubsAre DEF RemindTypeOK
<1>1. PICK l \in Loops :
        DOMAIN turn = {l} /\ turn = [x \in {l} |-> turn[l]] /\ turn[l] \in Turn
  BY OneLoop
<1>2. hour \in Nat /\ Interval[l] \in Nat
  BY <1>0, LoopConstants
<1> DEFINE t == turn[l]
<1>3. ASSUME NEW s \in 0 .. 2, NEW a \in Nat, NEW S \in Lists, NEW D \in Groups, StepsTo(l, s, a, S, D)
      PROVE  \E m \in Loops : turn' \in [{m} -> Turn]
  <2>1. [stage |-> s, at |-> a, todo |-> S, doing |-> D] \in Turn
    BY DEF Turn
  <2> QED
    BY <1>3, <2>1 DEF StepsTo
<1>t. t.stage \in 0 .. 2 /\ t.at \in Nat /\ t.todo \subseteq SUBSET Notices /\ t.doing \subseteq Notices
  BY <1>1 DEF Turn, Lists, Groups
<1>w. /\ t.stage \in 0 .. 2 /\ t.at \in Nat /\ t.todo \in Lists /\ t.doing \in Groups
      /\ {} \in Lists /\ {} \in Groups /\ Stage(l, 1) \in Lists /\ Stage(l, 2) \in Lists
      /\ \A g \in t.todo : g \in Groups /\ t.todo \ {g} \in Lists
      /\ hour + Interval[l] \in Nat /\ hour \in Nat
      /\ 0 \in 0 .. 2 /\ 1 \in 0 .. 2 /\ 2 \in 0 .. 2
  BY <1>2, <1>t, StageKinds DEF Lists, Groups
<1> HIDE DEF Sub, t
<1>f. ASSUME Tables, \E m \in Loops : turn' \in [{m} -> Turn] PROVE RemindTypeOK'
  BY <1>f DEF RemindTypeOK, Turn, Lists, Groups, Sub
<1>g. ASSUME Tables, turn' = turn PROVE RemindTypeOK'
  <2>1. turn' \in [{l} -> Turn]
    BY <1>1, <1>g
  <2> QED
    BY <1>f, <1>g, <2>1
<1> HIDE DEF Tables
<1>4. CASE \E c \in Customers, b \in Terms : Buys(c, b)
  <2>1. PICK c \in Customers, b \in Terms : Buys(c, b)
    BY <1>4
  <2> DEFINE current == OfCustomer(c, Running)
             start == IF current = {} THEN hour ELSE subs[EndsLast(current)].end
  <2>2. start \in Nat
    <3>1. CASE current = {}
      BY <1>2, <3>1
    <3>2. CASE current # {}
      <4>1. EndsLast(current) \in SubIds
        <5>1. current \subseteq SubIds
          BY DEF OfCustomer, Running
        <5> HIDE DEF current
        <5> QED
          BY <3>2, <5>1, EndsLastIs DEF IsLast
      <4> QED
        BY <3>2, <4>1, SubsAre
    <3> QED
      BY <3>1, <3>2
  <2>3. [who |-> c, end |-> start + b, set |-> hour] \in Sub
    <3>1. b \in Nat
      BY RemindersAssumption
    <3> HIDE DEF start
    <3> QED
      BY <1>0, <2>2, <3>1 DEF Sub
  <2>4. /\ subs' = Append(subs, [who |-> c, end |-> start + b, set |-> hour]) /\ Len(subs) < MaxSubs
        /\ UNCHANGED <<hour, noted, turn, troubles, told, unmarked, again, upSince>>
    BY <2>1 DEF Buys
  <2> HIDE DEF start
  <2>5. subs' \in Seq(Sub) /\ Len(subs') <= MaxSubs
    BY <1>0, <2>3, <2>4, LoopConstants
  <2> QED
    BY <1>0, <1>g, <2>4, <2>5 DEF Tables
<1>5. CASE \E i \in SubIds, n \in Shifts : Moves(i, n)
  <2>1. PICK i \in SubIds, n \in Shifts : Moves(i, n)
    BY <1>5
  <2> DEFINE end == Max({subs[i].end + n, hour})
  <2>2. end \in Nat
    <3>1. subs[i].end + n \in Int
      BY SubsAre, RemindersAssumption
    <3>2. \A a, b \in Int : Max({a, b}) \in {a, b} /\ Max({a, b}) >= b
      <4> SUFFICES ASSUME NEW a \in Int, NEW b \in Int PROVE Max({a, b}) \in {a, b} /\ Max({a, b}) >= b
        OBVIOUS
      <4>1. \E x \in {a, b} : \A y \in {a, b} : x >= y
        OBVIOUS
      <4> QED
        BY <4>1 DEF Max
    <3>3. hour \in Int
      BY <1>2
    <3>4. end \in {subs[i].end + n, hour} /\ end >= hour
      BY <3>1, <3>2, <3>3
    <3> HIDE DEF end
    <3> QED
      BY <1>2, <3>1, <3>4
  <2> HIDE DEF end
  <2>3. /\ subs' = [subs EXCEPT ![i] = [subs[i] EXCEPT !.end = end, !.set = hour]]
        /\ troubles < MaxTroubles /\ troubles' = troubles + 1
        /\ UNCHANGED <<hour, noted, turn, told, unmarked, again, upSince>>
    BY <2>1 DEF Moves, end
  <2>4. [subs[i] EXCEPT !.end = end, !.set = hour] \in Sub
    <3>1. subs[i] \in Sub
      BY <1>0, SubsAre
    <3> QED
      BY <1>0, <2>2, <3>1 DEF Sub
  <2>5. subs' \in Seq(Sub) /\ Len(subs') = Len(subs)
    BY <1>0, <2>3, <2>4, SubsAre
  <2>6. troubles' \in 0 .. MaxTroubles
    BY <1>0, <2>3, LoopConstants
  <2> QED
    BY <1>0, <1>g, <2>3, <2>5, <2>6 DEF Tables
<1>6. CASE \E m \in DOMAIN turn : Begins(m) \/ GoesOn(m) \/ WritesMarks(m)
  <2>0. Begins(l) \/ GoesOn(l) \/ WritesMarks(l)
    BY <1>1, <1>6
  <2>3. CASE Begins(l)
    <3>1. StepsTo(l, 1, hour, Stage(l, 1), t.doing)
      BY <1>1, <2>3, StepsOfARound DEF t
    <3>2. Tables
      BY <1>0, <2>3 DEF Begins, Tables
    <3>3. \E m \in Loops : turn' \in [{m} -> Turn]
      BY <1>3, <1>w, <3>1
    <3> QED
      BY <1>f, <3>2, <3>3
  <2>4. CASE GoesOn(l)
    <3>1. StepsTo(l, 2, t.at, Stage(l, 2), t.doing) \/ StepsTo(l, 0, hour + Interval[l], {}, {})
      BY <1>1, <2>4, StepsOfARound DEF t
    <3>2. Tables
      BY <1>0, <2>4 DEF GoesOn, Tables
    <3>3. \E m \in Loops : turn' \in [{m} -> Turn]
      BY <1>3, <1>w, <3>1
    <3> QED
      BY <1>f, <3>2, <3>3
  <2>5. CASE WritesMarks(l)
    <3>1. StepsTo(l, t.stage, t.at, t.todo, {})
      BY <1>1, <2>5, StepsOfARound DEF t
    <3>2. Tables
      BY <1>0, <2>5 DEF WritesMarks, Tables
    <3>3. \E m \in Loops : turn' \in [{m} -> Turn]
      BY <1>3, <1>w, <3>1
    <3> QED
      BY <1>f, <3>2, <3>3
  <2> QED
    BY <2>0, <2>3, <2>4, <2>5
<1>7. CASE \E m \in DOMAIN turn : \E g \in turn[m].todo :
             Passed(m, g) \/ Tells(m, g) \/ (m # "reminders" /\ IsLost(m, g))
  <2>1. PICK g \in t.todo : Passed(l, g) \/ Tells(l, g) \/ IsLost(l, g)
    BY <1>1, <1>7 DEF t
  <2>2. g \subseteq Notices
    BY <1>t, <2>1
  <2>3. \/ StepsTo(l, t.stage, t.at, t.todo \ {g}, t.doing)
        \/ StepsTo(l, t.stage, t.at, t.todo \ {g}, g)
    BY <1>1, <2>1, StepsOfARound DEF t
  <2>4. Tables
    BY <1>0, <2>1, <2>2, LoopConstants DEF Passed, Tells, IsLost, Tables
  <2>5. \E m \in Loops : turn' \in [{m} -> Turn]
    BY <1>3, <1>w, <2>1, <2>3
  <2> QED
    BY <1>f, <2>4, <2>5
<1>8. CASE Prunes
  BY <1>0, <1>8, <1>g DEF Prunes, Stale, Tables
<1>9. CASE HourPasses
  BY <1>0, <1>9, <1>g, LoopConstants DEF HourPasses, Tables
<1>10. CASE Restarts
  <2>1. StepsTo(l, 0, hour + Interval[l], {}, {})
    BY <1>1, <1>10, StepsOfARound DEF t
  <2>b. \E m \in Loops : turn' \in [{m} -> Turn]
    BY <1>3, <1>w, <2>1
  <2>2. UNION {turn[m].doing : m \in DOMAIN turn} \subseteq Notices
    BY <1>1, <1>t DEF t
  <2>3. Tables
    BY <1>0, <1>10, <2>2, LoopConstants DEF Restarts, Tables
  <2> QED
    BY <1>f, <2>b, <2>3
<1>11. CASE UNCHANGED reminding
  BY <1>0, <1>11, <1>g DEF reminding, Tables
<1> QED
  BY <1>4, <1>5, <1>6, <1>7, <1>8, <1>9, <1>10, <1>11 DEF RemindNext

\* The steps, of the one loop l.
LEMMA RemindCases ==
    ASSUME RemindTypeOK, [RemindNext]_reminding, NEW l \in Loops, DOMAIN turn = {l}
    PROVE  \/ \E c \in Customers, b \in Terms : Buys(c, b)
           \/ \E i \in SubIds, n \in Shifts : Moves(i, n)
           \/ Begins(l) \/ GoesOn(l) \/ WritesMarks(l)
           \/ \E g \in turn[l].todo :
                Passed(l, g) \/ Tells(l, g) \/ (l = "agentnudge" /\ IsLost(l, g))
           \/ Prunes \/ HourPasses \/ Restarts \/ UNCHANGED reminding
  BY DEF RemindNext, Loops

\* A mark says that its notice was sent, and what was sent and not excused is marked or
\* about to be: nothing is sent again.
LEMMA MarksKept ==
    ASSUME RemindInv, [RemindNext]_reminding
    PROVE  MarksTell' /\ again' = {}
<1>0. /\ RemindTypeOK /\ MarksTell /\ ListsOK /\ again = {}
      /\ hour \in 0 .. MaxHour /\ told \subseteq Notices /\ unmarked \subseteq Notices
  BY DEF RemindInv, RemindTypeOK
<1>1. PICK l \in Loops : DOMAIN turn = {l} /\ turn[l] \in Turn
  BY <1>0, OneLoop
<1> DEFINE t == turn[l]
<1>2. /\ \A n \in Notices : HasMark(n) => n \in told
      /\ \A n \in told \ unmarked : HasMark(n) \/ n \in t.doing
      /\ t.doing \subseteq told /\ t.doing \subseteq Notices
      /\ \A g \in t.todo : GroupOK(l, g)
      /\ t.stage = 0 => t.todo = {} /\ t.doing = {}
  BY <1>0, <1>1 DEF MarksTell, ListsOK, Turn, Groups
<1>3. ASSUME UNCHANGED <<noted, told, unmarked, again>>,
             DOMAIN turn' = {l} /\ turn'[l].doing = t.doing
      PROVE  MarksTell' /\ again' = {}
  BY <1>0, <1>1, <1>2, <1>3 DEF MarksTell, HasMark
<1>4. ASSUME UNCHANGED <<noted, told, unmarked, again, turn>>
      PROVE  MarksTell' /\ again' = {}
  BY <1>0, <1>4 DEF MarksTell, HasMark
<1>5. CASE \/ \E c \in Customers, b \in Terms : Buys(c, b)
           \/ \E i \in SubIds, n \in Shifts : Moves(i, n)
           \/ HourPasses \/ UNCHANGED reminding
  BY <1>4, <1>5 DEF Buys, Moves, HourPasses, reminding
<1>6. CASE Begins(l)
  <2>1. StepsTo(l, 1, hour, Stage(l, 1), t.doing)
    BY <1>0, <1>1, <1>6, StepsOfARound
  <2> QED
    BY <1>3, <1>6, <2>1, GoneThere DEF Begins
<1>7. CASE GoesOn(l)
  <2>1. StepsTo(l, 2, t.at, Stage(l, 2), t.doing) \/ StepsTo(l, 0, hour + Interval[l], {}, {})
    BY <1>0, <1>1, <1>7, StepsOfARound
  <2>2. t.doing = {}
    BY <1>7 DEF GoesOn
  <2> QED
    BY <1>3, <1>7, <2>1, <2>2, GoneThere DEF GoesOn
<1>8. CASE WritesMarks(l)
  <2>1. DOMAIN turn' = {l} /\ turn'[l].doing = {}
    <3>1. StepsTo(l, t.stage, t.at, t.todo, {})
      BY <1>0, <1>1, <1>8, StepsOfARound
    <3> QED
      BY <3>1 DEF StepsTo
  <2>2. /\ \A n \in Notices : noted'[n] = IF n \in t.doing THEN hour ELSE noted[n]
        /\ told' = told /\ unmarked' = unmarked /\ again' = again
    BY <1>8 DEF WritesMarks
  <2>3. hour # Never
    BY <1>0, LoopConstants DEF Never
  <2>4. \A n \in Notices : HasMark(n)' <=> n \in t.doing \/ HasMark(n)
    BY <2>2, <2>3 DEF HasMark
  <2> QED
    BY <1>0, <1>2, <2>1, <2>2, <2>4 DEF MarksTell
<1>9. CASE \E g \in t.todo : Passed(l, g) \/ (l = "agentnudge" /\ IsLost(l, g))
  <2>1. PICK g \in t.todo : Passed(l, g) \/ IsLost(l, g)
    BY <1>9
  <2>2. DOMAIN turn' = {l} /\ turn'[l].doing = t.doing
    <3>1. StepsTo(l, t.stage, t.at, t.todo \ {g}, t.doing)
      BY <1>0, <1>1, <2>1, StepsOfARound
    <3> QED
      BY <3>1 DEF StepsTo
  <2> QED
    BY <1>3, <2>1, <2>2 DEF Passed, IsLost
<1>10. CASE \E g \in t.todo : Tells(l, g)
  <2>1. PICK g \in t.todo : Tells(l, g)
    BY <1>10
  <2>2. DOMAIN turn' = {l} /\ turn'[l].doing = g
    <3>1. StepsTo(l, t.stage, t.at, t.todo \ {g}, g)
      BY <1>0, <1>1, <2>1, StepsOfARound
    <3> QED
      BY <3>1 DEF StepsTo
  <2>3. /\ noted' = noted /\ told' = told \cup g /\ unmarked' = unmarked \ g
        /\ again' = again \cup ((g \cap told) \ unmarked) /\ t.doing = {}
        /\ ~AlreadySent(l, g)
    BY <2>1 DEF Tells
  <2>4. g \cap told \subseteq unmarked
    <3>1. CASE l = "reminders"
      BY <1>2, <2>3, <3>1 DEF AlreadySent
    <3>2. CASE l = "agentnudge"
      BY <1>2, <2>1, <3>2 DEF GroupOK
    <3> QED
      BY <3>1, <3>2 DEF Loops
  <2>5. \A n \in Notices : HasMark(n)' <=> HasMark(n)
    BY <2>3 DEF HasMark
  <2>6. g \subseteq Notices
    BY <1>2, <2>1 DEF GroupOK
  <2> QED
    BY <1>0, <1>2, <2>2, <2>3, <2>4, <2>5, <2>6 DEF MarksTell
<1>11. CASE Prunes
  <2>1. /\ \A n \in Notices : noted'[n] = IF n \in Stale THEN Never ELSE noted[n]
        /\ turn' = turn /\ told' = told /\ unmarked' = unmarked \cup Stale /\ again' = again
    BY <1>11 DEF Prunes
  <2>2. \A n \in Notices : HasMark(n)' <=> HasMark(n) /\ n \notin Stale
    BY <2>1 DEF HasMark
  <2> QED
    BY <1>0, <1>1, <1>2, <2>1, <2>2 DEF MarksTell
<1>12. CASE Restarts
  <2>1. DOMAIN turn' = {l} /\ turn'[l].doing = {}
    BY <1>0, <1>1, <1>12, StepsOfARound, GoneThere
  <2>2. noted' = noted /\ told' = told /\ unmarked' = unmarked \cup t.doing /\ again' = again
    BY <1>1, <1>12 DEF Restarts
  <2>3. \A n \in Notices : HasMark(n)' <=> HasMark(n)
    BY <2>2 DEF HasMark
  <2> QED
    BY <1>0, <1>2, <2>1, <2>2, <2>3 DEF MarksTell
<1> QED
  BY <1>0, <1>1, <1>5, <1>6, <1>7, <1>8, <1>9, <1>10, <1>11, <1>12, RemindCases

\* A stage's list when it is read.
LEMMA StageIsOK ==
    ASSUME RemindTypeOK, NEW l \in Loops, NEW s \in {1, 2}, \A n \in told \ unmarked : HasMark(n)
    PROVE  /\ \A g \in Stage(l, s) : GroupOK(l, g)
           /\ \A g, h \in Stage(l, s) : g = h \/ g \cap h = {}
<1>1. ASSUME NEW g \in Stage(l, s) PROVE GroupOK(l, g)
  <2>1. g \subseteq Notices /\ \A n \in g : n[1] \in About[l]
    BY StageKinds
  <2>2. /\ l = "reminders" => \A n, m \in g : n = m
        /\ l = "agentnudge" => \A n \in g : ~HasMark(n)
    BY StageGroups
  <2> QED
    BY <2>1, <2>2 DEF GroupOK
<1> QED
  BY <1>1, StageGroups

\* The lists of a round stay in order.
LEMMA ListsKept ==
    ASSUME RemindInv, [RemindNext]_reminding
    PROVE  ListsOK'
<1>0. RemindTypeOK /\ MarksTell /\ ListsOK
  BY DEF RemindInv
<1>1. PICK l \in Loops : DOMAIN turn = {l} /\ turn[l] \in Turn
  BY <1>0, OneLoop
<1> DEFINE t == turn[l]
<1>2. /\ \A n \in told \ unmarked : HasMark(n) \/ n \in t.doing
      /\ \A g \in t.todo : GroupOK(l, g)
      /\ \A g, h \in t.todo : g = h \/ g \cap h = {}
      /\ t.stage = 0 => t.todo = {} /\ t.doing = {}
  BY <1>0, <1>1 DEF MarksTell, ListsOK
<1> DEFINE List(S) == /\ \A g \in S : GroupOK(l, g)'
                      /\ \A g, h \in S : g = h \/ g \cap h = {}
<1>3. ASSUME NEW s, NEW a, NEW S, NEW D, StepsTo(l, s, a, S, D), List(S), s = 0 => S = {} /\ D = {}
      PROVE  ListsOK'
  <2>1. DOMAIN turn' = {l} /\ turn'[l].stage = s /\ turn'[l].todo = S /\ turn'[l].doing = D
    BY <1>3, GoneThere
  <2> QED
    BY <1>3, <2>1 DEF ListsOK
<1>4. ASSUME told' = told, unmarked \subseteq unmarked', NEW S, S \subseteq t.todo
      PROVE  List(S)
  BY <1>2, <1>4 DEF GroupOK
<1>5. ASSUME told' = told, unmarked \subseteq unmarked', turn' = turn PROVE ListsOK'
  <2>1. \A g \in t.todo : GroupOK(l, g)'
    BY <1>4, <1>5
  <2> QED
    BY <1>1, <1>2, <1>5, <2>1 DEF ListsOK
<1>6. List({})
  OBVIOUS
<1> HIDE DEF List
<1>7. CASE \/ \E c \in Customers, b \in Terms : Buys(c, b)
           \/ \E i \in SubIds, n \in Shifts : Moves(i, n)
           \/ Prunes \/ HourPasses \/ UNCHANGED reminding
  BY <1>5, <1>7 DEF Buys, Moves, Prunes, HourPasses, reminding
<1>8. CASE Begins(l) \/ GoesOn(l)
  <2>1. t.doing = {} /\ UNCHANGED <<told, unmarked>>
    BY <1>2, <1>8 DEF Begins, GoesOn
  <2>2. ASSUME NEW s \in {1, 2} PROVE List(Stage(l, s))
    <3>1. /\ \A g \in Stage(l, s) : GroupOK(l, g)
          /\ \A g, h \in Stage(l, s) : g = h \/ g \cap h = {}
      BY <1>0, <1>2, <2>1, StageIsOK
    <3>2. \A g : GroupOK(l, g) => GroupOK(l, g)'
      BY <2>1 DEF GroupOK
    <3> QED
      BY <3>1, <3>2 DEF List
  <2>3. \/ StepsTo(l, 1, hour, Stage(l, 1), t.doing) \/ StepsTo(l, 2, t.at, Stage(l, 2), t.doing)
        \/ StepsTo(l, 0, hour + Interval[l], {}, {})
    BY <1>0, <1>1, <1>8, StepsOfARound
  <2> QED
    BY <1>3, <1>6, <2>2, <2>3
<1>9. CASE WritesMarks(l)
  <2>1. StepsTo(l, t.stage, t.at, t.todo, {})
    BY <1>0, <1>1, <1>9, StepsOfARound
  <2>2. List(t.todo)
    BY <1>4, <1>9 DEF WritesMarks
  <2> QED
    BY <1>2, <1>3, <2>1, <2>2
<1>10. CASE \E g \in t.todo : Passed(l, g) \/ Tells(l, g) \/ (l = "agentnudge" /\ IsLost(l, g))
  <2>1. PICK g \in t.todo : Passed(l, g) \/ Tells(l, g) \/ IsLost(l, g)
    BY <1>10
  <2>2. \/ StepsTo(l, t.stage, t.at, t.todo \ {g}, t.doing)
        \/ StepsTo(l, t.stage, t.at, t.todo \ {g}, g)
    BY <1>0, <1>1, <2>1, StepsOfARound
  <2>3. t.stage # 0
    BY <1>2, <2>1
  <2>4. List(t.todo \ {g})
    <3>1. CASE Passed(l, g) \/ IsLost(l, g)
      BY <1>4, <3>1 DEF Passed, IsLost
    <3>2. CASE Tells(l, g)
      <4>1. told' = told \cup g /\ unmarked' = unmarked \ g
        BY <3>2 DEF Tells
      <4>2. \A h \in t.todo \ {g} : h \cap g = {}
        BY <1>2, <2>1
      <4>3. \A h \in t.todo \ {g} : GroupOK(l, h)'
        BY <1>2, <4>1, <4>2 DEF GroupOK
      <4> QED
        BY <1>2, <4>3 DEF List
    <3> QED
      BY <2>1, <3>1, <3>2
  <2> QED
    BY <1>3, <2>2, <2>3, <2>4
<1>11. CASE Restarts
  <2>1. StepsTo(l, 0, hour + Interval[l], {}, {})
    BY <1>0, <1>1, <1>11, StepsOfARound
  <2> QED
    BY <1>3, <1>6, <2>1
<1> QED
  BY <1>0, <1>1, <1>7, <1>8, <1>9, <1>10, <1>11, RemindCases

\* A loop that sleeps is not late, and a round ends within the next hour.
LEMMA OnTimeKept ==
    ASSUME RemindInv, [RemindNext]_reminding
    PROVE  OnTime'
<1>0. RemindTypeOK /\ OnTime /\ hour \in Nat
  <2>1. RemindTypeOK /\ OnTime
    BY DEF RemindInv
  <2> QED
    BY <2>1, LoopConstants DEF RemindTypeOK
<1>1. PICK l \in Loops : DOMAIN turn = {l} /\ turn[l] \in Turn
  BY <1>0, OneLoop
<1> DEFINE t == turn[l]
           Late(s, a, h) == IF s = 0 THEN h <= a /\ a <= h + Interval[l] ELSE a <= h /\ h <= a + 1
<1>2. Late(t.stage, t.at, hour) /\ t.at \in Nat /\ Interval[l] \in Nat
  BY <1>0, <1>1, LoopConstants DEF OnTime, Turn
<1>3. ASSUME NEW s, NEW a, NEW S, NEW D, StepsTo(l, s, a, S, D), Late(s, a, hour), hour' = hour
      PROVE  OnTime'
  <2>1. DOMAIN turn' = {l} /\ turn'[l].stage = s /\ turn'[l].at = a
    BY <1>3, GoneThere
  <2> QED
    BY <1>3, <2>1 DEF OnTime
<1>4. Late(0, hour + Interval[l], hour) /\ Late(1, hour, hour)
  BY <1>0, <1>2
<1>5. CASE \/ \E c \in Customers, b \in Terms : Buys(c, b)
           \/ \E i \in SubIds, n \in Shifts : Moves(i, n)
           \/ Prunes \/ UNCHANGED reminding
  <2>1. turn' = turn /\ hour' = hour
    BY <1>5 DEF Buys, Moves, Prunes, reminding
  <2> QED
    BY <1>0, <2>1 DEF OnTime
<1>6. CASE Begins(l)
  <2>1. StepsTo(l, 1, hour, Stage(l, 1), t.doing) /\ hour' = hour
    BY <1>0, <1>1, <1>6, StepsOfARound DEF Begins
  <2> QED
    BY <1>3, <1>4, <2>1
<1>7. CASE GoesOn(l)
  <2>1. \/ t.stage = 1 /\ StepsTo(l, 2, t.at, Stage(l, 2), t.doing)
        \/ StepsTo(l, 0, hour + Interval[l], {}, {})
    BY <1>0, <1>1, <1>7, StepsOfARound
  <2>2. hour' = hour
    BY <1>7 DEF GoesOn
  <2> QED
    BY <1>2, <1>3, <1>4, <2>1, <2>2
<1>8. CASE \/ WritesMarks(l)
           \/ \E g \in t.todo : Passed(l, g) \/ Tells(l, g) \/ (l = "agentnudge" /\ IsLost(l, g))
  <2>1. \E S, D : StepsTo(l, t.stage, t.at, S, D)
    BY <1>0, <1>1, <1>8, StepsOfARound
  <2>2. hour' = hour
    BY <1>8 DEF WritesMarks, Passed, Tells, IsLost
  <2> QED
    BY <1>2, <1>3, <2>1, <2>2
<1>9. CASE HourPasses
  <2>1. /\ hour' = hour + 1 /\ turn' = turn
        /\ IF t.stage = 0 THEN t.at > hour ELSE t.at = hour
    BY <1>1, <1>9 DEF HourPasses
  <2>2. Late(t.stage, t.at, hour')
    BY <1>0, <1>2, <2>1
  <2> QED
    BY <1>1, <2>1, <2>2 DEF OnTime
<1>10. CASE Restarts
  <2>1. StepsTo(l, 0, hour + Interval[l], {}, {}) /\ hour' = hour
    BY <1>0, <1>1, <1>10, StepsOfARound DEF Restarts
  <2> QED
    BY <1>3, <1>4, <2>1
<1> QED
  BY <1>0, <1>1, <1>5, <1>6, <1>7, <1>8, <1>9, <1>10, RemindCases

\* Where the hours of a notice lie, and when the last round that can send it begins.
LEMMA RoundsFitIn ==
    ASSUME RemindTypeOK, NEW l \in Loops, NEW n \in Notices,
           n[1] \in About[l], n[2] \in SubIds
    PROVE  /\ Opens(n) \in Int /\ Closes(n) \in Int /\ Tries(l) \in Nat /\ LastCall(l, n) \in Int
           /\ Opens(n) <= Closes(n)
           /\ LastCall(l, n) <= Closes(n)
           /\ StageOf(n) = 2 => LastCall(l, n) + 1 <= Closes(n)
           /\ StageOf(n) \in {1, 2}
<1> DEFINE k == n[1]
           e == subs[n[2]].end
           tries == troubles * (SellerRound + 1)
           all == (MaxTroubles + 1) * (SellerRound + 1)
<1>1. e \in Nat
  BY SubsAre
<1>2. troubles \in Nat /\ troubles <= MaxTroubles
  BY LoopConstants DEF RemindTypeOK
<1>3. tries \in Nat /\ all \in Nat /\ tries + SellerRound + 1 <= all
  <2>1. all = MaxTroubles * (SellerRound + 1) + SellerRound + 1
    BY LoopConstants
  <2>2. \A a, b, c \in Nat : a <= b => a * c \in Nat /\ b * c \in Nat /\ a * c <= b * c
    BY SMTT(30)
  <2>3. tries \in Nat /\ MaxTroubles * (SellerRound + 1) \in Nat
        /\ tries <= MaxTroubles * (SellerRound + 1)
    BY <1>2, <2>2, LoopConstants
  <2> QED
    BY <2>1, <2>3, LoopConstants
<1>4. /\ Round + 2 <= DayHours /\ ChurnAfter + Round + 1 <= ChurnBefore
      /\ all <= Warning /\ all + 1 <= Grace
  BY WindowsAssumption
<1>5. k \in About[l]
  OBVIOUS
<1>6. /\ k = "expiry_3" => /\ Opens(n) = e - 3 * DayHours + 1 /\ Closes(n) = e - 2 * DayHours
                           /\ StageOf(n) = 1
      /\ k = "expiry_1" => Opens(n) = e - DayHours + 1 /\ Closes(n) = e - 1 /\ StageOf(n) = 1
      /\ k = "churn_ask" => /\ Opens(n) = e + ChurnAfter /\ Closes(n) = e + ChurnBefore
                            /\ StageOf(n) = 2
      /\ k = "agent_expiry_soon" => Opens(n) = e - Warning /\ Closes(n) = e - 1 /\ StageOf(n) = 1
      /\ k = "agent_expired" => Opens(n) = e /\ Closes(n) = e + Grace - 1 /\ StageOf(n) = 2
  BY DEF Opens, Closes, StageOf
<1>7. /\ l = "reminders" => Tries(l) = 0 /\ LastCall(l, n) = Opens(n) + Round + 0
      /\ l = "agentnudge" => Tries(l) = tries /\ LastCall(l, n) = Opens(n) + SellerRound + tries
  BY LoopConstants DEF Tries, LastCall
<1> HIDE DEF k, e, tries, all
<1>8. CASE l = "reminders"
  <2>1. k \in {"expiry_3", "expiry_1", "churn_ask"}
    BY <1>5, <1>8, LoopConstants
  <2> QED
    BY <1>1, <1>4, <1>6, <1>7, <1>8, <2>1, LoopConstants
<1>9. CASE l = "agentnudge"
  <2>1. k \in {"agent_expiry_soon", "agent_expired"}
    BY <1>5, <1>9, LoopConstants
  <2> QED
    BY <1>1, <1>3, <1>4, <1>6, <1>7, <1>9, <2>1, LoopConstants
<1> QED
  BY <1>8, <1>9 DEF Loops

\* Nothing becomes awaited because something is bought or moved: that is then set too late.
LEMMA AwaitedBefore ==
    ASSUME RemindTypeOK, NEW l \in Loops, NEW n, Awaited(l, n)',
           \/ \E c \in Customers, b \in Terms : Buys(c, b)
           \/ \E i \in SubIds, m \in Shifts : Moves(i, m)
    PROVE  Awaited(l, n) /\ Opens(n)' = Opens(n)
<1> DEFINE who == subs[n[2]].who
<1>0. hour \in Nat
  BY LoopConstants DEF RemindTypeOK
<1>1. hour' = hour /\ told' = told /\ upSince' = upSince /\ hour \in Nat
  BY <1>0 DEF Buys, Moves
<1>2. /\ n \in Notices /\ n[1] \in About[l] /\ n[2] \in SubIds'
      /\ l = "agentnudge" => subs'[n[2]].who \in Sold
      /\ upSince < Opens(n)' /\ Opens(n)' <= hour /\ n \notin told
      /\ \A j \in OfCustomer(subs[n[2]].who, SubIds)' : subs'[j].set < Opens(n)'
      /\ IsLast(n[2], OfCustomer(subs[n[2]].who, SubIds))'
  BY <1>1 DEF Awaited
<1>3. \A j \in OfCustomer(subs[n[2]].who, SubIds)' : subs'[j].set # hour
  <2>1. Opens(n)' \in Int
    <3>1. RemindTypeOK'
      BY RemindTypes DEF RemindNext
    <3>2. subs'[n[2]].end \in Nat
      <4> DEFINE Sub == [who : Customers, end : Nat, set : 0 .. MaxHour]
      <4>1. subs' \in Seq(Sub) /\ n[2] \in DOMAIN subs'
        BY <1>2, <3>1 DEF RemindTypeOK, SubIds
      <4>2. \A r \in Sub : r.end \in Nat
        OBVIOUS
      <4> HIDE DEF Sub
      <4> QED
        BY <4>1, <4>2
    <3>3. (n[1] \in About[l] /\ l \in Loops)' 
      BY <1>2
    <3> QED
      BY <1>2, <3>2, LoopConstants DEF Opens, Loops
  <2> QED
    BY <1>1, <1>2, <2>1
<1>4. PICK x : /\ \A j \in SubIds \ {x} : subs'[j] = subs[j]
               /\ SubIds' = SubIds \cup {x} /\ subs'[x].set = hour
               /\ x \in SubIds => subs'[x].who = subs[x].who
  <2>1. CASE \E c \in Customers, b \in Terms : Buys(c, b)
    <3>1. PICK v : subs' = Append(subs, v) /\ v.set = hour
      BY <2>1 DEF Buys
    <3>2. SubIds = 1 .. Len(subs) /\ Len(subs) \in Nat
      BY SubsAre
    <3>3. Len(subs') = Len(subs) + 1 /\ SubIds' = 1 .. Len(subs) + 1 /\ subs'[Len(subs) + 1] = v
          /\ \A j \in 1 .. Len(subs) : subs'[j] = subs[j]
      <4> DEFINE Values == Range(subs) \cup {v}
      <4>1. subs \in Seq(Values) /\ v \in Values
        BY <3>2 DEF Values, Range, RemindTypeOK
      <4> HIDE DEF Values
      <4> QED
        BY <3>1, <3>2, <4>1 DEF SubIds
    <3> QED
      BY <3>1, <3>2, <3>3
  <2>2. CASE \E i \in SubIds, m \in Shifts : Moves(i, m)
    <3>0. PICK i \in SubIds, m \in Shifts : Moves(i, m)
      BY <2>2
    <3> DEFINE h == Max({subs[i].end + m, hour})
    <3>1. subs' = [subs EXCEPT ![i] = [subs[i] EXCEPT !.end = h, !.set = hour]]
      BY <3>0 DEF Moves
    <3> HIDE DEF h
    <3>2. SubIds' = SubIds /\ \A j \in SubIds \ {i} : subs'[j] = subs[j]
      BY <3>1 DEF SubIds
    <3>3. subs'[i].set = hour /\ subs'[i].who = subs[i].who
      <4> DEFINE Sub == [who : Customers, end : Nat, set : 0 .. MaxHour]
      <4>1. subs \in Seq(Sub) /\ i \in DOMAIN subs
        BY <3>1 DEF SubIds, RemindTypeOK
      <4>2. DOMAIN subs[i] = {"who", "end", "set"}
        <5>1. \A r \in Sub : DOMAIN r = {"who", "end", "set"}
          OBVIOUS
        <5> HIDE DEF Sub
        <5> QED
          BY <4>1, <5>1
      <4>3. subs'[i] = [subs[i] EXCEPT !.end = h, !.set = hour]
        BY <3>1, <4>1
      <4> QED
        BY <4>2, <4>3
    <3> QED
      BY <3>2, <3>3
  <2> QED
    BY <2>1, <2>2
<1>5. n[2] \in OfCustomer(subs[n[2]].who, SubIds)'
  BY <1>2 DEF IsLast
<1>6. n[2] # x /\ n[2] \in SubIds /\ subs'[n[2]] = subs[n[2]]
  BY <1>2, <1>3, <1>4, <1>5
<1>7. OfCustomer(subs[n[2]].who, SubIds)' = OfCustomer(who, SubIds)
  BY <1>3, <1>4, <1>6 DEF OfCustomer
<1>8. \A j \in OfCustomer(who, SubIds) : j \in SubIds /\ subs'[j] = subs[j]
  BY <1>3, <1>4, <1>7 DEF OfCustomer
<1>9. Opens(n)' = Opens(n)
  BY <1>6 DEF Opens
<1>10. IsLast(n[2], OfCustomer(who, SubIds))
  BY <1>2, <1>6, <1>7, <1>8 DEF IsLast
<1> QED
  BY <1>1, <1>2, <1>6, <1>7, <1>8, <1>9, <1>10 DEF Awaited

\* A notice that is due is on its way, and the round that will send it begins in time.
LEMMA HeadingKept ==
    ASSUME RemindInv, [RemindNext]_reminding
    PROVE  Heading'
<1>0. RemindTypeOK /\ MarksTell /\ ListsOK /\ OnTime /\ Heading
  BY DEF RemindInv
<1>n. hour \in Nat
  BY <1>0, LoopConstants DEF RemindTypeOK
<1>1. PICK l \in Loops : DOMAIN turn = {l} /\ turn[l] \in Turn
  BY <1>0, OneLoop
<1> DEFINE t == turn[l]
           Kept(s, a, comes, n) ==
              IF s = 0 \/ comes THEN a <= LastCall(l, n) ELSE a + 1 + Interval[l] <= LastCall(l, n)
<1>2. /\ t.stage \in 0 .. 2 /\ t.at \in Nat /\ Interval[l] \in Nat
      /\ IF t.stage = 0 THEN hour <= t.at /\ t.at <= hour + Interval[l]
         ELSE t.at <= hour /\ hour <= t.at + 1
      /\ \A n \in Notices : Awaited(l, n) => Kept(t.stage, t.at, StillComes(l, n), n)
  BY <1>0, <1>1, LoopConstants DEF OnTime, Turn, Heading
<1>3. ASSUME NEW n \in Notices, Awaited(l, n)
      PROVE  /\ Opens(n) \in Int /\ Closes(n) \in Int /\ LastCall(l, n) \in Int
             /\ LastCall(l, n) <= Closes(n)
             /\ StageOf(n) = 2 => LastCall(l, n) + 1 <= Closes(n)
             /\ StageOf(n) \in {1, 2}
  BY <1>0, <1>3, RoundsFitIn DEF Awaited
<1>4. ASSUME NEW s, NEW a, NEW S, NEW D, StepsTo(l, s, a, S, D),
             \A n \in Notices : Awaited(l, n)' =>
                IF s = 0 \/ (\E g \in S : n \in g) \/ (s = 1 /\ StageOf(n) = 2)
                THEN a <= LastCall(l, n)' ELSE a + 1 + Interval[l] <= LastCall(l, n)'
      PROVE  Heading'
  <2>1. DOMAIN turn' = {l} /\ turn'[l].stage = s /\ turn'[l].at = a /\ turn'[l].todo = S
    BY <1>4, GoneThere
  <2>2. \A n : StageOf(n)' = StageOf(n)
    BY DEF StageOf
  <2>3. \A n : StillComes(l, n)' <=> (\E g \in S : n \in g) \/ (s = 1 /\ StageOf(n) = 2)
    BY <2>1, <2>2 DEF StillComes
  <2> QED
    BY <1>4, <2>1, <2>3 DEF Heading
<1> DEFINE Aside == UNCHANGED <<hour, subs, troubles, told, upSince>>
<1>5. ASSUME Aside, NEW n
      PROVE  /\ Awaited(l, n)' <=> Awaited(l, n)
             /\ LastCall(l, n)' = LastCall(l, n)
  BY <1>5 DEF Awaited, LastCall, Opens, Tries, IsLast, OfCustomer, SubIds
<1>6. CASE \/ \E c \in Customers, b \in Terms : Buys(c, b)
           \/ \E i \in SubIds, m \in Shifts : Moves(i, m)
  <2>1. turn' = turn /\ troubles' \in Nat /\ troubles \in Nat /\ troubles <= troubles'
    <3>1. troubles \in Nat
      BY <1>0, LoopConstants DEF RemindTypeOK
    <3>2. turn' = turn /\ (troubles' = troubles \/ troubles' = troubles + 1)
      BY <1>6 DEF Buys, Moves
    <3> QED
      BY <3>1, <3>2
  <2>2. ASSUME NEW n \in Notices, Awaited(l, n)'
        PROVE  Awaited(l, n) /\ LastCall(l, n) <= LastCall(l, n)' /\ LastCall(l, n)' \in Int
    <3>1. Awaited(l, n) /\ Opens(n)' = Opens(n)
      BY <1>0, <1>6, <2>2, AwaitedBefore
    <3>2. Tries(l) \in Nat /\ Tries(l)' \in Nat /\ Tries(l) <= Tries(l)'
      <4>1. \A a, b, c \in Nat : a <= b => a * c \in Nat /\ b * c \in Nat /\ a * c <= b * c
        BY SMTT(30)
      <4>2. SellerRound + 1 \in Nat
        BY LoopConstants
      <4>3. /\ troubles * (SellerRound + 1) \in Nat /\ troubles' * (SellerRound + 1) \in Nat
            /\ troubles * (SellerRound + 1) <= troubles' * (SellerRound + 1)
        BY <2>1, <4>1, <4>2
      <4> QED
        BY <4>3 DEF Tries
    <3>3. Opens(n) \in Int
      BY <1>3, <3>1
    <3> QED
      BY <1>2, <3>1, <3>2, <3>3 DEF LastCall
  <2>3. \A n : StillComes(l, n)' <=> StillComes(l, n)
    BY <2>1 DEF StillComes, StageOf
  <2>4. ASSUME NEW n \in Notices, Awaited(l, n)'
        PROVE  IF t.stage = 0 \/ StillComes(l, n) THEN t.at <= LastCall(l, n)'
               ELSE t.at + 1 + Interval[l] <= LastCall(l, n)'
    <3>1. Kept(t.stage, t.at, StillComes(l, n), n) /\ LastCall(l, n) \in Int
      BY <1>2, <1>3, <2>2, <2>4
    <3> QED
      BY <1>2, <2>2, <2>4, <3>1
  <2> QED
    BY <1>1, <2>1, <2>3, <2>4 DEF Heading
<1>7. CASE Begins(l)
  <2>1. StepsTo(l, 1, hour, Stage(l, 1), t.doing) /\ Aside /\ t.stage = 0 /\ t.at <= hour
    BY <1>0, <1>1, <1>7, StepsOfARound DEF Begins
  <2>2. ASSUME NEW n \in Notices, Awaited(l, n)
        PROVE  /\ hour <= LastCall(l, n)
               /\ (\E g \in Stage(l, 1) : n \in g) \/ StageOf(n) = 2
    <3>1. hour <= LastCall(l, n) /\ hour <= Closes(n)
      BY <1>n, <1>2, <1>3, <2>1, <2>2
    <3>2. \E g \in Stage(l, StageOf(n)) : n \in g
      BY <1>0, <2>2, <3>1, AwaitedIsFound
    <3> QED
      BY <1>3, <2>2, <3>1, <3>2
  <2> QED
    BY <1>4, <1>5, <2>1, <2>2
<1>8. CASE GoesOn(l) /\ t.stage = 1
  <2>1. StepsTo(l, 2, t.at, Stage(l, 2), t.doing) /\ Aside /\ t.todo = {}
    <3>1. t.stage # 2
      BY <1>8
    <3>2. StepsTo(l, 2, t.at, Stage(l, 2), t.doing)
      BY <1>0, <1>1, <1>8, <3>1, StepsOfARound
    <3> QED
      BY <1>8, <3>2 DEF GoesOn
  <2>2. ASSUME NEW n \in Notices, Awaited(l, n)
        PROVE  IF \E g \in Stage(l, 2) : n \in g THEN t.at <= LastCall(l, n)
               ELSE t.at + 1 + Interval[l] <= LastCall(l, n)
    <3>1. Kept(t.stage, t.at, StageOf(n) = 2, n)
      <4>1. StillComes(l, n) <=> StageOf(n) = 2
        BY <1>8, <2>1 DEF StillComes
      <4> QED
        BY <1>2, <2>2, <4>1
    <3>2. CASE StageOf(n) = 2
      <4>1. t.at <= LastCall(l, n) /\ hour <= Closes(n)
        BY <1>n, <1>2, <1>3, <1>8, <2>2, <3>1, <3>2
      <4>2. \E g \in Stage(l, 2) : n \in g
        BY <1>0, <2>2, <3>2, <4>1, AwaitedIsFound
      <4> QED
        BY <4>1, <4>2
    <3>3. CASE StageOf(n) # 2
      BY <1>2, <1>3, <1>8, <2>2, <3>1, <3>3
    <3> QED
      BY <3>2, <3>3
  <2> QED
    BY <1>4, <1>5, <2>1, <2>2
<1>9. CASE GoesOn(l) /\ t.stage # 1
  <2>1. StepsTo(l, 0, hour + Interval[l], {}, {}) /\ Aside /\ t.todo = {} /\ t.stage = 2
    BY <1>0, <1>1, <1>9, StepsOfARound DEF GoesOn
  <2>2. ASSUME NEW n \in Notices, Awaited(l, n) PROVE hour + Interval[l] <= LastCall(l, n)
    <3>1. ~StillComes(l, n)
      BY <2>1 DEF StillComes
    <3> QED
      BY <1>n, <1>2, <1>3, <2>1, <2>2, <3>1
  <2> QED
    BY <1>4, <1>5, <2>1, <2>2
<1>10. CASE WritesMarks(l) \/ \E g \in t.todo : Passed(l, g)
  <2>1. Aside
    BY <1>10 DEF WritesMarks, Passed
  <2>2. PICK S, D : /\ StepsTo(l, t.stage, t.at, S, D) /\ S \subseteq t.todo
                    /\ \A n \in Notices : Awaited(l, n) /\ (\E g \in t.todo : n \in g)
                                             => \E g \in S : n \in g
    <3>1. CASE WritesMarks(l)
      BY <1>0, <1>1, <3>1, StepsOfARound
    <3>2. CASE \E g \in t.todo : Passed(l, g)
      <4>1. PICK g \in t.todo : Passed(l, g)
        BY <3>2
      <4>2. StepsTo(l, t.stage, t.at, t.todo \ {g}, t.doing)
        BY <1>0, <1>1, <4>1, StepsOfARound
      <4>3. \A n \in g : n \in told
        BY <1>0, <1>1, <4>1 DEF Passed, AlreadySent, ListsOK, GroupOK, MarksTell
      <4>4. \A n \in g : ~Awaited(l, n)
        BY <4>3 DEF Awaited
      <4> QED
        BY <4>2, <4>4
    <3> QED
      BY <1>10, <3>1, <3>2
  <2>3. ASSUME NEW n \in Notices, Awaited(l, n)
        PROVE  IF t.stage = 0 \/ (\E g \in S : n \in g) \/ (t.stage = 1 /\ StageOf(n) = 2)
               THEN t.at <= LastCall(l, n) ELSE t.at + 1 + Interval[l] <= LastCall(l, n)
    BY <1>2, <2>2, <2>3 DEF StillComes
  <2> QED
    BY <1>4, <1>5, <2>1, <2>2, <2>3
<1>11. CASE \E g \in t.todo : Tells(l, g)
  <2>1. PICK g \in t.todo : Tells(l, g)
    BY <1>11
  <2>2. StepsTo(l, t.stage, t.at, t.todo \ {g}, g)
    BY <1>0, <1>1, <2>1, StepsOfARound
  <2>3. UNCHANGED <<hour, subs, troubles, upSince>> /\ told' = told \cup g
    BY <2>1 DEF Tells
  <2>4. ASSUME NEW n \in Notices, Awaited(l, n)'
        PROVE  Awaited(l, n) /\ n \notin g /\ LastCall(l, n)' = LastCall(l, n)
    BY <2>3, <2>4 DEF Awaited, LastCall, Opens, Tries, IsLast, OfCustomer, SubIds
  <2>5. ASSUME NEW n \in Notices, Awaited(l, n)'
        PROVE  IF t.stage = 0 \/ (\E h \in t.todo \ {g} : n \in h) \/ (t.stage = 1 /\ StageOf(n) = 2)
               THEN t.at <= LastCall(l, n)' ELSE t.at + 1 + Interval[l] <= LastCall(l, n)'
    BY <1>2, <2>4, <2>5 DEF StillComes
  <2> QED
    BY <1>4, <2>2, <2>5
<1>12. CASE \E g \in t.todo : l = "agentnudge" /\ IsLost(l, g)
  <2>1. PICK g \in t.todo : l = "agentnudge" /\ IsLost(l, g)
    BY <1>12
  <2>2. StepsTo(l, t.stage, t.at, t.todo \ {g}, t.doing)
    BY <1>0, <1>1, <2>1, StepsOfARound
  <2>3. UNCHANGED <<hour, subs, told, upSince>> /\ troubles' = troubles + 1
    BY <2>1 DEF IsLost
  <2>4. Tries(l)' = Tries(l) + Interval[l] + 1
    <3>1. troubles \in Nat
      BY <1>0, LoopConstants DEF RemindTypeOK
    <3>2. \A a, b \in Nat : (a + 1) * b = a * b + b
      OBVIOUS
    <3> QED
      BY <2>1, <2>3, <3>1, <3>2, LoopConstants DEF Tries
  <2>5. ASSUME NEW n \in Notices, Awaited(l, n)'
        PROVE  Awaited(l, n) /\ Opens(n)' = Opens(n)
    BY <2>3, <2>5 DEF Awaited, Opens, IsLast, OfCustomer, SubIds
  <2>6. ASSUME NEW n \in Notices, Awaited(l, n)'
        PROVE  LastCall(l, n)' = LastCall(l, n) + Interval[l] + 1 /\ LastCall(l, n) \in Int
    <3>1. Opens(n) \in Int /\ Tries(l) \in Nat /\ LastCall(l, n) \in Int
      BY <1>0, <2>5, <2>6, RoundsFitIn DEF Awaited
    <3> QED
      BY <1>2, <2>4, <2>5, <2>6, <3>1 DEF LastCall
  <2>7. ASSUME NEW n \in Notices, Awaited(l, n)'
        PROVE  t.at + 1 + Interval[l] <= LastCall(l, n)'
    <3>1. Kept(t.stage, t.at, StillComes(l, n), n)
      BY <1>2, <2>5, <2>7
    <3>2. t.at <= LastCall(l, n)
      BY <1>2, <2>6, <2>7, <3>1
    <3> QED
      BY <1>2, <2>6, <2>7, <3>2
  <2>8. ASSUME NEW n \in Notices, Awaited(l, n)'
        PROVE  t.at <= LastCall(l, n)'
    BY <1>2, <2>6, <2>7, <2>8
  <2> QED
    BY <1>4, <2>2, <2>7, <2>8
<1>13. CASE Prunes \/ UNCHANGED reminding
  <2>1. Aside /\ turn' = turn
    BY <1>13 DEF Prunes, reminding
  <2>2. \A n : StillComes(l, n)' <=> StillComes(l, n)
    BY <2>1 DEF StillComes, StageOf
  <2> QED
    BY <1>1, <1>2, <1>5, <2>1, <2>2 DEF Heading
<1>14. CASE HourPasses
  <2>1. /\ hour' = hour + 1 /\ UNCHANGED <<subs, turn, troubles, told, upSince>>
        /\ IF t.stage = 0 THEN t.at > hour ELSE t.at = hour
    BY <1>1, <1>14 DEF HourPasses
  <2>2. ASSUME NEW n \in Notices, Awaited(l, n)'
        PROVE  /\ LastCall(l, n)' = LastCall(l, n) /\ LastCall(l, n) \in Int
               /\ Awaited(l, n) \/ (hour + 1 = Opens(n) /\ hour + 1 + Interval[l] <= LastCall(l, n))
    <3>1. Opens(n)' = Opens(n) /\ Tries(l)' = Tries(l)
      BY <2>1 DEF Opens, Tries
    <3>2. n \in Notices /\ n[1] \in About[l] /\ n[2] \in SubIds
      BY <2>1, <2>2 DEF Awaited, SubIds
    <3>3. Opens(n) \in Int /\ Tries(l) \in Nat /\ LastCall(l, n) \in Int
      BY <1>0, <3>2, RoundsFitIn
    <3>4. Opens(n) <= hour => Awaited(l, n)
      BY <2>1, <2>2, <3>1 DEF Awaited, IsLast, OfCustomer, SubIds
    <3>5. Opens(n) <= hour + 1
      BY <2>1, <2>2, <3>1 DEF Awaited
    <3> QED
      BY <1>n, <1>2, <3>1, <3>3, <3>4, <3>5 DEF LastCall
  <2>3. \A n : StillComes(l, n)' <=> StillComes(l, n)
    BY <2>1 DEF StillComes, StageOf
  <2>4. ASSUME NEW n \in Notices, Awaited(l, n)'
        PROVE  IF t.stage = 0 \/ StillComes(l, n) THEN t.at <= LastCall(l, n)
               ELSE t.at + 1 + Interval[l] <= LastCall(l, n)
    <3>1. CASE Awaited(l, n)
      BY <1>2, <2>4, <3>1
    <3>2. CASE hour + 1 + Interval[l] <= LastCall(l, n)
      BY <1>n, <1>2, <2>1, <2>2, <2>4, <3>2
    <3> QED
      BY <2>2, <2>4, <3>1, <3>2
  <2> QED
    BY <1>1, <2>1, <2>2, <2>3, <2>4 DEF Heading
<1>15. CASE Restarts
  <2>1. hour' = hour /\ upSince' = hour
    BY <1>15 DEF Restarts
  <2>2. StepsTo(l, 0, hour + Interval[l], {}, {})
    BY <1>0, <1>1, <1>15, StepsOfARound
  <2>3. ASSUME NEW n \in Notices, Awaited(l, n)' PROVE FALSE
    <3>1. upSince' < Opens(n)' /\ Opens(n)' <= hour'
      BY <2>3 DEF Awaited
    <3>2. Opens(n)' = Opens(n) /\ n[1] \in About[l] /\ n[2] \in SubIds
      BY <1>15, <2>3 DEF Awaited, Opens, SubIds, Restarts
    <3>3. Opens(n) \in Int
      BY <1>0, <2>3, <3>2, RoundsFitIn
    <3> QED
      BY <1>n, <2>1, <3>1, <3>2, <3>3
  <2> QED
    BY <1>4, <2>2, <2>3
<1> QED
  BY <1>0, <1>1, <1>6, <1>7, <1>8, <1>9, <1>10, <1>11, <1>12, <1>13, <1>14, <1>15, RemindCases

\* The invariant holds at the start.
LEMMA RemindInvStart == RemindInit => RemindInv
<1> SUFFICES ASSUME RemindInit PROVE RemindInv
  OBVIOUS
<1>0. /\ hour = 0 /\ subs = <<>> /\ noted = [n \in Notices |-> Never] /\ troubles = 0
      /\ told = {} /\ unmarked = {} /\ again = {} /\ upSince = 0
  BY DEF RemindInit
<1>1. PICK l \in Loops : turn = [x \in {l} |-> Asleep(l)]
  BY DEF RemindInit
<1>2. Interval[l] \in Nat
  BY LoopConstants
<1>3. /\ DOMAIN turn = {l} /\ turn[l].stage = 0 /\ turn[l].at = Interval[l]
      /\ turn[l].todo = {} /\ turn[l].doing = {}
  BY <1>0, <1>1, <1>2 DEF Asleep
<1>4. RemindTypeOK
  <2> DEFINE Sub == [who : Customers, end : Nat, set : 0 .. MaxHour]
  <2>1. subs \in Seq(Sub) /\ Len(subs) = 0
    <3> HIDE DEF Sub
    <3> QED
      BY <1>0
  <2>2. Asleep(l) \in Turn
    BY <1>0, <1>2 DEF Asleep, Turn, Lists, Groups
  <2>3. turn \in [{l} -> Turn]
    BY <1>1, <2>2
  <2>4. noted \in [Notices -> 0 .. MaxHour \cup {Never}]
    BY <1>0
  <2> QED
    BY <1>0, <2>1, <2>3, <2>4, LoopConstants DEF RemindTypeOK, Turn, Lists, Groups
<1>5. MarksTell
  BY <1>0, <1>3 DEF MarksTell, HasMark, Never
<1>6. ListsOK
  BY <1>3 DEF ListsOK
<1>7. OnTime
  BY <1>0, <1>2, <1>3 DEF OnTime
<1>8. Heading
  <2>1. \A n : ~Awaited(l, n)
    BY <1>0 DEF Awaited, SubIds
  <2> QED
    BY <1>3, <2>1 DEF Heading
<1> QED
  BY <1>0, <1>4, <1>5, <1>6, <1>7, <1>8 DEF RemindInv

\* Every step keeps it.
LEMMA RemindInvStep == RemindInv /\ [RemindNext]_reminding => RemindInv'
<1> SUFFICES ASSUME RemindInv, [RemindNext]_reminding PROVE RemindInv'
  OBVIOUS
<1>1. RemindTypeOK'
  BY RemindTypes DEF RemindInv
<1>2. MarksTell' /\ again' = {} /\ ListsOK' /\ OnTime' /\ Heading'
  BY MarksKept, ListsKept, OnTimeKept, HeadingKept
<1> QED
  BY <1>1, <1>2 DEF RemindInv

\* The hours in which a notice is due are those from Opens to Closes.
LEMMA DueFromTo ==
    ASSUME RemindTypeOK, NEW l \in Loops, NEW n \in Notices,
           n[1] \in About[l], n[2] \in SubIds
    PROVE  Min(Due(n)) = Opens(n) /\ Max(Due(n)) = Closes(n)
<1> DEFINE k == n[1]
           e == subs[n[2]].end
<1>1. Opens(n) \in Int /\ Closes(n) \in Int /\ Opens(n) <= Closes(n)
  BY RoundsFitIn
<1>2. e \in Nat
  BY SubsAre
<1>3. Due(n) = Opens(n) .. Closes(n)
  <2>1. k \in {"expiry_3", "expiry_1", "churn_ask", "agent_expiry_soon", "agent_expired"}
    BY LoopConstants DEF Loops
  <2>2. ASSUME NEW a \in Int, NEW b \in Int, a <= b PROVE Min({a, b}) = a /\ Min({b, a}) = a
    <3>1. \A x \in {a, b} : (\A y \in {a, b} : x <= y) <=> x = a
      BY <2>2
    <3>2. {a, b} = {b, a}
      OBVIOUS
    <3> QED
      BY <3>1, <3>2 DEF Min
  <2>3. CASE k = "expiry_3"
    <3>1. Due(n) = e - 3 * DayHours + 1 .. Min({e - (3 - 1) * DayHours, e - 1})
      BY <2>3, LoopConstants DEF Due
    <3>2. e - (3 - 1) * DayHours = e - 2 * DayHours /\ e - 2 * DayHours <= e - 1
      BY <1>2, LoopConstants
    <3>3. Min({e - 2 * DayHours, e - 1}) = e - 2 * DayHours
      BY <1>2, <2>2, <3>2, LoopConstants
    <3> QED
      BY <2>3, <3>1, <3>2, <3>3 DEF Opens, Closes
  <2>4. CASE k = "expiry_1"
    <3>1. Due(n) = e - 1 * DayHours + 1 .. Min({e - (1 - 1) * DayHours, e - 1})
      BY <2>4, LoopConstants DEF Due
    <3>2. e - (1 - 1) * DayHours = e /\ e - 1 <= e /\ e - 1 * DayHours + 1 = e - DayHours + 1
      BY <1>2, LoopConstants
    <3>3. Min({e, e - 1}) = e - 1
      <4>1. e \in Int /\ e - 1 \in Int
        BY <1>2
      <4> HIDE DEF e
      <4> QED
        BY <2>2, <3>2, <4>1
    <3> QED
      BY <2>4, <3>1, <3>2, <3>3 DEF Opens, Closes
  <2>5. CASE k \in {"churn_ask", "agent_expiry_soon", "agent_expired"}
    BY <2>5, LoopConstants DEF Due, Opens, Closes
  <2> QED
    BY <2>1, <2>3, <2>4, <2>5
<1>4. ASSUME NEW a \in Int, NEW b \in Int, a <= b PROVE Min(a .. b) = a /\ Max(a .. b) = b
  <2>1. \A x \in a .. b : (\A y \in a .. b : x <= y) <=> x = a
    BY <1>4
  <2>2. \A x \in a .. b : (\A y \in a .. b : x >= y) <=> x = b
    BY <1>4
  <2> QED
    BY <1>4, <2>1, <2>2 DEF Min, Max
<1> QED
  BY <1>1, <1>3, <1>4

\* Whoever has to be told has been told when the hours have passed.
LEMMA ToldByThen ==
    ASSUME RemindInv
    PROVE  ToldOnceInTime
<1>0. RemindTypeOK /\ OnTime /\ Heading /\ again = {}
  BY DEF RemindInv
<1>1. PICK l \in Loops : DOMAIN turn = {l} /\ turn[l] \in Turn
  BY <1>0, OneLoop
<1>2. ASSUME NEW n \in Notices, n[2] \in SubIds, n[1] \in About[l],
             n[1] \in About.agentnudge => subs[n[2]].who \in Sold,
             hour > Max(Due(n)) + 1, Undisturbed(n), n \notin told
      PROVE  FALSE
  <2> DEFINE his == OfCustomer(subs[n[2]].who, SubIds)
  <2>1. Min(Due(n)) = Opens(n) /\ Max(Due(n)) = Closes(n)
    BY <1>0, <1>2, DueFromTo
  <2>2. /\ Opens(n) \in Int /\ Closes(n) \in Int /\ LastCall(l, n) \in Int
        /\ Opens(n) <= Closes(n) /\ LastCall(l, n) <= Closes(n)
    BY <1>0, <1>2, RoundsFitIn
  <2>3. hour \in Nat /\ turn[l].at \in Nat /\ Interval[l] \in Nat
    BY <1>0, <1>1, LoopConstants DEF RemindTypeOK, Turn
  <2>4. IsLast(n[2], his)
    <3>1. n[2] \in his /\ his \subseteq SubIds
      BY <1>2 DEF OfCustomer
    <3>2. n[2] = EndsLast(his)
      BY <1>2 DEF Undisturbed
    <3> HIDE DEF his
    <3> QED
      BY <1>0, <3>1, <3>2, EndsLastIs
  <2>5. upSince < Opens(n) /\ \A j \in his : subs[j].set < Opens(n)
    BY <1>2, <2>1 DEF Undisturbed
  <2>6. Opens(n) <= hour /\ Closes(n) + 1 < hour
    BY <1>2, <2>1, <2>2, <2>3
  <2>7. Awaited(l, n)
    BY <1>2, <2>4, <2>5, <2>6 DEF Awaited
  <2>8. turn[l].at <= LastCall(l, n)
    BY <1>1, <1>2, <1>0, <2>2, <2>3, <2>7 DEF Heading
  <2>9. hour <= turn[l].at + 1
    BY <1>0, <1>1, <2>3 DEF OnTime
  <2> QED
    BY <2>2, <2>3, <2>6, <2>8, <2>9
<1> QED
  BY <1>0, <1>1, <1>2 DEF ToldOnceInTime, ToldOnce, ToldInTime

\* Where the rounds fit into the hours in which a notice is due, each comes, and once
\* (reminders.py, agentnudge.py: their loops and the table reminder_state).
THEOREM NoticesInTime == RemindSpec => []ToldOnceInTime
<1>1. RemindInit => RemindInv
  BY RemindInvStart
<1>2. RemindInv /\ [RemindNext]_reminding => RemindInv'
  BY RemindInvStep
<1>3. RemindInv => ToldOnceInTime
  BY ToldByThen
<1> QED
  BY <1>1, <1>2, <1>3, PTL DEF RemindSpec

-----------------------------------------------------------------------------
(* How a post is brought to its destination (SendWays).                      *)

\* The type of the state.
Points == {"reserve", "send", "caption", "undo", "fetch", "rewrite", "ready", "remember",
           "caught", "rest"}
Ways == {"", "text", "refused", "bot", "forward", "poll", "opaque", "tag", "mark", "direct",
         "again"}
Mistakes == Errors \cup {"", "premium", "cancelled"}
IdLists == UNION {[S -> Nat] : S \in SUBSET Nat}
JobType == [order : Order, tries : Nat, made : Nat, row : IdLists, slipped : BOOLEAN,
            leaked : BOOLEAN]
TryType == [at : Points, way : Ways, part : Nat, got : Seq(Paths), src : Paths \cup {<<>>},
            tagged : BOOLEAN, ids : IdLists, error : Mistakes, plain : BOOLEAN, unit : BOOLEAN]

JobsOK ==
    /\ DOMAIN job \subseteq Sendings
    /\ job \in [DOMAIN job -> JobType] /\ try \in [DOMAIN job -> TryType]
    /\ \A s \in DOMAIN job : IsOrder(job[s].order) /\ try[s].part \in DOMAIN job[s].order.parts
Forwarded(o) == o.forward /\ ~o.simple
FileOK(p, b, orders) ==
    /\ p \in Paths /\ b \in Bodies /\ b.of \in DOMAIN orders
    /\ b.part \in DOMAIN orders[b.of].order.parts
FilesOK ==
    /\ files = [p \in DOMAIN files |-> files[p]] /\ IsFiniteSet(DOMAIN files)
    /\ \A p \in DOMAIN files : FileOK(p, files[p], job)
MessageOK(m, orders) ==
    /\ m \in Messages /\ m.of \in DOMAIN orders
    /\ m.text = "source" => LET o == orders[m.of].order IN o.wanted = "source" \/ Forwarded(o)
ChatOK == \A m \in chat : MessageOK(m, job)

-----------------------------------------------------------------------------
\* The ways.
OneText(o) == Head(o.parts) = "text" \/ o.captionOnly
Uploading == {"bot", "tag", "mark", "again"}
WayFits(o, way) ==
    /\ way = "forward" => Forwarded(o)
    /\ way \in {"text", "poll", "opaque", "direct"} \cup Uploading => ~Forwarded(o)
    /\ way = "text" => OneText(o)
    /\ way \in {"opaque", "direct"} \cup Uploading => ~OneText(o)
    /\ way = "poll" => Head(o.parts) = "poll" /\ ~OneText(o)
    /\ way = "tag" => o.rewrite
    /\ way = "mark" => o.watermark

Loading == {"fetch", "rewrite", "ready"}
TryFits(o, t) ==
    /\ t.unit => o.watermark
    /\ t.at \in Loading \cup {"send", "caption"} => WayFits(o, t.way)
    /\ t.at \in Loading => t.way \in Uploading
    /\ t.at = "rewrite" => t.way = "tag"
    /\ t.at = "caption" => t.way = "opaque"
    /\ t.at = "reserve" \/ (t.at = "send" /\ t.way \in {"bot", "tag", "mark"}) => t.part = 1
WaysFit == \A s \in DOMAIN job : TryFits(job[s].order, try[s])

-----------------------------------------------------------------------------
\* A coroutine goes on; of the jobs only its own changes, and not the post.
JobStays(s) ==
    /\ DOMAIN job' = DOMAIN job /\ job' \in [DOMAIN job -> JobType]
    /\ \A r \in DOMAIN job : /\ job'[r].order = job[r].order
                             /\ r # s => job'[r] = job[r]
    /\ job[s].slipped => job'[s].slipped
    /\ job[s].leaked => job'[s].leaked
Fit(s, t) ==
    t \in TryType /\ t.part \in DOMAIN job[s].order.parts /\ TryFits(job[s].order, t)
Proceeds(s, t) == Becomes(s, t) /\ Fit(s, t) /\ JobStays(s)

\* Each way is for posts of its kind, and a mark for a plan that has a unit.
LEMMA WayOfFits ==
    ASSUME NEW o, IsOrder(o), NEW unit \in BOOLEAN, unit => o.watermark
    PROVE  WayOf(o, unit) \in Ways \ {"", "again"} /\ WayFits(o, WayOf(o, unit))
<1>. o \in Order
  BY DEF IsOrder
<1>. DEFINE first == Head(o.parts)
            way == WayOf(o, unit)
<1>0. SUFFICES way \in Ways \ {"", "again"} /\ WayFits(o, way)
  OBVIOUS
<1>1. CASE o.simple
  <2>1. way = IF OneText(o) THEN "text"
              ELSE IF first \in {"poll", "quiz"} \/ IsOpaque(o) THEN "refused" ELSE "bot"
    BY <1>1 DEF WayOf, BotWay, OneText
  <2>. HIDE DEF way
  <2>. QED BY <1>1, <2>1 DEF WayFits, Ways, Uploading, Forwarded
<1>2. CASE ~o.simple /\ o.forward
  <2>1. way = "forward"
    BY <1>2 DEF WayOf
  <2>. HIDE DEF way
  <2>. QED BY <1>2, <2>1 DEF WayFits, Ways, Uploading, Forwarded
<1>3. CASE ~o.simple /\ ~o.forward
  <2>1. CASE first \in {"poll", "quiz"} /\ ~o.captionOnly
    <3>1. way = IF first = "quiz" THEN "refused" ELSE "poll"
      BY <1>3, <2>1 DEF WayOf
    <3>. HIDE DEF way
    <3>. QED BY <1>3, <2>1, <3>1 DEF WayFits, Ways, Uploading, Forwarded, OneText
  <2>2. CASE ~(first \in {"poll", "quiz"} /\ ~o.captionOnly) /\ OneText(o)
    <3>1. way = "text"
      BY <1>3, <2>2 DEF WayOf, OneText
    <3>. HIDE DEF way
    <3>. QED BY <1>3, <2>2, <3>1 DEF WayFits, Ways, Uploading, Forwarded
  <2>3. CASE ~(first \in {"poll", "quiz"} /\ ~o.captionOnly) /\ ~OneText(o)
    <3>1. way = IF IsOpaque(o) THEN "opaque"
                ELSE IF o.rewrite /\ first = "document" THEN "tag"
                ELSE IF unit /\ first = "photo" THEN "mark" ELSE "direct"
      BY <1>3, <2>3 DEF WayOf, OneText
    <3>. HIDE DEF way
    <3>. QED BY <1>3, <2>3, <3>1 DEF WayFits, Ways, Uploading, Forwarded
  <2>. QED BY <2>1, <2>2, <2>3
<1>. QED BY <1>1, <1>2, <1>3 DEF Order

\* What one coroutine does leaves the types, and all that the others hold.
LEMMA Going ==
    ASSUME JobsOK, WaysFit, NEW s \in DOMAIN job, NEW t, Proceeds(s, t)
    PROVE  /\ JobsOK' /\ WaysFit' /\ try'[s] = t /\ DOMAIN job' = DOMAIN job
           /\ \A r \in DOMAIN job : r # s => try'[r] = try[r]
<1>1. /\ try'[s] = t /\ try' \in [DOMAIN job -> TryType]
      /\ \A r \in DOMAIN job : r # s => try'[r] = try[r]
  BY DEF JobsOK, Proceeds, Fit, Becomes
<1>2. DOMAIN job' = DOMAIN job /\ job' \in [DOMAIN job -> JobType]
  BY DEF Proceeds, JobStays
<1>3. \A r \in DOMAIN job : job'[r].order = job[r].order
  BY DEF Proceeds, JobStays
<1>4. JobsOK'
  BY <1>1, <1>2, <1>3 DEF JobsOK, Proceeds, Fit
<1>5. WaysFit'
  BY <1>1, <1>2, <1>3 DEF WaysFit, Proceeds, Fit
<1>. QED BY <1>1, <1>2, <1>4, <1>5

\* Messages were made.
LEMMA MadeStays ==
    ASSUME JobsOK, NEW s \in DOMAIN job, NEW n \in Nat, NEW u \in BOOLEAN, Made(s, n, u)
    PROVE  JobStays(s) /\ job'[s].slipped = (job[s].slipped \/ u) /\ job'[s].row = job[s].row
           /\ job'[s].leaked = job[s].leaked
<1>. DEFINE slips == job[s].slipped \/ u
            j == [job[s] EXCEPT !.made = job[s].made + n, !.slipped = slips]
<1>1. job[s] \in JobType
  BY DEF JobsOK
<1>2. slips \in BOOLEAN /\ job[s].made + n \in Nat
  BY <1>1 DEF JobType
<1>3. job' = [job EXCEPT ![s] = j]
  BY DEF Made
<1>. HIDE DEF slips
<1>4. /\ j \in JobType /\ j.order = job[s].order /\ j.slipped = slips
      /\ j.row = job[s].row /\ j.leaked = job[s].leaked
  BY <1>1, <1>2 DEF JobType
<1>. HIDE DEF j
<1>5. job \in [DOMAIN job -> JobType]
  BY DEF JobsOK
<1>. QED BY <1>3, <1>4, <1>5 DEF JobStays, slips

\* Nothing was made.
LEMMA SameStays ==
    ASSUME JobsOK, NEW s \in DOMAIN job, job' = job
    PROVE  JobStays(s)
BY DEF JobsOK, JobStays

\* The empty list.
LEMMA NoIds == <<>> \in IdLists /\ DOMAIN <<>> = {} /\ ToSet(<<>>) = {}
<1>1. DOMAIN <<>> = {}
  OBVIOUS
<1>2. <<>> \in [{} -> Nat]
  BY <1>1
<1>. QED BY <1>1, <1>2 DEF IdLists, ToSet

-----------------------------------------------------------------------------
\* What a coroutine has downloaded, and in which order.  What is there of it is its own, part
\* for part, unless the coroutine is one of X: something was written over what it has.
TriedOf(o, t) == IF t.at = "ready" THEN Len(o.parts) ELSE t.part - 1
Sound(s, o, t, fs) ==
    /\ \A p \in HandOf(t) : p \in DOMAIN fs => fs[p].of = s
    /\ t.at \in Loading /\ Len(t.got) = TriedOf(o, t) =>
          \A k \in DOMAIN t.got : t.got[k] \in DOMAIN fs => fs[t.got[k]].part = k
    /\ t.at = "rewrite" /\ t.src \in DOMAIN fs => fs[t.src].part = t.part
HeldBy(s, o, t, fs, X) ==
    /\ t.at \notin Loading => t.got = <<>>
    /\ t.at \in Loading => Len(t.got) <= TriedOf(o, t)
    /\ t.at = "rewrite" => t.src \in Paths /\ t.src[1] = ""
    /\ s \notin X => Sound(s, o, t, fs)
FilesHeld ==
    /\ \A s \in DOMAIN job : HeldBy(s, job[s].order, try[s], files, mixed)
    /\ \A p \in DOMAIN files : job[files[p].of].leaked \/ p \in HandOf(try[files[p].of])

\* Of more values than a set has, one is not in the set; and there is a first.
LEMMA FirstFree ==
    ASSUME NEW S, IsFiniteSet(S), NEW C \in Nat, Cardinality(S) <= C,
           NEW f, \A m, n \in Nat : f[m] = f[n] => m = n
    PROVE  \E n \in 0 .. C : f[n] \notin S /\ \A m \in 0 .. n - 1 : f[m] \in S
<1>. DEFINE Free == {n \in 0 .. C : f[n] \notin S}
<1>1. IsFiniteSet(0 .. C) /\ Cardinality(0 .. C) = C + 1
  BY FS_Interval
<1>2. Free # {}
  <2>. SUFFICES ASSUME \A n \in 0 .. C : f[n] \in S PROVE FALSE
    OBVIOUS
  <2>. DEFINE g == [n \in 0 .. C |-> f[n]]
  <2>1. g \in Injection(0 .. C, S)
    BY DEF Injection, IsInjective
  <2>. HIDE DEF g
  <2>2. Cardinality(0 .. C) <= Cardinality(S) /\ Cardinality(S) \in Nat
    BY <2>1, FS_Injection, FS_CardinalityType
  <2>. QED BY <1>1, <2>2
<1>3. Free \subseteq 0 .. C
  OBVIOUS
<1>. DEFINE B == {0 .. n : n \in Free}
<1>4. B \in SUBSET SUBSET (0 .. C) /\ B # {}
  <2>. HIDE DEF Free
  <2>1. \A n \in Free : 0 .. n \subseteq 0 .. C /\ 0 .. n \in B
    BY <1>3
  <2>2. \A b \in B : b \subseteq 0 .. C
    BY <2>1
  <2>3. B # {}
    <3>. HIDE DEF B
    <3>. QED BY <2>1, <1>2
  <2>. HIDE DEF B
  <2>. QED BY <2>2, <2>3
<1>5. PICK least \in B : \A t \in B : ~(t \subseteq least /\ t # least)
  <2>. DEFINE I == 0 .. C
  <2>. HIDE DEF B
  <2>1. IsFiniteSet(I) /\ B \in SUBSET SUBSET I /\ B # {}
    BY <1>1, <1>4
  <2>. HIDE DEF I
  <2>. QED BY <2>1, SmallestSet
<1>6. PICK n \in Free : least = 0 .. n
  BY <1>5
<1>7. \A m \in 0 .. n - 1 : m \notin Free
  <2>. SUFFICES ASSUME NEW m \in 0 .. n - 1, m \in Free PROVE FALSE
    OBVIOUS
  <2>1. 0 .. m \in B
    OBVIOUS
  <2>2. n \in Nat /\ m \in Nat /\ m < n
    BY <1>3
  <2>3. 0 .. m \subseteq 0 .. n /\ n \in 0 .. n /\ n \notin 0 .. m
    BY <2>2
  <2>. QED BY <1>5, <1>6, <2>1, <2>3
<1>8. n \in 0 .. C /\ f[n] \notin S
  OBVIOUS
<1>9. \A m \in 0 .. n - 1 : f[m] \in S
  <2>1. \A m \in 0 .. n - 1 : m \in 0 .. C
    BY <1>8
  <2>. QED BY <2>1, <1>7
<1>. QED BY <1>8, <1>9

\* A download has a name of its own.
LEMMA FreshName ==
    ASSUME FilesOK, NEW name \in STRING
    PROVE  /\ Downloaded(name) \in Paths /\ Downloaded(name) \notin DOMAIN files
           /\ Downloaded(name)[2] = name
<1>. DEFINE f == [n \in Nat |-> <<"", name, n>>]
<1>1. Cardinality(DOMAIN files) \in Nat /\ IsFiniteSet(DOMAIN files)
  BY FS_CardinalityType DEF FilesOK
<1>2. \A m, n \in Nat : f[m] = f[n] => m = n
  OBVIOUS
<1>3. \A n \in Nat : f[n] = <<"", name, n>>
  OBVIOUS
<1>. HIDE DEF f
<1>4. ASSUME NEW top \in Nat, Cardinality(DOMAIN files) = top
      PROVE  \E n \in 0 .. top : /\ <<"", name, n>> \notin DOMAIN files
                                 /\ \A m \in 0 .. n - 1 : <<"", name, m>> \in DOMAIN files
  <2>0. Cardinality(DOMAIN files) <= top
    BY <1>4
  <2>1. PICK n \in 0 .. top : /\ f[n] \notin DOMAIN files
                              /\ \A m \in 0 .. n - 1 : f[m] \in DOMAIN files
    BY <1>1, <1>2, <2>0, FirstFree
  <2>2. n \in Nat /\ \A m \in 0 .. n - 1 : m \in Nat
    OBVIOUS
  <2>. QED BY <1>3, <2>1, <2>2
<1>5. \E n \in 0 .. Cardinality(DOMAIN files) :
         /\ <<"", name, n>> \notin DOMAIN files
         /\ \A m \in 0 .. n - 1 : <<"", name, m>> \in DOMAIN files
  BY <1>1, <1>4
<1>6. /\ Numbered(name) \in 0 .. Cardinality(DOMAIN files)
      /\ <<"", name, Numbered(name)>> \notin DOMAIN files
  BY <1>5 DEF Numbered
<1>7. \A x, top : top \in Nat /\ x \in 0 .. top => x \in Nat
  OBVIOUS
<1>8. Numbered(name) \in Nat
  BY <1>1, <1>6, <1>7
<1>. QED BY <1>6, <1>8 DEF Paths, Downloaded

-----------------------------------------------------------------------------
\* Messages with ids of their own are as many as there are ids.
LEMMA WholeFrom ==
    ASSUME NEW D, IsFiniteSet(D), NEW msgs, DOMAIN msgs = D,
           \A k, l \in D : msgs[k].id = msgs[l].id => k = l
    PROVE  Cardinality(ToSet(msgs)) = Cardinality(D)
<1>. DEFINE f == [k \in D |-> msgs[k]]
<1>0. ToSet(msgs) = {msgs[k] : k \in D}
  BY DEF ToSet
<1>1. f \in Bijection(D, ToSet(msgs))
  <2>1. f \in Injection(D, ToSet(msgs))
    BY <1>0 DEF Injection, IsInjective
  <2>2. f \in Surjection(D, ToSet(msgs))
    BY <1>0 DEF Surjection
  <2>. QED BY <2>1, <2>2 DEF Bijection
<1>2. ExistsBijection(D, ToSet(msgs))
  BY <1>1 DEF ExistsBijection
<1>. QED BY <1>2, FS_Bijection

\* Those with a text: none, or one.
Captioned(S) == {m \in S : m.text # "none"}

\* No message has a text.
LEMMA NoCaptions ==
    ASSUME NEW msgs, \A k \in DOMAIN msgs : msgs[k].text = "none"
    PROVE  Captioned(ToSet(msgs)) = {}
BY DEF Captioned, ToSet

\* One message has a text.
LEMMA OneCaption ==
    ASSUME NEW msgs, NEW c \in DOMAIN msgs, \A k \in DOMAIN msgs : msgs[k].text # "none" <=> k = c
    PROVE  Captioned(ToSet(msgs)) = {msgs[c]}
BY DEF Captioned, ToSet

-----------------------------------------------------------------------------
\* Whoever has something in hand, and of whom no step says it was written over, has it still.
LEMMA Unmixed ==
    ASSUME Mixing, NEW r \in DOMAIN job, r \notin mixed', try'[r].at \notin Empty
    PROVE  /\ r \notin mixed
           /\ \A p \in HandOf(try[r]) :
                 p \in DOMAIN files' => p \in DOMAIN files /\ files'[p] = files[p]
BY DEF Mixing, WrittenOver

\* What was written over stays so.
LEMMA StaysMixed ==
    ASSUME Mixing, NEW r \in mixed, try'[r].at \notin Empty
    PROVE  r \in mixed'
BY DEF Mixing

\* What is held is not touched, or it is known.
LEMMA HeldStays ==
    ASSUME NEW s, NEW o, NEW t, NEW fs, NEW gs, NEW X, NEW Y, HeldBy(s, o, t, fs, X),
           t.at \in Loading /\ s \notin Y =>
              /\ s \notin X
              /\ \A p \in HandOf(t) : p \in DOMAIN gs => p \in DOMAIN fs /\ gs[p] = fs[p]
    PROVE  HeldBy(s, o, t, gs, Y)
<1>1. CASE t.at \in Loading
  <2>1. \A k \in DOMAIN t.got : t.got[k] \in HandOf(t)
    BY DEF HandOf, ToSet
  <2>2. t.at = "rewrite" => t.src \in HandOf(t)
    BY DEF HandOf
  <2>. QED BY <1>1, <2>1, <2>2 DEF HeldBy, Sound
<1>2. CASE t.at \notin Loading
  <2>1. t.got = <<>> /\ t.at # "rewrite"
    BY <1>2 DEF HeldBy, Loading
  <2>2. HandOf(t) = {}
    BY <2>1, NoIds DEF HandOf
  <2>. QED BY <1>2, <2>1, <2>2 DEF HeldBy, Sound
<1>. QED BY <1>1, <1>2

\* Nothing is held.
LEMMA HeldNone ==
    ASSUME NEW s, NEW o, NEW t, NEW fs, NEW X, t.at \notin Loading, t.got = <<>>
    PROVE  HeldBy(s, o, t, fs, X) /\ HandOf(t) = {}
<1>1. HandOf(t) = {}
  BY NoIds DEF HandOf, Loading
<1>. QED BY <1>1 DEF HeldBy, Sound, Loading

\* One coroutine changes the directory; whose files it writes over is known.
LEMMA FilesGo ==
    ASSUME JobsOK, WaysFit, FilesHeld, Mixing, NEW s \in DOMAIN job, NEW t, Proceeds(s, t),
           HeldBy(s, job[s].order, t, files', mixed'),
           \A p \in DOMAIN files' : files'[p].of # s => p \in DOMAIN files /\ files[p] = files'[p],
           \A p \in DOMAIN files' : files'[p].of = s => job'[s].leaked \/ p \in HandOf(t),
           FilesOK'
    PROVE  FilesHeld'
<1>1. /\ JobsOK' /\ WaysFit' /\ try'[s] = t /\ DOMAIN job' = DOMAIN job
      /\ \A r \in DOMAIN job : r # s => try'[r] = try[r]
  BY Going
<1>2. \A r \in DOMAIN job : job'[r].order = job[r].order /\ (r # s => job'[r] = job[r])
  BY DEF Proceeds, JobStays
<1>3. ASSUME NEW r \in DOMAIN job, r # s
      PROVE  HeldBy(r, job[r].order, try[r], files', mixed')
  <2>1. HeldBy(r, job[r].order, try[r], files, mixed)
    BY DEF FilesHeld
  <2>2. ASSUME try[r].at \in Loading, r \notin mixed'
        PROVE  /\ r \notin mixed
               /\ \A p \in HandOf(try[r]) :
                     p \in DOMAIN files' => p \in DOMAIN files /\ files'[p] = files[p]
    <3>1. try'[r].at \notin Empty
      BY <1>1, <1>3, <2>2 DEF Loading, Empty
    <3>. QED BY <2>2, <3>1, Unmixed
  <2>. QED BY <2>1, <2>2, HeldStays
<1>4. \A r \in DOMAIN job' : HeldBy(r, job'[r].order, try'[r], files', mixed')
  BY <1>1, <1>2, <1>3
<1>5. ASSUME NEW p \in DOMAIN files'
      PROVE  job'[files'[p].of].leaked \/ p \in HandOf(try'[files'[p].of])
  <2>1. CASE files'[p].of = s
    BY <1>1, <2>1
  <2>2. CASE files'[p].of # s
    <3>1. p \in DOMAIN files /\ files[p] = files'[p]
      BY <2>2
    <3>2. files'[p].of \in DOMAIN job
      BY <1>1, <1>5 DEF FilesOK, FileOK
    <3>3. job[files[p].of].leaked \/ p \in HandOf(try[files[p].of])
      BY <3>1 DEF FilesHeld
    <3>. QED BY <1>1, <1>2, <2>2, <3>1, <3>2, <3>3
  <2>. QED BY <2>1, <2>2
<1>. QED BY <1>4, <1>5 DEF FilesHeld

\* The posts stay, and with them what is said of files and messages.
LEMMA PostsStay ==
    ASSUME NEW s \in DOMAIN job, JobStays(s)
    PROVE  /\ \A p, b : FileOK(p, b, job) => FileOK(p, b, job')
           /\ \A m : MessageOK(m, job) => MessageOK(m, job')
<1>1. DOMAIN job' = DOMAIN job /\ \A r \in DOMAIN job : job'[r].order = job[r].order
  BY DEF JobStays
<1>2. ASSUME NEW p, NEW b, FileOK(p, b, job)
      PROVE  FileOK(p, b, job')
  BY <1>1, <1>2 DEF FileOK
<1>3. ASSUME NEW m, MessageOK(m, job)
      PROVE  MessageOK(m, job')
  BY <1>1, <1>3 DEF MessageOK
<1>. QED BY <1>2, <1>3

\* The downloads of a try are discarded.
LEMMA FilesDropped ==
    ASSUME JobsOK, WaysFit, FilesOK, FilesHeld, Mixing, NEW s \in DOMAIN job, NEW t, Proceeds(s, t),
           Unlinked(ToSet(try[s].got)), t.at \notin Loading, t.got = <<>>,
           try[s].at = "rewrite" => job'[s].leaked
    PROVE  FilesOK' /\ FilesHeld'
<1>. DEFINE rest == DOMAIN files \ ToSet(try[s].got)
<1>1. files' = [p \in rest |-> files[p]]
  BY DEF Unlinked, Restrict
<1>2. DOMAIN files' = rest /\ \A p \in rest : files'[p] = files[p]
  BY <1>1
<1>. HIDE DEF rest
<1>3. rest \subseteq DOMAIN files /\ \A p \in DOMAIN files : p \in rest <=> p \notin ToSet(try[s].got)
  BY DEF rest
<1>4. JobStays(s)
  BY DEF Proceeds
<1>5. FilesOK'
  <2>1. IsFiniteSet(rest)
    BY <1>3, FS_Subset DEF FilesOK
  <2>2. \A p \in rest : FileOK(p, files[p], job')
    BY <1>3, <1>4, PostsStay DEF FilesOK
  <2>. QED BY <1>1, <1>2, <2>1, <2>2 DEF FilesOK
<1>7. HeldBy(s, job[s].order, t, files', mixed')
  BY HeldNone
<1>8. \A p \in DOMAIN files' : files'[p].of = s => job'[s].leaked \/ p \in HandOf(t)
  <2>1. ASSUME NEW p \in rest, files[p].of = s
        PROVE  job'[s].leaked
    <3>1. job[s].leaked \/ p \in HandOf(try[s])
      BY <1>3, <2>1 DEF FilesHeld
    <3>2. p \in HandOf(try[s]) => try[s].at = "rewrite"
      BY <1>3, <2>1 DEF HandOf
    <3>. QED BY <1>4, <3>1, <3>2 DEF JobStays
  <2>. QED BY <1>2, <2>1
<1>. QED BY <1>2, <1>3, <1>5, <1>7, <1>8, FilesGo

\* The directory is as it was, and so is what the coroutine has of it.
LEMMA FilesSame ==
    ASSUME JobsOK, WaysFit, FilesOK, FilesHeld, Mixing, NEW s \in DOMAIN job, NEW t, Proceeds(s, t),
           files' = files, HandOf(t) = HandOf(try[s]), HeldBy(s, job[s].order, t, files, mixed)
    PROVE  FilesOK' /\ FilesHeld'
<1>1. JobStays(s)
  BY DEF Proceeds
<1>2. FilesOK'
  BY <1>1, PostsStay DEF FilesOK
<1>3. \A p \in DOMAIN files : files[p].of = s => job'[s].leaked \/ p \in HandOf(t)
  BY <1>1 DEF FilesHeld, JobStays
<1>4. HeldBy(s, job[s].order, t, files', mixed')
  <2>1. t.at \in Loading /\ s \notin mixed' => s \notin mixed
    BY Going, StaysMixed DEF Loading, Empty
  <2>. QED BY <2>1, HeldStays
<1>. QED BY <1>2, <1>3, <1>4, FilesGo

\* It has none, and takes none.
LEMMA FilesIdle ==
    ASSUME JobsOK, WaysFit, FilesOK, FilesHeld, Mixing, NEW s \in DOMAIN job, NEW t, Proceeds(s, t),
           files' = files, try[s].at \notin Loading, t.at \notin Loading, t.got = try[s].got
    PROVE  FilesOK' /\ FilesHeld'
<1>1. try[s].got = <<>>
  BY DEF FilesHeld, HeldBy
<1>2. HandOf(try[s]) = {}
  BY <1>1, HeldNone
<1>3. HeldBy(s, job[s].order, t, files, mixed) /\ HandOf(t) = {}
  BY <1>1, HeldNone
<1>. QED BY <1>2, <1>3, FilesSame

\* A file is written, whatever was there.
LEMMA FileWritten ==
    ASSUME JobsOK, WaysFit, FilesOK, FilesHeld, Mixing, NEW s \in DOMAIN job, NEW t, Proceeds(s, t),
           NEW p, NEW b, files' = Written(p, b), FileOK(p, b, job), b.of = s,
           HandOf(t) = HandOf(try[s]) \cup {p}, HeldBy(s, job[s].order, t, files', mixed')
    PROVE  FilesOK' /\ FilesHeld'
<1>1. /\ files' = [q \in DOMAIN files \cup {p} |-> IF q = p THEN b ELSE files[q]]
      /\ DOMAIN files' = DOMAIN files \cup {p} /\ files'[p] = b
      /\ \A q \in DOMAIN files : q # p => files'[q] = files[q]
  BY DEF Written
<1>2. JobStays(s)
  BY DEF Proceeds
<1>3. FilesOK'
  <2>1. IsFiniteSet(DOMAIN files')
    BY <1>1, FS_AddElement DEF FilesOK
  <2>2. \A q \in DOMAIN files' : FileOK(q, files'[q], job')
    <3>. SUFFICES ASSUME NEW q \in DOMAIN files' PROVE FileOK(q, files'[q], job)
      BY <1>2, PostsStay
    <3>. QED BY <1>1 DEF FilesOK
  <2>3. files' = [q \in DOMAIN files' |-> files'[q]]
    BY <1>1
  <2>. QED BY <2>1, <2>2, <2>3 DEF FilesOK
<1>4. \A q \in DOMAIN files' : files'[q].of = s => job'[s].leaked \/ q \in HandOf(t)
  BY <1>1, <1>2 DEF FilesHeld, JobStays
<1>. QED BY <1>1, <1>3, <1>4, FilesGo

-----------------------------------------------------------------------------
\* What stands in the destination, at each point of a try: the content is sure of a sending that
\* is none of X.
IdsOf(S) == {m.id : m \in S}
Whole(o, s, S, X) ==
    LET captions == Captioned(S)
        due == IF Forwarded(o) THEN Original(o) ELSE o.wanted
        textless == o.holder = 0 /\ \A m \in S : m.body.look = "forwarded"
        poll == Head(o.parts) = "poll" /\ ~o.captionOnly
        parts == IF ~Forwarded(o) /\ OneText(o) THEN {0} ELSE DOMAIN o.parts
    IN  /\ Cardinality(S) = Cardinality(parts)
        /\ s \in X \/ ({m.body.part : m \in S} = parts /\ \A m \in S : m.body.of = s)
        /\ \/ due = "none" /\ captions = {}
           \/ (poll \/ textless) /\ captions = {}
           \/ Cardinality(captions) = 1 /\ \A m \in captions : m.text = due
Uncaptioned(o, s, ids) ==
    {[id |-> ids[k], of |-> s, body |-> Body(s, k, "forwarded"),
      text |-> IF k = o.holder /\ ~DropsCaptions(o) THEN "source" ELSE "none"] : k \in DOMAIN o.parts}
StandsFor(s, o, row, t, S, X) ==
    /\ t.at \in Loading \cup {"reserve", "send", "caught"} => S = {} /\ t.ids = <<>>
    /\ t.at = "remember" =>
          IF t.ids = <<>> THEN S = {} ELSE Whole(o, s, S, X) /\ IdsOf(S) = ToSet(t.ids)
    /\ t.at = "caption" => /\ DOMAIN t.ids = DOMAIN o.parts /\ Signature(o) # "none"
                           /\ \A k, l \in DOMAIN t.ids : t.ids[k] = t.ids[l] => k = l
                           /\ S = Uncaptioned(o, s, t.ids)
    /\ t.at = "undo" => IdsOf(S) \subseteq ToSet(t.ids)
    /\ t.at = "rest" => IF row = <<>> THEN S = {} ELSE Whole(o, s, S, X) /\ IdsOf(S) = ToSet(row)
Paid(row, t) ==
    /\ t.at # "rest" => row = <<>>
    /\ t.at = "rest" /\ t.unit => row # <<>> \/ t.error = "cancelled"
Stands ==
    \A s \in DOMAIN job :
        /\ ~job[s].slipped => StandsFor(s, job[s].order, job[s].row, try[s], Standing(s), mixed)
        /\ Paid(job[s].row, try[s])

\* The post as it should stand, in the words of the model.
LEMMA WholeIs ==
    ASSUME NEW s \in DOMAIN job
    PROVE  WholePost(s) <=> Whole(job[s].order, s, Standing(s), mixed)
BY DEF WholePost, Whole, Forwarded, OneText, Captioned

\* Where nothing was made yet, it is all the same what was written over.
LEMMA StandsOn ==
    ASSUME NEW s, NEW o, NEW row, NEW t, NEW S, NEW X, NEW Y, StandsFor(s, o, row, t, S, X),
           t.at \notin Empty /\ s \in X => s \in Y
    PROVE  StandsFor(s, o, row, t, S, Y)
<1>1. t.at \notin Empty /\ Whole(o, s, S, X) => Whole(o, s, S, Y)
  BY DEF Whole
<1>2. t.at \in {"remember", "rest"} => t.at \notin Empty
  BY DEF Empty
<1>. QED BY <1>1, <1>2 DEF StandsFor

\* One coroutine changes what is its own in the chat.
LEMMA StandsGo ==
    ASSUME JobsOK, WaysFit, Stands, Mixing, NEW s \in DOMAIN job, NEW t, Proceeds(s, t),
           \A r \in DOMAIN job : r # s => Standing(r)' = Standing(r),
           ~job'[s].slipped => StandsFor(s, job[s].order, job'[s].row, t, Standing(s)', mixed),
           Paid(job'[s].row, t)
    PROVE  Stands'
<1>1. /\ JobsOK' /\ WaysFit' /\ try'[s] = t /\ DOMAIN job' = DOMAIN job
      /\ \A r \in DOMAIN job : r # s => try'[r] = try[r]
  BY Going
<1>2. \A r \in DOMAIN job : job'[r].order = job[r].order /\ (r # s => job'[r] = job[r])
  BY DEF Proceeds, JobStays
<1>3. ASSUME NEW r \in DOMAIN job
      PROVE  /\ ~job'[r].slipped =>
                   StandsFor(r, job'[r].order, job'[r].row, try'[r], Standing(r)', mixed')
             /\ Paid(job'[r].row, try'[r])
  <2>0. try'[r].at \notin Empty /\ r \in mixed => r \in mixed'
    BY StaysMixed
  <2>1. CASE r = s
    <3>1. ~job'[s].slipped =>
             StandsFor(s, job[s].order, job'[s].row, try'[s], Standing(s)', mixed')
      BY <1>1, <2>0, <2>1, StandsOn
    <3>. QED BY <1>1, <1>2, <2>1, <3>1
  <2>2. CASE r # s
    <3>1. /\ Standing(r)' = Standing(r) /\ try'[r] = try[r] /\ job'[r] = job[r]
          /\ Paid(job[r].row, try[r])
          /\ ~job[r].slipped =>
                StandsFor(r, job[r].order, job[r].row, try[r], Standing(r), mixed)
      BY <1>1, <1>2, <2>2 DEF Stands
    <3>2. ~job[r].slipped =>
             StandsFor(r, job[r].order, job[r].row, try[r], Standing(r), mixed')
      BY <2>0, <3>1, StandsOn
    <3>. QED BY <3>1, <3>2
  <2>. QED BY <2>1, <2>2
<1>. QED BY <1>1, <1>3 DEF Stands

\* Messages are added for one sending.
MadeFor(s, msgs) == \A k \in DOMAIN msgs : MessageOK(msgs[k], job) /\ msgs[k].of = s

\* Messages are added for one sending, and the chat stays as it should be.
LEMMA ChatGrows ==
    ASSUME ChatOK, NEW s \in DOMAIN job, JobStays(s), NEW msgs, MadeFor(s, msgs),
           chat' = chat \cup ToSet(msgs)
    PROVE  /\ ChatOK' /\ Standing(s)' = Standing(s) \cup ToSet(msgs)
           /\ \A r \in DOMAIN job : r # s => Standing(r)' = Standing(r)
<1>1. \A m \in ToSet(msgs) : MessageOK(m, job) /\ m.of = s
  BY DEF MadeFor, ToSet
<1>2. ChatOK'
  <2>1. \A m \in chat' : MessageOK(m, job)
    BY <1>1 DEF ChatOK
  <2>. QED BY <2>1, PostsStay DEF ChatOK
<1>3. Standing(s)' = Standing(s) \cup ToSet(msgs)
  BY <1>1 DEF Standing
<1>4. \A r \in DOMAIN job : r # s => Standing(r)' = Standing(r)
  BY <1>1 DEF Standing
<1>. QED BY <1>2, <1>3, <1>4

\* None is.
LEMMA ChatSame ==
    ASSUME ChatOK, NEW s \in DOMAIN job, JobStays(s), chat' = chat
    PROVE  ChatOK' /\ \A r \in DOMAIN job : Standing(r)' = Standing(r)
BY PostsStay DEF ChatOK, Standing

-----------------------------------------------------------------------------
\* The messages of each way.
Looks == {"text", "plain", "forwarded", "marked", "tagged"}

\* What a message contains is of the post and of a part.
LEMMA BodyIs ==
    ASSUME JobsOK, NEW s \in DOMAIN job, NEW k \in Nat, NEW look \in Looks
    PROVE  /\ Body(s, k, look) \in Bodies /\ Body(s, k, look).of = s
           /\ Body(s, k, look).part = k /\ Body(s, k, look).look = look
BY DEF JobsOK, Body, Bodies, Looks

\* A message for a part is one the chat may have, unless it shows a caption it should not.
LEMMA MessageIs ==
    ASSUME JobsOK, NEW s \in DOMAIN job, NEW k \in Nat, NEW text \in Captions, NEW body \in Bodies,
           text = "source" => job[s].order.wanted = "source" \/ Forwarded(job[s].order)
    PROVE  /\ MessageOK(Message(s, k, text, body), job)
           /\ Message(s, k, text, body).id = job[s].made + k
           /\ Message(s, k, text, body).of = s
           /\ Message(s, k, text, body).text = text
           /\ Message(s, k, text, body).body = body
<1>1. job[s].made \in Nat /\ s \in Sendings
  BY DEF JobsOK, JobType
<1>2. job[s].made + k \in Nat
  BY <1>1
<1>. QED BY <1>1, <1>2 DEF Message, MessageOK, Messages

\* A post has parts, and a name for each.
LEMMA OrderIs ==
    ASSUME JobsOK, NEW s \in DOMAIN job
    PROVE  LET o == job[s].order
               n == Len(o.parts)
           IN  /\ IsOrder(o) /\ n \in Nat /\ n >= 1 /\ DOMAIN o.parts = 1 .. n
               /\ \A k \in 1 .. n : k \in Nat /\ o.names[k] \in STRING
               /\ o.wanted \in Captions /\ o.holder \in 0 .. n /\ job[s].made \in Nat
               /\ o.tag \in STRING
<1>1. IsOrder(job[s].order) /\ job[s].made \in Nat
  BY DEF JobsOK, JobType
<1>2. PICK o : o = job[s].order
  OBVIOUS
<1>3. /\ o.parts \in Seq(Kinds) /\ o.parts # <<>> /\ o.names \in Seq(STRING) /\ o.wanted \in Captions
      /\ o.tag \in STRING
      /\ Len(o.names) >= Len(o.parts) /\ o.holder \in DOMAIN o.parts \cup {0}
  BY <1>1, <1>2 DEF IsOrder, Order
<1>4. PICK n \in Nat : n = Len(o.parts)
  BY <1>3
<1>5. DOMAIN o.parts = 1 .. n /\ n >= 1
  BY <1>3, <1>4
<1>6. \A k \in 1 .. n : k \in Nat /\ o.names[k] \in STRING
  BY <1>3, <1>4
<1>. QED BY <1>1, <1>2, <1>3, <1>4, <1>5, <1>6

\* A list of messages with ids of their own.
InLine(msgs, n, base) == DOMAIN msgs = 1 .. n /\ \A k \in 1 .. n : msgs[k].id = base + k

\* Messages in a line have ids of their own.
LEMMA ListIs ==
    ASSUME NEW n \in Nat, n >= 1, NEW msgs, NEW base \in Nat, InLine(msgs, n, base)
    PROVE  /\ Ids(msgs) \in IdLists /\ Ids(msgs) # <<>> /\ DOMAIN Ids(msgs) = 1 .. n
           /\ IdsOf(ToSet(msgs)) = ToSet(Ids(msgs))
           /\ \A k \in 1 .. n : Ids(msgs)[k] = base + k
<1>. DEFINE ids == [k \in 1 .. n |-> base + k]
<1>0. DOMAIN msgs = 1 .. n /\ \A k \in 1 .. n : msgs[k].id = base + k
  BY DEF InLine
<1>1. Ids(msgs) = ids
  BY <1>0 DEF Ids
<1>2. ids \in [1 .. n -> Nat] /\ 1 .. n \in SUBSET Nat
  OBVIOUS
<1>3. ids \in IdLists
  <2>. HIDE DEF ids
  <2>. QED BY <1>2 DEF IdLists
<1>4. ids # <<>>
  <2>1. 1 \in DOMAIN ids
    OBVIOUS
  <2>. HIDE DEF ids
  <2>. QED BY <2>1, NoIds
<1>5. ToSet(msgs) = {msgs[k] : k \in 1 .. n}
  BY <1>0 DEF ToSet
<1>6. IdsOf(ToSet(msgs)) = ToSet(ids)
  <2>1. ToSet(ids) = {base + k : k \in 1 .. n}
    BY DEF ToSet
  <2>2. IdsOf(ToSet(msgs)) = {msgs[k].id : k \in 1 .. n}
    BY <1>5 DEF IdsOf
  <2>3. \A k \in 1 .. n : msgs[k].id = base + k
    BY <1>0
  <2>4. {msgs[k].id : k \in 1 .. n} = {base + k : k \in 1 .. n}
    BY <2>3
  <2>. HIDE DEF ids
  <2>. QED BY <2>1, <2>2, <2>4
<1>. QED BY <1>0, <1>1, <1>3, <1>4, <1>6

\* Messages that make the post whole.
MakesWhole(s, msgs) ==
    /\ MadeFor(s, msgs) /\ Len(msgs) \in Nat /\ Ids(msgs) \in IdLists /\ Ids(msgs) # <<>>
    /\ Whole(job[s].order, s, ToSet(msgs), mixed) /\ IdsOf(ToSet(msgs)) = ToSet(Ids(msgs))

\* What makes a post whole, in terms of the list.
LEMMA WholeList ==
    ASSUME JobsOK, NEW s \in DOMAIN job, NEW n \in Nat, n >= 1, NEW msgs, Len(msgs) = n,
           MadeFor(s, msgs), InLine(msgs, n, job[s].made),
           Whole(job[s].order, s, ToSet(msgs), mixed)
    PROVE  MakesWhole(s, msgs)
<1>1. job[s].made \in Nat
  BY OrderIs
<1>2. Ids(msgs) \in IdLists /\ Ids(msgs) # <<>> /\ IdsOf(ToSet(msgs)) = ToSet(Ids(msgs))
  BY <1>1, ListIs
<1>. QED BY <1>2 DEF MakesWhole

\* One text.
LEMMA TextWhole ==
    ASSUME JobsOK, NEW s \in DOMAIN job, WayFits(job[s].order, "text"), job[s].order.wanted # "none"
    PROVE  MakesWhole(s, Alone(s))
<1>. DEFINE o == job[s].order
            msgs == Alone(s)
            b == Body(s, 0, "text")
            m == Message(s, 1, o.wanted, b)
<1>0. ~Forwarded(o) /\ OneText(o) /\ o.wanted \in Captions
  BY OrderIs DEF WayFits
<1>1. b \in Bodies /\ b.of = s /\ b.part = 0
  BY BodyIs DEF Looks
<1>2. /\ MessageOK(m, job) /\ m.id = job[s].made + 1 /\ m.of = s /\ m.text = o.wanted
      /\ m.body = b
  <2>. HIDE DEF b
  <2>. QED BY <1>0, <1>1, MessageIs
<1>3. msgs = <<m>>
  BY DEF Alone
<1>. HIDE DEF m, msgs, b
<1>4. DOMAIN msgs = 1 .. 1 /\ Len(msgs) = 1 /\ msgs[1] = m
  BY <1>3
<1>5. MadeFor(s, msgs)
  BY <1>2, <1>4 DEF MadeFor
<1>6. InLine(msgs, 1, job[s].made)
  BY <1>2, <1>4 DEF InLine
<1>7. ToSet(msgs) = {m}
  BY <1>4 DEF ToSet
<1>8. Captioned({m}) = {m}
  BY <1>2 DEF Captioned
<1>9. Whole(o, s, ToSet(msgs), mixed)
  <2>1. Cardinality({m}) = 1 /\ Cardinality({0}) = 1
    BY FS_Singleton
  <2>2. {x.body.part : x \in {m}} = {0}
    BY <1>1, <1>2
  <2>. QED BY <1>0, <1>1, <1>2, <1>7, <1>8, <2>1, <2>2 DEF Whole
<1>10. PICK n \in Nat : n = 1
  OBVIOUS
<1>11. n >= 1 /\ Len(msgs) = n /\ InLine(msgs, n, job[s].made)
  BY <1>4, <1>6, <1>10
<1>12. Whole(job[s].order, s, ToSet(msgs), mixed)
  BY <1>9
<1>13. MakesWhole(s, msgs)
  BY ONLY JobsOK, s \in DOMAIN job, n \in Nat, <1>5, <1>11, <1>12, WholeList
<1>. QED BY <1>13 DEF msgs

\* One poll.
LEMMA PollWhole ==
    ASSUME JobsOK, NEW s \in DOMAIN job, WayFits(job[s].order, "poll")
    PROVE  MakesWhole(s, Poll(s))
<1>. DEFINE o == job[s].order
            msgs == Poll(s)
            b == Body(s, 1, "plain")
            m == Message(s, 1, "none", b)
<1>0. ~Forwarded(o) /\ ~OneText(o) /\ Head(o.parts) = "poll" /\ ~o.captionOnly /\ DOMAIN o.parts = {1}
  <2>1. ~Forwarded(o) /\ ~OneText(o) /\ Head(o.parts) = "poll" /\ ~o.captionOnly
    BY DEF WayFits, OneText
  <2>2. IsOrder(o) /\ DOMAIN o.parts = 1 .. Len(o.parts)
    BY OrderIs
  <2>3. DOMAIN o.parts = 1 .. 1
    BY <2>1, <2>2 DEF IsOrder
  <2>4. 1 .. 1 = {1}
    OBVIOUS
  <2>. QED BY <2>1, <2>3, <2>4
<1>1. b \in Bodies /\ b.of = s /\ b.part = 1
  BY BodyIs DEF Looks
<1>2. /\ MessageOK(m, job) /\ m.id = job[s].made + 1 /\ m.of = s /\ m.text = "none"
      /\ m.body = b
  <2>. HIDE DEF b
  <2>. QED BY <1>1, MessageIs DEF Captions
<1>3. msgs = <<m>>
  BY DEF Poll
<1>. HIDE DEF m, msgs, b
<1>4. DOMAIN msgs = 1 .. 1 /\ Len(msgs) = 1 /\ msgs[1] = m
  BY <1>3
<1>5. MadeFor(s, msgs)
  BY <1>2, <1>4 DEF MadeFor
<1>6. InLine(msgs, 1, job[s].made)
  BY <1>2, <1>4 DEF InLine
<1>7. ToSet(msgs) = {m}
  BY <1>4 DEF ToSet
<1>8. Captioned({m}) = {}
  BY <1>2 DEF Captioned
<1>9. Whole(o, s, ToSet(msgs), mixed)
  <2>1. Cardinality({m}) = 1 /\ Cardinality({1}) = 1
    BY FS_Singleton
  <2>2. {x.body.part : x \in {m}} = {1}
    BY <1>1, <1>2
  <2>. HIDE DEF o
  <2>. QED BY <1>0, <1>1, <1>2, <1>7, <1>8, <2>1, <2>2 DEF Whole
<1>10. PICK n \in Nat : n = 1
  OBVIOUS
<1>11. n >= 1 /\ Len(msgs) = n /\ InLine(msgs, n, job[s].made)
  BY <1>4, <1>6, <1>10
<1>12. Whole(job[s].order, s, ToSet(msgs), mixed)
  BY <1>9
<1>13. MakesWhole(s, msgs)
  BY ONLY JobsOK, s \in DOMAIN job, n \in Nat, <1>5, <1>11, <1>12, WholeList
<1>. QED BY <1>13 DEF msgs

\* A message for each part.
Signed(o, msgs) ==
    LET captions == Captioned(ToSet(msgs))
        due == IF Forwarded(o) THEN Original(o) ELSE o.wanted
    IN  \/ due = "none" /\ captions = {}
        \/ o.holder = 0 /\ captions = {} /\ \A k \in DOMAIN msgs : msgs[k].body.look = "forwarded"
        \/ \E k \in DOMAIN msgs : captions = {msgs[k]} /\ msgs[k].text = due
PartOf(s, k, m) == m.body.of = s /\ m.body.part = k

\* Messages for each part, under one caption or none, are the post as a whole.
LEMMA WholeOf ==
    ASSUME NEW s, NEW o, Forwarded(o) \/ ~OneText(o), IsFiniteSet(DOMAIN o.parts),
           NEW msgs, DOMAIN msgs = DOMAIN o.parts,
           \A k, l \in DOMAIN msgs : msgs[k].id = msgs[l].id => k = l,
           NEW X, s \in X \/ \A k \in DOMAIN msgs : PartOf(s, k, msgs[k]), Signed(o, msgs)
    PROVE  Whole(o, s, ToSet(msgs), X)
<1>. DEFINE D == DOMAIN o.parts
<1>1. Cardinality(ToSet(msgs)) = Cardinality(D)
  BY WholeFrom
<1>2. ToSet(msgs) = {msgs[k] : k \in D}
  BY DEF ToSet
<1>3. ASSUME s \notin X
      PROVE  {m.body.part : m \in ToSet(msgs)} = D
  <2>1. \A k \in D : msgs[k].body.part = k
    BY <1>3 DEF PartOf
  <2>2. {msgs[k].body.part : k \in D} = D
    BY ONLY <2>1, Zenon
  <2>3. {m.body.part : m \in ToSet(msgs)} = {msgs[k].body.part : k \in D}
    BY <1>2
  <2>. QED BY <2>2, <2>3
<1>4. s \notin X => \A m \in ToSet(msgs) : m.body.of = s
  BY <1>2 DEF PartOf
<1>5. \A m : Cardinality({m}) = 1
  BY FS_Singleton
<1>6. (\A k \in DOMAIN msgs : msgs[k].body.look = "forwarded") =>
          \A m \in ToSet(msgs) : m.body.look = "forwarded"
  BY <1>2
<1>. QED BY <1>1, <1>3, <1>4, <1>5, <1>6 DEF Whole, Signed

\* A line of messages, one for each part, is the post as a whole.
LEMMA PartsWhole ==
    ASSUME JobsOK, NEW s \in DOMAIN job, Forwarded(job[s].order) \/ ~OneText(job[s].order),
           NEW msgs, Len(msgs) = Len(job[s].order.parts), MadeFor(s, msgs),
           InLine(msgs, Len(job[s].order.parts), job[s].made),
           s \in mixed \/ \A k \in DOMAIN msgs : PartOf(s, k, msgs[k]), Signed(job[s].order, msgs)
    PROVE  MakesWhole(s, msgs)
<1>. PICK o : o = job[s].order
  OBVIOUS
<1>. PICK n : n = Len(o.parts)
  OBVIOUS
<1>1. n \in Nat /\ n >= 1 /\ DOMAIN o.parts = 1 .. n /\ job[s].made \in Nat
  BY OrderIs
<1>2. InLine(msgs, n, job[s].made) /\ Len(msgs) = n
  OBVIOUS
<1>3. DOMAIN msgs = DOMAIN o.parts /\ \A k, l \in DOMAIN msgs : msgs[k].id = msgs[l].id => k = l
  BY <1>1, <1>2 DEF InLine
<1>4. IsFiniteSet(DOMAIN o.parts)
  BY <1>1, FS_Interval
<1>5. Whole(o, s, ToSet(msgs), mixed)
  BY <1>3, <1>4, WholeOf
<1>. QED BY <1>1, <1>2, <1>5, WholeList

\* A forward: a message for each part, with the source's caption unless it is dropped.
ForwardOf(s, o, d, msgs) ==
    /\ MadeFor(s, msgs) /\ Len(msgs) = Len(o.parts)
    /\ InLine(msgs, Len(o.parts), job[s].made) /\ DOMAIN msgs = DOMAIN o.parts
    /\ \A k \in DOMAIN msgs :
          /\ PartOf(s, k, msgs[k]) /\ msgs[k].body.look = "forwarded"
          /\ msgs[k].text = IF k = o.holder /\ ~d THEN "source" ELSE "none"
          /\ msgs[k] = [id |-> job[s].made + k, of |-> s, body |-> Body(s, k, "forwarded"),
                        text |-> IF k = o.holder /\ ~d THEN "source" ELSE "none"]

\* What a forward makes: a line of messages, with the caption at its holder or nowhere.
LEMMA ForwardIs ==
    ASSUME JobsOK, NEW s \in DOMAIN job, NEW d,
           (d = FALSE /\ Forwarded(job[s].order)) \/ d = DropsCaptions(job[s].order)
    PROVE  ForwardOf(s, job[s].order, d, Forwards(s, d))
<1>. PICK o : o = job[s].order
  OBVIOUS
<1>. PICK n : n = Len(o.parts)
  OBVIOUS
<1>. DEFINE msgs == Forwards(s, d)
<1>1. n \in Nat /\ n >= 1 /\ DOMAIN o.parts = 1 .. n /\ job[s].made \in Nat /\ IsOrder(o)
  BY OrderIs
<1>2. /\ DOMAIN msgs = 1 .. n
      /\ msgs = [k \in 1 .. n |-> Message(s, k, IF k = o.holder /\ ~d THEN "source" ELSE "none",
                                          Body(s, k, "forwarded"))]
  BY <1>1 DEF Forwards
<1>3. Len(msgs) = n
  BY <1>1, <1>2
<1>4. ASSUME NEW k \in 1 .. n
      PROVE  /\ MessageOK(msgs[k], job) /\ PartOf(s, k, msgs[k])
             /\ msgs[k].body.look = "forwarded" /\ msgs[k].of = s /\ msgs[k].id = job[s].made + k
             /\ msgs[k].text = IF k = o.holder /\ ~d THEN "source" ELSE "none"
             /\ msgs[k] = [id |-> job[s].made + k, of |-> s, body |-> Body(s, k, "forwarded"),
                           text |-> IF k = o.holder /\ ~d THEN "source" ELSE "none"]
  <2>. DEFINE text == IF k = o.holder /\ ~d THEN "source" ELSE "none"
              b == Body(s, k, "forwarded")
  <2>1. k \in Nat /\ k # 0
    BY <1>1
  <2>2. b \in Bodies /\ b.of = s /\ b.part = k /\ b.look = "forwarded"
    BY <2>1, BodyIs DEF Looks
  <2>3. text \in Captions /\ (text = "source" => o.wanted = "source" \/ Forwarded(o))
    BY <2>1 DEF Captions, DropsCaptions
  <2>4. msgs[k] = Message(s, k, text, b)
    BY <1>2
  <2>5. msgs[k] = [id |-> job[s].made + k, of |-> s, body |-> b, text |-> text]
    BY <2>4 DEF Message
  <2>. HIDE DEF msgs, text, b
  <2>6. /\ MessageOK(msgs[k], job) /\ msgs[k].id = job[s].made + k /\ msgs[k].of = s
        /\ msgs[k].text = text /\ msgs[k].body = b
    BY <2>1, <2>2, <2>3, <2>4, MessageIs
  <2>7. PartOf(s, k, msgs[k]) /\ msgs[k].body.look = "forwarded"
    BY <2>2, <2>6 DEF PartOf
  <2>. QED BY <2>5, <2>6, <2>7 DEF text, b
<1>. HIDE DEF msgs
<1>5. MadeFor(s, msgs)
  BY <1>2, <1>4 DEF MadeFor
<1>6. InLine(msgs, n, job[s].made)
  BY <1>2, <1>4 DEF InLine
<1>7. ForwardOf(s, o, d, msgs)
  BY <1>1, <1>2, <1>3, <1>4, <1>5, <1>6 DEF ForwardOf
<1>. QED BY <1>7 DEF msgs

\* In the forward mode it makes the post whole.
LEMMA ForwardWhole ==
    ASSUME JobsOK, NEW s \in DOMAIN job, WayFits(job[s].order, "forward")
    PROVE  MakesWhole(s, Forwards(s, FALSE))
<1>. PICK o : o = job[s].order
  OBVIOUS
<1>. DEFINE msgs == Forwards(s, FALSE)
<1>1. Forwarded(o) /\ o.holder \in Nat
  BY OrderIs DEF WayFits
<1>2. /\ MadeFor(s, msgs) /\ Len(msgs) = Len(o.parts) /\ DOMAIN msgs = DOMAIN o.parts
      /\ InLine(msgs, Len(o.parts), job[s].made)
      /\ \A k \in DOMAIN msgs : PartOf(s, k, msgs[k])
      /\ \A k \in DOMAIN msgs : msgs[k].text = IF k = o.holder THEN "source" ELSE "none"
  <2>1. ForwardOf(s, o, FALSE, msgs)
    BY <1>1, ForwardIs
  <2>. QED BY <2>1 DEF ForwardOf
<1>. HIDE DEF msgs
<1>3. Signed(o, msgs)
  <2>1. CASE o.holder = 0
    <3>1. \A k \in DOMAIN msgs : msgs[k].text = "none"
      BY <1>2, <2>1, OrderIs
    <3>. QED BY <1>1, <2>1, <3>1, NoCaptions DEF Signed, Original
  <2>2. CASE o.holder # 0
    <3>1. o.holder \in DOMAIN msgs
      BY <1>2, <2>2, OrderIs DEF IsOrder
    <3>2. Captioned(ToSet(msgs)) = {msgs[o.holder]}
      BY <1>2, <3>1, OneCaption
    <3>. QED BY <1>1, <1>2, <2>2, <3>1, <3>2 DEF Signed, Original
  <2>. QED BY <2>1, <2>2
<1>4. MakesWhole(s, msgs)
  BY <1>1, <1>2, <1>3, PartsWhole
<1>. QED BY <1>4 DEF msgs

\* So it does for an opaque post that needs no signature.
LEMMA OpaqueWhole ==
    ASSUME JobsOK, NEW s \in DOMAIN job, WayFits(job[s].order, "opaque"),
           Signature(job[s].order) = "none"
    PROVE  MakesWhole(s, Forwards(s, DropsCaptions(job[s].order)))
<1>. PICK o : o = job[s].order
  OBVIOUS
<1>. DEFINE d == DropsCaptions(o)
            msgs == Forwards(s, d)
<1>1. ~Forwarded(o) /\ ~OneText(o) /\ IsOrder(o) /\ o.holder \in Nat /\ o.wanted \in Captions
  BY OrderIs DEF WayFits
<1>2. /\ MadeFor(s, msgs) /\ Len(msgs) = Len(o.parts) /\ DOMAIN msgs = DOMAIN o.parts
      /\ InLine(msgs, Len(o.parts), job[s].made)
      /\ \A k \in DOMAIN msgs : PartOf(s, k, msgs[k]) /\ msgs[k].body.look = "forwarded"
      /\ \A k \in DOMAIN msgs : msgs[k].text = IF k = o.holder /\ ~d THEN "source" ELSE "none"
  <2>1. ForwardOf(s, o, d, msgs)
    BY ForwardIs
  <2>. HIDE DEF d, msgs
  <2>. QED BY <2>1 DEF ForwardOf
<1>3. 0 \notin DOMAIN o.parts /\ (o.holder # 0 => o.holder \in DOMAIN o.parts)
  BY <1>1, OrderIs DEF IsOrder
<1>4. d = (o.holder # 0 /\ o.wanted # "source")
  BY DEF DropsCaptions
<1>. HIDE DEF msgs, d
<1>5. Signed(o, msgs)
  <2>1. CASE o.wanted = "source"
    <3>1. o.holder \in DOMAIN msgs /\ ~d
      BY <1>1, <1>2, <1>3, <1>4, <2>1 DEF IsOrder
    <3>2. Captioned(ToSet(msgs)) = {msgs[o.holder]}
      BY <1>2, <3>1, OneCaption
    <3>. QED BY <1>1, <1>2, <2>1, <3>1, <3>2 DEF Signed
  <2>2. CASE o.wanted # "source"
    <3>1. \A k \in DOMAIN msgs : msgs[k].text = "none"
      BY <1>2, <1>3, <1>4, <2>2
    <3>2. o.wanted = "none" \/ o.holder = 0
      BY <1>1, <2>2 DEF Signature, Captions
    <3>. QED BY <1>1, <1>2, <3>1, <3>2, NoCaptions DEF Signed
  <2>. QED BY <2>1, <2>2
<1>6. MakesWhole(s, msgs)
  BY <1>1, <1>2, <1>5, PartsWhole
<1>. QED BY <1>6 DEF msgs, d

\* Media: a message for each of the bodies, the first with the caption.
LEMMA MediaWhole ==
    ASSUME JobsOK, NEW s \in DOMAIN job, ~Forwarded(job[s].order), ~OneText(job[s].order),
           NEW bodies, DOMAIN bodies = DOMAIN job[s].order.parts,
           \A k \in DOMAIN bodies : bodies[k] \in Bodies,
           s \in mixed \/ \A k \in DOMAIN bodies : bodies[k].of = s /\ bodies[k].part = k
    PROVE  MakesWhole(s, Media(s, bodies))
<1>. PICK o : o = job[s].order
  OBVIOUS
<1>. PICK n : n = Len(o.parts)
  OBVIOUS
<1>. DEFINE msgs == Media(s, bodies)
<1>1. /\ n \in Nat /\ n >= 1 /\ DOMAIN o.parts = 1 .. n /\ job[s].made \in Nat
      /\ o.wanted \in Captions
  BY OrderIs
<1>2. /\ DOMAIN msgs = 1 .. n
      /\ msgs = [k \in 1 .. n |-> Message(s, k, IF k = 1 THEN o.wanted ELSE "none", bodies[k])]
  BY <1>1 DEF Media
<1>3. Len(msgs) = n
  BY <1>1, <1>2
<1>4. ASSUME NEW k \in 1 .. n
      PROVE  /\ MessageOK(msgs[k], job) /\ msgs[k].of = s /\ (s \in mixed \/ PartOf(s, k, msgs[k]))
             /\ msgs[k].id = job[s].made + k
             /\ msgs[k].text = IF k = 1 THEN o.wanted ELSE "none"
  <2>. DEFINE text == IF k = 1 THEN o.wanted ELSE "none"
  <2>1. k \in Nat
    BY <1>1
  <2>2. bodies[k] \in Bodies /\ (s \in mixed \/ (bodies[k].of = s /\ bodies[k].part = k))
    BY <1>1
  <2>3. text \in Captions /\ (text = "source" => o.wanted = "source")
    BY <1>1 DEF Captions
  <2>4. msgs[k] = Message(s, k, text, bodies[k])
    BY <1>2
  <2>. HIDE DEF msgs, text
  <2>5. /\ MessageOK(msgs[k], job) /\ msgs[k].id = job[s].made + k /\ msgs[k].of = s
        /\ msgs[k].text = text /\ msgs[k].body = bodies[k]
    BY <2>1, <2>2, <2>3, <2>4, MessageIs
  <2>. QED BY <2>2, <2>5 DEF PartOf, text
<1>. HIDE DEF msgs
<1>5. MadeFor(s, msgs)
  BY <1>2, <1>4 DEF MadeFor
<1>6. InLine(msgs, n, job[s].made)
  BY <1>2, <1>4 DEF InLine
<1>7. Signed(o, msgs)
  <2>1. 1 \in DOMAIN msgs
    BY <1>1, <1>2
  <2>2. CASE o.wanted = "none"
    <3>1. \A k \in DOMAIN msgs : msgs[k].text = "none"
      BY <1>2, <1>4, <2>2
    <3>. QED BY <2>2, <3>1, NoCaptions DEF Signed
  <2>3. CASE o.wanted # "none"
    <3>0. \A k \in DOMAIN msgs : msgs[k].text # "none" <=> k = 1
      BY <1>2, <1>4, <2>3
    <3>1. Captioned(ToSet(msgs)) = {msgs[1]}
      BY <2>1, <3>0, OneCaption
    <3>. QED BY <1>2, <1>4, <2>1, <3>1 DEF Signed
  <2>. QED BY <2>2, <2>3
<1>8. MakesWhole(s, msgs)
  BY <1>2, <1>3, <1>4, <1>5, <1>6, <1>7, PartsWhole
<1>. QED BY <1>8 DEF msgs

-----------------------------------------------------------------------------
\* Calls.  Where nothing of the post stands yet: in a try that has not sent.
Before == Loading \cup {"reserve", "send", "caught"}

\* Messages come.
LEMMA ComesGoes ==
    ASSUME JobsOK, WaysFit, ChatOK, Stands, Mixing, NEW s \in DOMAIN job, try[s].at \in Before,
           NEW msgs, MadeFor(s, msgs), NEW n \in Nat, NEW u \in BOOLEAN, Made(s, n, u),
           chat' = chat \cup ToSet(msgs), NEW t, Fit(s, t), Becomes(s, t), t.at # "rest",
           ~u => StandsFor(s, job[s].order, <<>>, t, ToSet(msgs), mixed)
    PROVE  Stands' /\ ChatOK' /\ Proceeds(s, t) /\ job'[s].leaked = job[s].leaked
<1>1. /\ JobStays(s) /\ job'[s].slipped = (job[s].slipped \/ u) /\ job'[s].row = job[s].row
      /\ job'[s].leaked = job[s].leaked
  BY MadeStays
<1>2. Proceeds(s, t)
  BY <1>1 DEF Proceeds
<1>3. /\ ChatOK' /\ Standing(s)' = Standing(s) \cup ToSet(msgs)
      /\ \A r \in DOMAIN job : r # s => Standing(r)' = Standing(r)
  BY <1>1, ChatGrows
<1>4. Paid(job[s].row, try[s])
      /\ (~job[s].slipped => StandsFor(s, job[s].order, job[s].row, try[s], Standing(s), mixed))
  BY DEF Stands
<1>5. job[s].row = <<>> /\ (~job[s].slipped => Standing(s) = {})
  BY <1>4 DEF Paid, StandsFor, Before, Loading
<1>6. Paid(job'[s].row, t)
  BY <1>1, <1>5 DEF Paid
<1>7. ~job'[s].slipped => StandsFor(s, job[s].order, job'[s].row, t, Standing(s)', mixed)
  <2>. SUFFICES ASSUME ~job'[s].slipped
                PROVE  StandsFor(s, job[s].order, job'[s].row, t, Standing(s)', mixed)
    OBVIOUS
  <2>1. ~u /\ ~job[s].slipped
    BY <1>1
  <2>2. Standing(s)' = ToSet(msgs) /\ job'[s].row = <<>>
    BY <1>1, <1>3, <1>5, <2>1
  <2>. QED BY <2>1, <2>2
<1>8. Stands'
  BY <1>2, <1>3, <1>6, <1>7, StandsGo
<1>. QED BY <1>1, <1>2, <1>3, <1>8

\* None does.
LEMMA NoneGoes ==
    ASSUME JobsOK, WaysFit, ChatOK, Stands, Mixing, NEW s \in DOMAIN job, try[s].at \in Before,
           job' = job, chat' = chat, NEW t, Fit(s, t), Becomes(s, t), t.at \in Before,
           t.ids = try[s].ids
    PROVE  Stands' /\ ChatOK' /\ Proceeds(s, t) /\ job'[s].leaked = job[s].leaked
<1>1. JobStays(s) /\ Proceeds(s, t)
  BY SameStays DEF Proceeds
<1>2. ChatOK' /\ \A r \in DOMAIN job : Standing(r)' = Standing(r)
  BY <1>1, ChatSame
<1>3. Paid(job[s].row, try[s])
      /\ (~job[s].slipped => StandsFor(s, job[s].order, job[s].row, try[s], Standing(s), mixed))
  BY DEF Stands
<1>4. job[s].row = <<>> /\ (~job[s].slipped => Standing(s) = {} /\ t.ids = <<>>)
  BY <1>3 DEF Paid, StandsFor, Before, Loading
<1>5. Paid(job'[s].row, t) /\ t.at \notin {"remember", "caption", "undo", "rest"}
  BY <1>4 DEF Paid, Before, Loading
<1>6. ~job'[s].slipped => StandsFor(s, job[s].order, job'[s].row, t, Standing(s)', mixed)
  BY <1>2, <1>4, <1>5 DEF StandsFor
<1>7. Stands'
  BY <1>1, <1>2, <1>5, <1>6, StandsGo
<1>. QED BY <1>1, <1>2, <1>7

\* What a call changes, whichever way it ends.
LEMMA CallGoes ==
    ASSUME JobsOK, WaysFit, ChatOK, Stands, Mixing, NEW s \in DOMAIN job, try[s].at \in Before,
           NEW msgs, MadeFor(s, msgs), Len(msgs) \in Nat,
           NEW done, Fit(s, done), done.at # "rest",
           StandsFor(s, job[s].order, <<>>, done, ToSet(msgs), mixed),
           NEW refusal, \A e \in Errors \cup {"premium"} :
              Fit(s, refusal[e]) /\ refusal[e].at \in Before /\ refusal[e].ids = try[s].ids,
           Call(s, msgs, done, refusal)
    PROVE  /\ Stands' /\ ChatOK' /\ job'[s].leaked = job[s].leaked
           /\ \E t : Proceeds(s, t) /\ (t = done \/ \E e \in Errors \cup {"premium"} : t = refusal[e])
<1>0. "transient" \in Errors /\ \A t : t.at \in Before => t.at # "rest"
  BY DEF Errors, Before, Loading
<1>1. CASE chat' = chat \cup ToSet(msgs) /\ Becomes(s, done) /\ Made(s, Len(msgs), FALSE)
  BY <1>1, ComesGoes
<1>2. CASE \E e \in Errors \cup {"premium"} : Becomes(s, refusal[e]) /\ job' = job /\ chat' = chat
  <2>1. PICK e \in Errors \cup {"premium"} : Becomes(s, refusal[e]) /\ job' = job /\ chat' = chat
    BY <1>2
  <2>. QED BY <2>1, NoneGoes
<1>3. CASE chat' = chat \cup ToSet(msgs) /\ Becomes(s, refusal["transient"])
           /\ Made(s, Len(msgs), TRUE)
  <2>1. refusal["transient"].at # "rest" /\ Fit(s, refusal["transient"])
    BY <1>0
  <2>2. /\ Stands' /\ ChatOK' /\ Proceeds(s, refusal["transient"])
        /\ job'[s].leaked = job[s].leaked
    BY <1>3, <2>1, ComesGoes
  <2>. QED BY <1>0, <2>2
<1>. QED BY <1>1, <1>2, <1>3 DEF Call

-----------------------------------------------------------------------------
\* The inductive invariant.
SendInv == JobsOK /\ FilesOK /\ ChatOK /\ WaysFit /\ FilesHeld /\ Stands

\* A step of one coroutine keeps the invariant when it keeps the parts that reach further.
LEMMA InvGoes ==
    ASSUME SendInv, NEW s \in DOMAIN job, NEW t, Proceeds(s, t), FilesOK', FilesHeld', ChatOK', Stands'
    PROVE  SendInv'
<1>1. JobsOK' /\ WaysFit'
  BY Going DEF SendInv
<1>. QED BY <1>1 DEF SendInv

\* What a coroutine holds after a call that was refused, or done.
LEMMA RaisedFits ==
    ASSUME JobsOK, WaysFit, NEW s \in DOMAIN job, NEW e \in Mistakes
    PROVE  LET t == Raised(s, e)
           IN  /\ Fit(s, t) /\ t.at = "caught" /\ t.at \in Before /\ t.ids = try[s].ids
               /\ t.got = try[s].got
<1>. DEFINE t == Raised(s, e)
<1>1. /\ try[s] \in TryType /\ try[s].part \in DOMAIN job[s].order.parts
      /\ TryFits(job[s].order, try[s])
  BY DEF JobsOK, WaysFit
<1>2. /\ t \in TryType /\ t.at = "caught" /\ t.ids = try[s].ids /\ t.got = try[s].got
      /\ t.part = try[s].part /\ t.unit = try[s].unit
  BY <1>1 DEF Raised, TryType, Points
<1>. HIDE DEF t
<1>3. Fit(s, t) /\ t.at \in Before
  BY <1>1, <1>2 DEF Fit, TryFits, Loading, Before
<1>. QED BY <1>2, <1>3 DEF t

\* Messages that were made and named are to be remembered.
LEMMA NamedFits ==
    ASSUME JobsOK, WaysFit, NEW s \in DOMAIN job, NEW msgs, Ids(msgs) \in IdLists
    PROVE  LET t == Named(s, msgs)
           IN  Fit(s, t) /\ t.at = "remember" /\ t.ids = Ids(msgs) /\ t.got = try[s].got
<1>. DEFINE t == Named(s, msgs)
<1>1. /\ try[s] \in TryType /\ try[s].part \in DOMAIN job[s].order.parts
      /\ TryFits(job[s].order, try[s])
  BY DEF JobsOK, WaysFit
<1>2. /\ t \in TryType /\ t.at = "remember" /\ t.ids = Ids(msgs) /\ t.got = try[s].got
      /\ t.part = try[s].part /\ t.unit = try[s].unit
  BY <1>1 DEF Named, TryType, Points
<1>. HIDE DEF t
<1>3. Fit(s, t)
  BY <1>1, <1>2 DEF Fit, TryFits, Loading
<1>. QED BY <1>2, <1>3 DEF t

\* A whole post that was named stands as its row will say.
LEMMA WholeStands ==
    ASSUME NEW s \in DOMAIN job, NEW msgs, MakesWhole(s, msgs), NEW t, t.at = "remember",
           t.ids = Ids(msgs)
    PROVE  StandsFor(s, job[s].order, <<>>, t, ToSet(msgs), mixed)
BY DEF MakesWhole, StandsFor, Loading

\* A call outside of a download that makes the post whole or is refused.
LEMMA WholeCall ==
    ASSUME SendInv, Mixing, NEW s \in DOMAIN job, try[s].at = "send", NEW msgs, MakesWhole(s, msgs),
           Call(s, msgs, Named(s, msgs), Raises(s)), files' = files
    PROVE  SendInv'
<1>. DEFINE done == Named(s, msgs)
            refusal == Raises(s)
<1>0. /\ JobsOK /\ WaysFit /\ ChatOK /\ Stands /\ FilesOK /\ FilesHeld
      /\ try[s].at \in Before /\ try[s].at \notin Loading
  BY DEF SendInv, Before, Loading
<1>1. Fit(s, done) /\ done.at = "remember" /\ done.ids = Ids(msgs) /\ done.got = try[s].got
  BY <1>0, NamedFits DEF MakesWhole
<1>2. ASSUME NEW e \in Errors \cup {"premium"}
      PROVE  /\ Fit(s, refusal[e]) /\ refusal[e].at = "caught" /\ refusal[e].at \in Before
             /\ refusal[e].ids = try[s].ids /\ refusal[e].got = try[s].got
  <2>1. refusal[e] = Raised(s, e) /\ e \in Mistakes
    BY DEF Raises, Mistakes
  <2>. QED BY <1>0, <2>1, RaisedFits
<1>3. MadeFor(s, msgs) /\ Len(msgs) \in Nat
  BY DEF MakesWhole
<1>. HIDE DEF done, refusal
<1>4. StandsFor(s, job[s].order, <<>>, done, ToSet(msgs), mixed)
  BY <1>1, WholeStands
<1>5. Call(s, msgs, done, refusal)
  BY DEF done, refusal
<1>6. /\ Stands' /\ ChatOK'
      /\ \E t : Proceeds(s, t) /\ (t = done \/ \E e \in Errors \cup {"premium"} : t = refusal[e])
  BY <1>0, <1>1, <1>2, <1>3, <1>4, <1>5, CallGoes
<1>7. PICK t : Proceeds(s, t) /\ (t = done \/ \E e \in Errors \cup {"premium"} : t = refusal[e])
  BY <1>6
<1>8. t.got = try[s].got /\ t.at \notin Loading
  BY <1>1, <1>2, <1>7 DEF Loading
<1>9. FilesOK' /\ FilesHeld'
  BY <1>0, <1>7, <1>8, FilesIdle
<1>. QED BY <1>6, <1>7, <1>9, InvGoes

-----------------------------------------------------------------------------
\* The steps.
LEMMA SendPollKeeps ==
    ASSUME SendInv, Mixing, NEW s \in DOMAIN job, SendPoll(s)
    PROVE  SendInv'
<1>1. WayFits(job[s].order, "poll")
  BY DEF SendInv, WaysFit, TryFits, SendPoll, Sends
<1>2. MakesWhole(s, Poll(s))
  BY <1>1, PollWhole DEF SendInv
<1>. QED BY <1>2, WholeCall DEF SendPoll, Sends

\* What a coroutine holds fits its post.
LEMMA TryNow ==
    ASSUME JobsOK, WaysFit, NEW s \in DOMAIN job
    PROVE  Fit(s, try[s])
BY DEF JobsOK, WaysFit, Fit

\* A step that does nothing outside the coroutine.
LEMMA IdleStep ==
    ASSUME SendInv, Mixing, NEW s \in DOMAIN job, try[s].at \in Before \ Loading,
           files' = files,
           chat' = chat, job' = job, NEW t, Fit(s, t), Becomes(s, t), t.at \in Before \ Loading,
           t.ids = try[s].ids, t.got = try[s].got
    PROVE  SendInv'
<1>1. JobsOK /\ WaysFit /\ ChatOK /\ Stands /\ FilesOK /\ FilesHeld
  BY DEF SendInv
<1>2. Stands' /\ ChatOK' /\ Proceeds(s, t)
  BY <1>1, NoneGoes
<1>3. FilesOK' /\ FilesHeld'
  BY <1>1, <1>2, FilesIdle
<1>. QED BY <1>2, <1>3, InvGoes

\* Copier._deliver chooses the way, and takes a unit when the plan has one.
LEMMA ReserveKeeps ==
    ASSUME SendInv, Mixing, NEW s \in DOMAIN job, Reserve(s)
    PROVE  SendInv'
<1>. PICK o : o = job[s].order
  OBVIOUS
<1>1. PICK unit \in BOOLEAN :
         /\ unit => o.watermark
         /\ Becomes(s, [try[s] EXCEPT !.unit = unit, !.at = "send", !.way = WayOf(o, unit)])
  BY DEF Reserve
<1>2. JobsOK /\ WaysFit
  BY DEF SendInv
<1>3. Fit(s, try[s]) /\ IsOrder(o)
  BY <1>2, TryNow, OrderIs
<1>4. PICK way : way = WayOf(o, unit)
  OBVIOUS
<1>5. way \in Ways \ {"", "again"} /\ WayFits(o, way)
  BY <1>1, <1>3, <1>4, WayOfFits
<1>. DEFINE t == [try[s] EXCEPT !.unit = unit, !.at = "send", !.way = way]
<1>6. try[s].at = "reserve" /\ try[s].part = 1
  BY <1>3 DEF Reserve, Fit, TryFits
<1>7. /\ t \in TryType /\ t.unit = unit /\ t.at = "send" /\ t.way = way /\ t.part = 1
      /\ t.ids = try[s].ids /\ t.got = try[s].got
  BY <1>3, <1>5, <1>6 DEF Fit, TryType, Points
<1>8. Becomes(s, t)
  BY <1>1, <1>4
<1>. HIDE DEF t
<1>9. Fit(s, t)
  BY <1>1, <1>3, <1>5, <1>6, <1>7 DEF Fit, TryFits, Loading
<1>10. t.at \in Before \ Loading /\ try[s].at \in Before \ Loading
  BY <1>6, <1>7 DEF Before, Loading
<1>11. files' = files /\ chat' = chat /\ job' = job
  BY DEF Reserve
<1>. QED BY <1>7, <1>8, <1>9, <1>10, <1>11, IdleStep

\* A post that no way can send is given up.
LEMMA UnsendableKeeps ==
    ASSUME SendInv, Mixing, NEW s \in DOMAIN job, Unsendable(s)
    PROVE  SendInv'
<1>. DEFINE t == Raised(s, "permanent")
<1>1. JobsOK /\ WaysFit
  BY DEF SendInv
<1>2. Fit(s, t) /\ t.at = "caught" /\ t.ids = try[s].ids /\ t.got = try[s].got
  BY <1>1, RaisedFits DEF Mistakes, Errors
<1>. HIDE DEF t
<1>3. try[s].at = "send" /\ files' = files /\ chat' = chat /\ job' = job /\ Becomes(s, t)
  BY DEF Unsendable, Sends, t
<1>. QED BY <1>2, <1>3, IdleStep DEF Before, Loading

\* On without a message: there is none to send.
LEMMA SendTextKeeps ==
    ASSUME SendInv, Mixing, NEW s \in DOMAIN job, SendText(s)
    PROVE  SendInv'
<1>1. WayFits(job[s].order, "text") /\ try[s].at = "send" /\ files' = files
  BY DEF SendInv, WaysFit, TryFits, SendText, Sends
<1>2. CASE job[s].order.wanted # "none"
  <2>1. MakesWhole(s, Alone(s))
    BY <1>1, <1>2, TextWhole DEF SendInv
  <2>. QED BY <1>1, <1>2, <2>1, WholeCall DEF SendText
<1>3. CASE job[s].order.wanted = "none"
  <2>. DEFINE t == GoesTo(s, "remember")
  <2>0. JobsOK /\ WaysFit /\ ChatOK /\ Stands /\ FilesOK /\ FilesHeld
    BY DEF SendInv
  <2>1. Becomes(s, t) /\ job' = job /\ chat' = chat
    BY <1>3 DEF SendText
  <2>2. Fit(s, try[s])
    BY <2>0, TryNow
  <2>3. /\ t \in TryType /\ t.at = "remember" /\ t.ids = try[s].ids /\ t.got = try[s].got
        /\ t.part = try[s].part /\ t.unit = try[s].unit
    BY <2>2 DEF GoesTo, TryType, Points, Fit
  <2>. HIDE DEF t
  <2>4. Proceeds(s, t)
    BY <2>0, <2>1, <2>2, <2>3, SameStays DEF Fit, TryFits, Loading, Proceeds
  <2>5. ChatOK' /\ \A r \in DOMAIN job : Standing(r)' = Standing(r)
    BY <2>0, <2>1, <2>4, ChatSame DEF Proceeds
  <2>6. FilesOK' /\ FilesHeld'
    BY <1>1, <2>0, <2>3, <2>4, FilesIdle DEF Loading
  <2>7. Paid(job[s].row, try[s])
      /\ (~job[s].slipped => StandsFor(s, job[s].order, job[s].row, try[s], Standing(s), mixed))
    BY <2>0 DEF Stands
  <2>8. job[s].row = <<>> /\ (~job[s].slipped => Standing(s) = {} /\ t.ids = <<>>)
    BY <1>1, <2>3, <2>7 DEF Paid, StandsFor, Loading
  <2>9. Paid(job'[s].row, t)
    BY <2>1, <2>3, <2>8 DEF Paid
  <2>10. ~job'[s].slipped => StandsFor(s, job[s].order, job'[s].row, t, Standing(s)', mixed)
    BY <2>1, <2>3, <2>5, <2>8 DEF StandsFor, Loading
  <2>11. Stands'
    BY <2>0, <2>4, <2>5, <2>9, <2>10, StandsGo
  <2>. QED BY <2>4, <2>5, <2>6, <2>11, InvGoes
<1>. QED BY <1>2, <1>3

\* Some of the parts arrive.
LEMMA PartArrives ==
    ASSUME SendInv, Mixing, NEW s \in DOMAIN job, try[s].at = "send", NEW all, MadeFor(s, all),
           Len(all) \in Nat, NEW n \in Nat, DOMAIN all = 1 .. n, NEW some \in SUBSET DOMAIN all,
           NEW short, Fit(s, short), short.at \in {"undo", "remember"}, short.got = try[s].got,
           NEW u \in BOOLEAN, short.at = "remember" => u, Made(s, Len(all), u), files' = files,
           chat' = chat \cup ToSet(Restrict(all, some)),
           Becomes(s, [short EXCEPT !.ids = Ids(Restrict(all, some))])
    PROVE  SendInv'
<1>. DEFINE kept == Restrict(all, some)
            ids == Ids(kept)
            t == [short EXCEPT !.ids = ids]
<1>0. /\ JobsOK /\ WaysFit /\ ChatOK /\ Stands /\ FilesOK /\ FilesHeld
      /\ try[s].at \in Before /\ try[s].at \notin Loading
  BY DEF SendInv, Before, Loading
<1>1. DOMAIN kept = some /\ \A k \in some : kept[k] = all[k]
  BY DEF Restrict
<1>2. MadeFor(s, kept)
  BY <1>1 DEF MadeFor
<1>3. ids = [k \in some |-> kept[k].id]
  BY <1>1 DEF Ids
<1>4. \A k \in some : kept[k].id \in Nat
  BY <1>1 DEF MadeFor, MessageOK, Messages
<1>5. ids \in IdLists
  <2>1. ids \in [some -> Nat] /\ some \in SUBSET Nat
    BY <1>3, <1>4
  <2>. HIDE DEF ids
  <2>. QED BY <2>1 DEF IdLists
<1>6. IdsOf(ToSet(kept)) \subseteq ToSet(ids)
  BY <1>1, <1>3 DEF IdsOf, ToSet
<1>. HIDE DEF kept, ids
<1>7. /\ t \in TryType /\ t.at = short.at /\ t.ids = ids /\ t.got = try[s].got
      /\ t.part = short.part /\ t.unit = short.unit
  BY <1>5 DEF Fit, TryType
<1>8. Becomes(s, t)
  BY DEF kept, ids
<1>. HIDE DEF t
<1>9. Fit(s, t)
  BY <1>7 DEF Fit, TryFits, Loading
<1>10. ~u => StandsFor(s, job[s].order, <<>>, t, ToSet(kept), mixed)
  BY <1>6, <1>7 DEF StandsFor, Loading
<1>11. /\ t.at # "rest" /\ t.at \notin Loading
       /\ chat' = chat \cup ToSet(kept)
  BY <1>7 DEF Loading, kept
<1>12. Stands' /\ ChatOK' /\ Proceeds(s, t)
  BY <1>0, <1>2, <1>8, <1>9, <1>10, <1>11, ComesGoes
<1>13. FilesOK' /\ FilesHeld'
  BY <1>0, <1>7, <1>11, <1>12, FilesIdle
<1>. QED BY <1>12, <1>13, InvGoes

\* The forward mode: whole, or without some parts, which is known to have slipped.
LEMMA ForwardPostKeeps ==
    ASSUME SendInv, Mixing, NEW s \in DOMAIN job, ForwardPost(s)
    PROVE  SendInv'
<1>. DEFINE all == Forwards(s, FALSE)
            short == GoesTo(s, "remember")
<1>0. JobsOK /\ WaysFit
  BY DEF SendInv
<1>1. WayFits(job[s].order, "forward") /\ try[s].at = "send" /\ files' = files
  BY <1>0 DEF WaysFit, TryFits, ForwardPost, Sends
<1>2. Arrived(s, FALSE, Named(s, all), short, TRUE)
  BY DEF ForwardPost
<1>3. CASE Call(s, all, Named(s, all), Raises(s))
  BY <1>0, <1>1, <1>3, ForwardWhole, WholeCall
<1>4. CASE ~Call(s, all, Named(s, all), Raises(s))
  <2>1. PICK some \in SUBSET DOMAIN all :
           /\ chat' = chat \cup ToSet(Restrict(all, some))
           /\ Becomes(s, [short EXCEPT !.ids = Ids(Restrict(all, some))])
           /\ Made(s, Len(all), TRUE)
    BY <1>2, <1>4 DEF Arrived
  <2>2. ForwardOf(s, job[s].order, FALSE, all)
    BY <1>0, <1>1, ForwardIs DEF WayFits
  <2>3. PICK n \in Nat : n = Len(job[s].order.parts)
    BY <1>0, OrderIs
  <2>. HIDE DEF all
  <2>4. DOMAIN all = 1 .. n /\ Len(all) \in Nat /\ MadeFor(s, all)
    BY <2>2, <2>3 DEF ForwardOf, InLine
  <2>5. Fit(s, try[s])
    BY <1>0, TryNow
  <2>6. /\ short \in TryType /\ short.at = "remember" /\ short.got = try[s].got
        /\ short.part = try[s].part /\ short.unit = try[s].unit
    BY <2>5 DEF GoesTo, TryType, Points, Fit
  <2>. HIDE DEF short
  <2>7. Fit(s, short)
    BY <2>5, <2>6 DEF Fit, TryFits, Loading
  <2>. QED BY <1>1, <2>1, <2>4, <2>6, <2>7, PartArrives
<1>. QED BY <1>3, <1>4

\* A forward that waits for its caption.
LEMMA CaptionStands ==
    ASSUME JobsOK, NEW s \in DOMAIN job, NEW msgs, NEW t, t.at = "caption", t.ids = Ids(msgs),
           ForwardOf(s, job[s].order, DropsCaptions(job[s].order), msgs),
           Signature(job[s].order) # "none"
    PROVE  StandsFor(s, job[s].order, <<>>, t, ToSet(msgs), mixed)
<1>. PICK o : o = job[s].order
  OBVIOUS
<1>. PICK n : n = Len(o.parts)
  OBVIOUS
<1>. PICK d : d = DropsCaptions(o)
  OBVIOUS
<1>. PICK base : base = job[s].made
  OBVIOUS
<1>1. n \in Nat /\ n >= 1 /\ DOMAIN o.parts = 1 .. n /\ base \in Nat
  BY OrderIs
<1>2. InLine(msgs, n, base) /\ DOMAIN msgs = 1 .. n
  BY <1>1 DEF ForwardOf
<1>3. DOMAIN Ids(msgs) = 1 .. n /\ \A k \in 1 .. n : Ids(msgs)[k] = base + k
  BY <1>1, <1>2, ListIs
<1>4. \A k, l \in DOMAIN t.ids : t.ids[k] = t.ids[l] => k = l
  BY <1>1, <1>3
<1>5. ToSet(msgs) = {msgs[k] : k \in 1 .. n}
  BY <1>2 DEF ToSet
<1>. DEFINE put(k) == [id |-> Ids(msgs)[k], of |-> s, body |-> Body(s, k, "forwarded"),
                       text |-> IF k = o.holder /\ ~d THEN "source" ELSE "none"]
<1>6. \A k \in 1 .. n : msgs[k] = put(k)
  BY <1>2, <1>3 DEF ForwardOf
<1>7. ToSet(msgs) = {put(k) : k \in 1 .. n}
  <2>. HIDE DEF put
  <2>. QED BY ONLY <1>5, <1>6, Zenon
<1>8. ToSet(msgs) = Uncaptioned(o, s, t.ids)
  BY <1>1, <1>7 DEF Uncaptioned
<1>. QED BY <1>1, <1>3, <1>4, <1>8 DEF StandsFor, Loading

\* Copier._forward_opaque: whole, or undone.
LEMMA ForwardOpaqueKeeps ==
    ASSUME SendInv, Mixing, NEW s \in DOMAIN job, ForwardOpaque(s)
    PROVE  SendInv'
<1>. PICK o : o = job[s].order
  OBVIOUS
<1>. DEFINE d == DropsCaptions(o)
            all == Forwards(s, d)
            whole == Named(s, all)
            done == IF Signature(o) = "none" THEN whole ELSE [whole EXCEPT !.at = "caption"]
            short == [try[s] EXCEPT !.at = "undo", !.error = "transient"]
<1>0. /\ JobsOK /\ WaysFit /\ ChatOK /\ Stands /\ FilesOK /\ FilesHeld
  BY DEF SendInv
<1>1. /\ WayFits(o, "opaque") /\ try[s].at = "send" /\ try[s].way = "opaque" /\ files' = files
      /\ try[s].at \in Before /\ try[s].at \notin Loading
  BY <1>0 DEF WaysFit, TryFits, ForwardOpaque, Sends, Before, Loading
<1>2. Arrived(s, d, done, short, FALSE)
  BY DEF ForwardOpaque
<1>3. ForwardOf(s, o, d, all)
  BY <1>0, ForwardIs
<1>4. PICK n \in Nat : n = Len(o.parts) /\ n >= 1
  BY <1>0, OrderIs
<1>5. CASE Call(s, all, done, Raises(s)) /\ Signature(o) = "none"
  <2>1. MakesWhole(s, all)
    BY <1>0, <1>1, <1>5, OpaqueWhole
  <2>2. Call(s, all, Named(s, all), Raises(s))
    BY <1>5
  <2>. QED BY <1>1, <2>1, <2>2, WholeCall
<1>6. CASE Call(s, all, done, Raises(s)) /\ Signature(o) # "none"
  <2>. DEFINE refusal == Raises(s)
              t0 == [whole EXCEPT !.at = "caption"]
  <2>0. Call(s, all, t0, refusal)
    BY <1>6
  <2>1. PICK base \in Nat : base = job[s].made
    BY <1>0, OrderIs
  <2>. HIDE DEF all, d
  <2>2. MadeFor(s, all) /\ Len(all) \in Nat /\ InLine(all, n, base)
    BY <1>3, <1>4, <2>1 DEF ForwardOf
  <2>3. Ids(all) \in IdLists
    BY <1>4, <2>2, ListIs
  <2>4. Fit(s, whole) /\ whole.at = "remember" /\ whole.ids = Ids(all) /\ whole.got = try[s].got
    BY <1>0, <2>3, NamedFits
  <2>5. whole.way = "opaque" /\ whole.unit = try[s].unit /\ whole.part = try[s].part
    BY <1>0, <1>1 DEF Named, JobsOK, TryType
  <2>. HIDE DEF whole
  <2>6. /\ t0 \in TryType /\ t0.at = "caption" /\ t0.ids = Ids(all) /\ t0.got = try[s].got
        /\ t0.part = whole.part /\ t0.unit = whole.unit /\ t0.way = "opaque"
    BY <2>4, <2>5 DEF Fit, TryType, Points
  <2>. HIDE DEF t0, refusal
  <2>7. Fit(s, t0)
    BY <1>1, <2>4, <2>6 DEF Fit, TryFits, Loading
  <2>8. StandsFor(s, job[s].order, <<>>, t0, ToSet(all), mixed)
    BY <1>0, <1>3, <1>6, <2>6, CaptionStands DEF d
  <2>9. ASSUME NEW e \in Errors \cup {"premium"}
        PROVE  /\ Fit(s, refusal[e]) /\ refusal[e].at = "caught" /\ refusal[e].at \in Before
               /\ refusal[e].ids = try[s].ids /\ refusal[e].got = try[s].got
    <3>1. refusal[e] = Raised(s, e) /\ e \in Mistakes
      BY DEF Raises, Mistakes, refusal
    <3>. QED BY <1>0, <3>1, RaisedFits
  <2>10. /\ Stands' /\ ChatOK'
         /\ \E t : Proceeds(s, t) /\ (t = t0 \/ \E e \in Errors \cup {"premium"} : t = refusal[e])
    BY <1>0, <1>1, <2>0, <2>2, <2>6, <2>7, <2>8, <2>9, CallGoes
  <2>11. PICK t : Proceeds(s, t) /\ (t = t0 \/ \E e \in Errors \cup {"premium"} : t = refusal[e])
    BY <2>10
  <2>12. t.got = try[s].got /\ t.at \notin Loading
    BY <2>6, <2>9, <2>11 DEF Loading
  <2>13. FilesOK' /\ FilesHeld'
    BY <1>0, <1>1, <2>11, <2>12, FilesIdle
  <2>. QED BY <2>10, <2>11, <2>13, InvGoes
<1>7. CASE ~Call(s, all, done, Raises(s))
  <2>1. PICK some \in SUBSET DOMAIN all :
           /\ chat' = chat \cup ToSet(Restrict(all, some))
           /\ Becomes(s, [short EXCEPT !.ids = Ids(Restrict(all, some))])
           /\ Made(s, Len(all), FALSE)
    BY <1>2, <1>7 DEF Arrived
  <2>. HIDE DEF all, d, done
  <2>4. DOMAIN all = 1 .. n /\ Len(all) \in Nat /\ MadeFor(s, all)
    BY <1>3, <1>4 DEF ForwardOf, InLine
  <2>5. Fit(s, try[s])
    BY <1>0, TryNow
  <2>6. /\ short \in TryType /\ short.at = "undo" /\ short.got = try[s].got
        /\ short.part = try[s].part /\ short.unit = try[s].unit
    BY <2>5 DEF GoesTo, TryType, Points, Fit, Mistakes, Errors
  <2>. HIDE DEF short
  <2>7. Fit(s, short)
    BY <2>5, <2>6 DEF Fit, TryFits, Loading
  <2>. QED BY <1>1, <2>1, <2>4, <2>6, <2>7, PartArrives
<1>. QED BY <1>5, <1>6, <1>7

\* By reference, or the media are fetched one by one.
LEMMA SendDirectKeeps ==
    ASSUME SendInv, Mixing, NEW s \in DOMAIN job, SendDirect(s)
    PROVE  SendInv'
<1>. PICK o : o = job[s].order
  OBVIOUS
<1>. DEFINE anew == [try[s] EXCEPT !.at = "fetch", !.way = "again", !.part = 1, !.got = <<>>]
            refusal == [e \in Errors \cup {"premium"} |->
                           IF e \in {"flood", "forbidden"} THEN Raised(s, e) ELSE anew]
            msgs == References(s)
            done == Named(s, msgs)
            bodies == [k \in DOMAIN o.parts |-> Body(s, k, "plain")]
<1>0. /\ JobsOK /\ WaysFit /\ ChatOK /\ Stands /\ FilesOK /\ FilesHeld
  BY DEF SendInv
<1>1. /\ WayFits(o, "direct") /\ try[s].at = "send" /\ try[s].way = "direct" /\ files' = files
      /\ try[s].at \in Before /\ try[s].at \notin Loading
  BY <1>0 DEF WaysFit, TryFits, SendDirect, Sends, Before, Loading
<1>2. ~Forwarded(o) /\ ~OneText(o)
  BY <1>1 DEF WayFits
<1>3. MakesWhole(s, msgs)
  <2>1. \A k \in DOMAIN o.parts : k \in Nat
    BY <1>0, OrderIs
  <2>2. ASSUME NEW k \in DOMAIN bodies
        PROVE  bodies[k] \in Bodies /\ bodies[k].of = s /\ bodies[k].part = k
    <3>1. bodies[k] = Body(s, k, "plain") /\ k \in Nat
      BY <2>1
    <3>. QED BY <1>0, <3>1, BodyIs DEF Looks
  <2>3. DOMAIN bodies = DOMAIN o.parts /\ msgs = Media(s, bodies)
    BY DEF References
  <2>. HIDE DEF bodies, msgs
  <2>4. MakesWhole(s, Media(s, bodies))
    BY <1>0, <1>2, <2>2, <2>3, MediaWhole
  <2>. QED BY <2>3, <2>4
<1>4. Call(s, msgs, done, refusal)
  BY DEF SendDirect
<1>5. Fit(s, try[s])
  BY <1>0, TryNow
<1>6. /\ anew \in TryType /\ anew.at = "fetch" /\ anew.way = "again" /\ anew.part = 1
      /\ anew.got = <<>> /\ anew.ids = try[s].ids /\ anew.unit = try[s].unit
  <2>. DEFINE none == <<>>
  <2>1. none \in Seq(Paths) /\ "fetch" \in Points /\ "again" \in Ways /\ 1 \in Nat
    BY DEF Points, Ways
  <2>. HIDE DEF none
  <2>2. anew = [try[s] EXCEPT !.at = "fetch", !.way = "again", !.part = 1, !.got = none]
    BY DEF none
  <2>. HIDE DEF anew
  <2>3. try[s] \in TryType
    BY <1>5 DEF Fit
  <2>. QED BY <2>1, <2>2, <2>3 DEF TryType, none
<1>. HIDE DEF anew, msgs
<1>7. Fit(s, anew)
  <2>1. 1 \in DOMAIN o.parts
    BY <1>0, OrderIs
  <2>. QED BY <1>1, <1>5, <1>6, <2>1 DEF Fit, TryFits, Loading, WayFits, Uploading
<1>8. Fit(s, done) /\ done.at = "remember" /\ done.ids = Ids(msgs) /\ done.got = try[s].got
  BY <1>0, <1>3, NamedFits DEF MakesWhole
<1>9. MadeFor(s, msgs) /\ Len(msgs) \in Nat
  BY <1>3 DEF MakesWhole
<1>. HIDE DEF done
<1>10. StandsFor(s, job[s].order, <<>>, done, ToSet(msgs), mixed)
  BY <1>3, <1>8, WholeStands
<1>11. ASSUME NEW e \in Errors \cup {"premium"}
       PROVE  /\ refusal[e] = Raised(s, e) \/ refusal[e] = anew
              /\ Raised(s, e).at = "caught" /\ Raised(s, e).got = try[s].got
              /\ Fit(s, refusal[e]) /\ refusal[e].at \in Before /\ refusal[e].ids = try[s].ids
  <2>1. refusal[e] = Raised(s, e) \/ refusal[e] = anew
    OBVIOUS
  <2>2. e \in Mistakes
    BY DEF Mistakes
  <2>3. /\ Fit(s, Raised(s, e)) /\ Raised(s, e).at = "caught" /\ Raised(s, e).at \in Before
        /\ Raised(s, e).ids = try[s].ids /\ Raised(s, e).got = try[s].got
    BY <1>0, <2>2, RaisedFits
  <2>. HIDE DEF refusal
  <2>. QED BY <1>6, <1>7, <2>1, <2>3 DEF Before, Loading
<1>. HIDE DEF refusal
<1>12. /\ Stands' /\ ChatOK'
       /\ \E t : Proceeds(s, t) /\ (t = done \/ \E e \in Errors \cup {"premium"} : t = refusal[e])
  BY <1>0, <1>1, <1>4, <1>8, <1>9, <1>10, <1>11, CallGoes
<1>13. PICK t : Proceeds(s, t) /\ (t = done \/ \E e \in Errors \cup {"premium"} : t = refusal[e])
  BY <1>12
<1>14. CASE t = anew
  <2>1. try[s].got = <<>>
    BY <1>0, <1>1 DEF FilesHeld, HeldBy
  <2>2. HandOf(t) = {} /\ HandOf(try[s]) = {}
    BY <1>1, <1>6, <1>14, <2>1, NoIds DEF HandOf
  <2>3. Len(<<>>) = 0 /\ TriedOf(job[s].order, t) = 0
    BY <1>6, <1>14 DEF TriedOf
  <2>4. HeldBy(s, job[s].order, t, files, mixed)
    <3>1. t.at = "fetch" /\ t.at # "rewrite" /\ t.got = <<>> /\ DOMAIN t.got = {} /\ Len(t.got) = 0
      BY <1>6, <1>14, <2>3, NoIds
    <3>. QED BY <2>2, <2>3, <3>1 DEF HeldBy, Sound, Loading
  <2>5. FilesOK' /\ FilesHeld'
    BY <1>0, <1>1, <1>13, <2>2, <2>4, FilesSame
  <2>. QED BY <1>12, <1>13, <2>5, InvGoes
<1>15. CASE t # anew
  <2>1. t.got = try[s].got /\ t.at \notin Loading
    BY <1>8, <1>11, <1>13, <1>15 DEF Loading
  <2>2. FilesOK' /\ FilesHeld'
    BY <1>0, <1>1, <1>13, <2>1, FilesIdle
  <2>. QED BY <1>12, <1>13, <2>2, InvGoes
<1>. QED BY <1>14, <1>15

\* The deletion of what came.
LEMMA DeleteQuietlyKeeps ==
    ASSUME SendInv, Mixing, NEW s \in DOMAIN job, DeleteQuietly(s)
    PROVE  SendInv'
<1>. DEFINE t == [try[s] EXCEPT !.at = "caught", !.ids = <<>>]
<1>0. /\ JobsOK /\ WaysFit /\ ChatOK /\ Stands /\ FilesOK /\ FilesHeld
  BY DEF SendInv
<1>1. Fit(s, try[s]) /\ try[s].at = "undo" /\ try[s].at \notin Loading /\ files' = files
  BY <1>0, TryNow DEF DeleteQuietly, Loading
<1>2. /\ t \in TryType /\ t.at = "caught" /\ t.ids = <<>> /\ t.got = try[s].got
      /\ t.part = try[s].part /\ t.unit = try[s].unit
  BY <1>1, NoIds DEF Fit, TryType, Points
<1>3. Becomes(s, t)
  BY DEF DeleteQuietly
<1>. HIDE DEF t
<1>4. Fit(s, t) /\ t.at \notin Loading
  BY <1>1, <1>2 DEF Fit, TryFits, Loading
<1>5. /\ Paid(job[s].row, try[s])
      /\ (~job[s].slipped => StandsFor(s, job[s].order, job[s].row, try[s], Standing(s), mixed))
  BY <1>0 DEF Stands
<1>6. job[s].row = <<>> /\ (~job[s].slipped => IdsOf(Standing(s)) \subseteq ToSet(try[s].ids))
  BY <1>1, <1>5 DEF Paid, StandsFor
<1>7. CASE chat' = {m \in chat : m.of # s \/ m.id \notin ToSet(try[s].ids)} /\ job' = job
  <2>1. Proceeds(s, t)
    BY <1>0, <1>3, <1>4, <1>7, SameStays DEF Proceeds
  <2>2. ChatOK'
    BY <1>0, <1>7 DEF ChatOK
  <2>3. \A r \in DOMAIN job : r # s => Standing(r)' = Standing(r)
    BY <1>7 DEF Standing
  <2>4. ~job[s].slipped => Standing(s)' = {}
    BY <1>6, <1>7 DEF Standing, IdsOf
  <2>5. ~job'[s].slipped => StandsFor(s, job[s].order, job'[s].row, t, Standing(s)', mixed)
    BY <1>2, <1>7, <2>4 DEF StandsFor, Loading
  <2>6. Paid(job'[s].row, t)
    BY <1>2, <1>6, <1>7 DEF Paid
  <2>7. Stands'
    BY <1>0, <2>1, <2>3, <2>5, <2>6, StandsGo
  <2>8. FilesOK' /\ FilesHeld'
    BY <1>0, <1>1, <1>2, <1>4, <2>1, FilesIdle
  <2>. QED BY <2>1, <2>2, <2>7, <2>8, InvGoes
<1>8. CASE chat' = chat /\ Made(s, 0, TRUE)
  <2>1. JobStays(s) /\ job'[s].slipped /\ job'[s].row = job[s].row
    BY <1>0, <1>8, MadeStays
  <2>2. Proceeds(s, t)
    BY <1>3, <1>4, <2>1 DEF Proceeds
  <2>3. ChatOK' /\ \A r \in DOMAIN job : Standing(r)' = Standing(r)
    BY <1>0, <1>8, <2>1, ChatSame
  <2>4. Paid(job'[s].row, t)
    BY <1>2, <1>6, <2>1 DEF Paid
  <2>5. Stands'
    BY <1>0, <2>1, <2>2, <2>3, <2>4, StandsGo
  <2>6. FilesOK' /\ FilesHeld'
    BY <1>0, <1>1, <1>2, <1>4, <2>2, FilesIdle
  <2>. QED BY <2>2, <2>3, <2>5, <2>6, InvGoes
<1>. QED BY <1>7, <1>8 DEF DeleteQuietly

-----------------------------------------------------------------------------
\* A forward under the ids it got, with a text for each.
Entry(s, ids, tx, k) ==
    [id |-> ids[k], of |-> s, body |-> Body(s, k, "forwarded"), text |-> tx[k]]
Entries(s, ids, tx) == {Entry(s, ids, tx, k) : k \in DOMAIN ids}
Bare(ids) == [k \in DOMAIN ids |-> "none"]
Under(ids, c) == [k \in DOMAIN ids |-> IF k = c THEN "ours" ELSE "none"]
Caption(S, target) == {IF m.id = target THEN [m EXCEPT !.text = "ours"] ELSE m : m \in S}

\* The message of one part.
LEMMA EntryIs ==
    ASSUME NEW s, NEW ids, NEW tx, NEW k
    PROVE  LET m == Entry(s, ids, tx, k)
           IN  /\ m.id = ids[k] /\ m.of = s /\ m.text = tx[k] /\ PartOf(s, k, m)
               /\ m.body.look = "forwarded"
BY DEF Entry, PartOf, Body

\* The messages of a row are the post as a whole, when their captions are.
LEMMA EntriesWhole ==
    ASSUME NEW s, NEW o, ~Forwarded(o), ~OneText(o), IsFiniteSet(DOMAIN o.parts),
           NEW ids, DOMAIN ids = DOMAIN o.parts,
           \A k, l \in DOMAIN ids : ids[k] = ids[l] => k = l, o.wanted = "ours", NEW tx,
           \/ o.holder = 0 /\ tx = Bare(ids)
           \/ \E c \in DOMAIN ids : tx = Under(ids, c), NEW X
    PROVE  Whole(o, s, Entries(s, ids, tx), X)
<1>. DEFINE msgs == [k \in DOMAIN ids |-> Entry(s, ids, tx, k)]
<1>1. ToSet(msgs) = Entries(s, ids, tx)
  BY DEF ToSet, Entries
<1>2. ASSUME NEW k \in DOMAIN ids
      PROVE  /\ msgs[k].id = ids[k] /\ msgs[k].text = tx[k] /\ PartOf(s, k, msgs[k])
             /\ msgs[k].body.look = "forwarded"
  <2>1. msgs[k] = Entry(s, ids, tx, k)
    OBVIOUS
  <2>. HIDE DEF msgs
  <2>. QED BY <2>1, EntryIs
<1>3. DOMAIN msgs = DOMAIN ids
  OBVIOUS
<1>. HIDE DEF msgs
<1>4. Signed(o, msgs)
  <2>1. CASE o.holder = 0 /\ tx = Bare(ids)
    <3>1. \A k \in DOMAIN msgs : msgs[k].text = "none"
      BY <1>2, <1>3, <2>1 DEF Bare
    <3>. QED BY <1>2, <1>3, <2>1, <3>1, NoCaptions DEF Signed
  <2>2. ASSUME NEW c \in DOMAIN ids, tx = Under(ids, c)
        PROVE  Signed(o, msgs)
    <3>1. \A k \in DOMAIN msgs : msgs[k].text = IF k = c THEN "ours" ELSE "none"
      BY <1>2, <1>3, <2>2 DEF Under
    <3>2. Captioned(ToSet(msgs)) = {msgs[c]}
      BY <1>3, <3>1, OneCaption
    <3>. QED BY <1>3, <3>1, <3>2 DEF Signed
  <2>. QED BY <2>1, <2>2
<1>5. \A k, l \in DOMAIN msgs : msgs[k].id = msgs[l].id => k = l
  BY <1>2, <1>3
<1>6. Whole(o, s, ToSet(msgs), X)
  BY <1>2, <1>3, <1>4, <1>5, WholeOf
<1>. QED BY <1>1, <1>6

\* The messages of a row have the ids of the row.
LEMMA EntriesIds ==
    ASSUME NEW s, NEW ids, NEW tx
    PROVE  IdsOf(Entries(s, ids, tx)) = ToSet(ids)
<1>1. \A k \in DOMAIN ids : Entry(s, ids, tx, k).id = ids[k]
  BY EntryIs
<1>. QED BY <1>1 DEF IdsOf, Entries, ToSet

\* A caption is put under one of the messages of a row.
LEMMA EntriesCaptioned ==
    ASSUME NEW s, NEW ids, \A k, l \in DOMAIN ids : ids[k] = ids[l] => k = l, NEW c \in DOMAIN ids
    PROVE  Caption(Entries(s, ids, Bare(ids)), ids[c]) = Entries(s, ids, Under(ids, c))
<1>. DEFINE sign(m) == IF m.id = ids[c] THEN [m EXCEPT !.text = "ours"] ELSE m
<1>1. ASSUME NEW k \in DOMAIN ids
      PROVE  sign(Entry(s, ids, Bare(ids), k)) = Entry(s, ids, Under(ids, c), k)
  <2>1. CASE k = c
    <3>1. Entry(s, ids, Bare(ids), k).id = ids[c]
      BY <2>1, EntryIs
    <3>2. Under(ids, c)[k] = "ours"
      BY <2>1 DEF Under
    <3>3. [Entry(s, ids, Bare(ids), k) EXCEPT !.text = "ours"] = Entry(s, ids, Under(ids, c), k)
      BY <3>2 DEF Entry
    <3>. QED BY <3>1, <3>3
  <2>2. CASE k # c
    <3>1. Entry(s, ids, Bare(ids), k).id # ids[c]
      BY <2>2, EntryIs
    <3>2. Under(ids, c)[k] = Bare(ids)[k]
      BY <2>2 DEF Under, Bare
    <3>. QED BY <3>1, <3>2 DEF Entry
  <2>. QED BY <2>1, <2>2
<1>2. Caption(Entries(s, ids, Bare(ids)), ids[c])
         = {sign(Entry(s, ids, Bare(ids), k)) : k \in DOMAIN ids}
  BY DEF Caption, Entries
<1>. HIDE DEF sign
<1>. QED BY <1>1, <1>2, Zenon DEF Entries

\* What a forward without captions left, as the messages of a row.
LEMMA EntriesUncaptioned ==
    ASSUME NEW s, NEW o, IsOrder(o), Signature(o) # "none", NEW ids, DOMAIN ids = DOMAIN o.parts
    PROVE  /\ o.wanted = "ours" /\ (o.holder # 0 <=> DropsCaptions(o))
           /\ Uncaptioned(o, s, ids) = Entries(s, ids, Bare(ids))
<1>1. o.wanted = "ours" /\ (o.holder # 0 <=> DropsCaptions(o))
  BY DEF Signature, DropsCaptions
<1>2. 0 \notin DOMAIN o.parts
  BY DEF IsOrder, Order
<1>. DEFINE put(k) == [id |-> ids[k], of |-> s, body |-> Body(s, k, "forwarded"),
                       text |-> IF k = o.holder /\ ~DropsCaptions(o) THEN "source" ELSE "none"]
<1>3. ASSUME NEW k \in DOMAIN o.parts
      PROVE  put(k) = Entry(s, ids, Bare(ids), k)
  <2>1. ~(k = o.holder /\ ~DropsCaptions(o))
    BY <1>1, <1>2
  <2>2. Bare(ids)[k] = "none"
    BY DEF Bare
  <2>. QED BY <2>1, <2>2 DEF Entry
<1>4. Uncaptioned(o, s, ids) = {put(k) : k \in DOMAIN o.parts}
  BY DEF Uncaptioned
<1>. HIDE DEF put
<1>5. Uncaptioned(o, s, ids) = Entries(s, ids, Bare(ids))
  BY <1>3, <1>4, Zenon DEF Entries
<1>. QED BY <1>1, <1>5

\* Signing touches nothing but its own message.
Sign(s, target) == {IF m.of = s /\ m.id = target THEN [m EXCEPT !.text = "ours"] ELSE m : m \in chat}

\* A caption is put under a message of one sending; the others keep theirs.
LEMMA SignedStays ==
    ASSUME ChatOK, NEW s \in DOMAIN job, NEW target, chat' = Sign(s, target), JobStays(s)
    PROVE  /\ ChatOK' /\ Standing(s)' = Caption(Standing(s), target)
           /\ IdsOf(Caption(Standing(s), target)) = IdsOf(Standing(s))
           /\ \A r \in DOMAIN job : r # s => Standing(r)' = Standing(r)
<1>. DEFINE sign(m) == IF m.of = s /\ m.id = target THEN [m EXCEPT !.text = "ours"] ELSE m
<1>1. ASSUME NEW m \in chat
      PROVE  MessageOK(sign(m), job) /\ sign(m).of = m.of /\ sign(m).id = m.id
  <2>1. MessageOK(m, job)
    BY DEF ChatOK
  <2>2. CASE m.of = s /\ m.id = target
    BY <2>1, <2>2 DEF MessageOK, Messages, Captions
  <2>3. CASE ~(m.of = s /\ m.id = target)
    BY <2>1, <2>3
  <2>. QED BY <2>2, <2>3
<1>2. chat' = {sign(m) : m \in chat}
  BY DEF Sign
<1>3. \A m \in chat : m.of = s => sign(m) = IF m.id = target THEN [m EXCEPT !.text = "ours"] ELSE m
  OBVIOUS
<1>4. \A m \in chat : m.of # s => sign(m) = m
  OBVIOUS
<1>. HIDE DEF sign
<1>5. ChatOK'
  <2>1. \A m \in chat' : MessageOK(m, job)
    BY <1>1, <1>2
  <2>. QED BY <2>1, PostsStay DEF ChatOK
<1>6. Standing(s)' = {sign(m) : m \in Standing(s)}
  BY <1>1, <1>2 DEF Standing
<1>7. {sign(m) : m \in Standing(s)} = Caption(Standing(s), target)
  BY <1>3 DEF Standing, Caption
<1>8. IdsOf({sign(m) : m \in Standing(s)}) = IdsOf(Standing(s))
  BY <1>1 DEF IdsOf, Standing
<1>9. \A r \in DOMAIN job : r # s => Standing(r)' = Standing(r)
  BY <1>1, <1>2, <1>4 DEF Standing
<1>. QED BY <1>5, <1>6, <1>7, <1>8, <1>9

\* The part that is signed.
SignedPart(o) == IF o.holder = 0 THEN 1 ELSE o.holder

\* The caption is there, or the post goes without; or what came is taken back.
LEMMA CaptionGoes ==
    ASSUME SendInv, Mixing, NEW s \in DOMAIN job, try[s].at = "caption", job' = job, files' = files,
           NEW t, Fit(s, t), Becomes(s, t), t.ids = try[s].ids, t.got = try[s].got,
           t.at \in {"remember", "undo"},
           chat' = Sign(s, try[s].ids[SignedPart(job[s].order)]) \/ chat' = chat,
           t.at = "undo" \/ ~DropsCaptions(job[s].order) \/
              chat' = Sign(s, try[s].ids[SignedPart(job[s].order)])
    PROVE  SendInv'
<1>. PICK o : o = job[s].order
  OBVIOUS
<1>. PICK ids : ids = try[s].ids
  OBVIOUS
<1>. PICK c : c = SignedPart(o)
  OBVIOUS
<1>. DEFINE S == Standing(s)
<1>0. /\ JobsOK /\ WaysFit /\ ChatOK /\ Stands /\ FilesOK /\ FilesHeld
  BY DEF SendInv
<1>1. Proceeds(s, t) /\ t.at \notin Loading /\ try[s].at \notin Loading /\ JobStays(s)
  BY <1>0, SameStays DEF Proceeds, Loading
<1>2. FilesOK' /\ FilesHeld'
  BY <1>0, <1>1, FilesIdle
<1>3. /\ Paid(job[s].row, try[s])
      /\ (~job[s].slipped => StandsFor(s, o, job[s].row, try[s], S, mixed))
  BY <1>0 DEF Stands
<1>4. job[s].row = <<>> /\ Paid(job'[s].row, t)
  BY <1>3 DEF Paid
<1>5. ChatOK' /\ \A r \in DOMAIN job : r # s => Standing(r)' = Standing(r)
  BY <1>0, <1>1, SignedStays, ChatSame
<1>6. ASSUME ~job[s].slipped
      PROVE  StandsFor(s, o, <<>>, t, Standing(s)', mixed)
  <2>1. /\ DOMAIN ids = DOMAIN o.parts /\ Signature(o) # "none"
        /\ \A k, l \in DOMAIN ids : ids[k] = ids[l] => k = l
        /\ S = Uncaptioned(o, s, ids)
    BY <1>3, <1>6 DEF StandsFor
  <2>2. /\ IsOrder(o) /\ ~Forwarded(o) /\ ~OneText(o) /\ 1 \in DOMAIN o.parts
        /\ IsFiniteSet(DOMAIN o.parts)
    <3>1. WayFits(o, "opaque")
      BY <1>0 DEF WaysFit, TryFits
    <3>2. PICK n \in Nat : n >= 1 /\ DOMAIN o.parts = 1 .. n
      BY <1>0, OrderIs
    <3>. QED BY <1>0, <3>1, <3>2, OrderIs, FS_Interval DEF WayFits
  <2>3. /\ o.wanted = "ours" /\ (o.holder # 0 <=> DropsCaptions(o))
        /\ S = Entries(s, ids, Bare(ids))
    BY <2>1, <2>2, EntriesUncaptioned
  <2>4. c \in DOMAIN ids
    BY <2>1, <2>2 DEF IsOrder, SignedPart
  <2>5. PICK tx : /\ tx = Bare(ids) \/ tx = Under(ids, c)
                  /\ t.at = "remember" /\ tx = Bare(ids) => o.holder = 0
                  /\ Standing(s)' = Entries(s, ids, tx)
    <3>1. CASE chat' = Sign(s, ids[c])
      <4>1. Standing(s)' = Caption(S, ids[c])
        BY <1>0, <1>1, <3>1, SignedStays
      <4>2. Caption(S, ids[c]) = Entries(s, ids, Under(ids, c))
        BY <2>1, <2>3, <2>4, EntriesCaptioned
      <4>3. Under(ids, c) # Bare(ids)
        BY <2>4 DEF Under, Bare
      <4>. QED BY <4>1, <4>2, <4>3
    <3>2. CASE chat' = chat /\ (t.at = "undo" \/ ~DropsCaptions(o))
      <4>1. Standing(s)' = S
        BY <1>0, <1>1, <3>2, ChatSame
      <4>. QED BY <2>3, <3>2, <4>1
    <3>. QED BY <3>1, <3>2
  <2>6. IdsOf(Standing(s)') = ToSet(ids)
    BY <2>5, EntriesIds
  <2>7. t.at = "remember" => Whole(o, s, Standing(s)', mixed)
    BY <2>1, <2>2, <2>3, <2>4, <2>5, EntriesWhole
  <2>8. ids # <<>>
    BY <2>1, <2>2, NoIds
  <2>. QED BY <2>6, <2>7, <2>8 DEF StandsFor, Loading
<1>7. Stands'
  BY <1>0, <1>1, <1>4, <1>5, <1>6, StandsGo
<1>. QED BY <1>1, <1>2, <1>5, <1>7, InvGoes

\* _set_caption: signed, left without its signature, or undone.
LEMMA SetCaptionKeeps ==
    ASSUME SendInv, Mixing, NEW s \in DOMAIN job, SetCaption(s)
    PROVE  SendInv'
<1>. PICK o : o = job[s].order
  OBVIOUS
<1>. DEFINE target == try[s].ids[SignedPart(o)]
            on == GoesTo(s, "remember")
            back(e) == [try[s] EXCEPT !.at = "undo", !.error = IF e = "flood" THEN "transient" ELSE e]
<1>0. JobsOK /\ WaysFit
  BY DEF SendInv
<1>1. Fit(s, try[s])
  BY <1>0, TryNow
<1>2. job' = job /\ files' = files /\ try[s].at = "caption"
  BY DEF SetCaption
<1>3. \/ chat' = Sign(s, target) /\ Becomes(s, on)
      \/ /\ chat' \in {chat, Sign(s, target)}
         /\ \E e \in Errors : Becomes(s, IF ~DropsCaptions(o) THEN on ELSE back(e))
  BY DEF SetCaption, Sign, Errors, SignedPart
<1>4. /\ on \in TryType /\ on.at = "remember" /\ on.ids = try[s].ids /\ on.got = try[s].got
      /\ on.part = try[s].part /\ on.unit = try[s].unit
  BY <1>1 DEF GoesTo, TryType, Points, Fit
<1>. HIDE DEF on
<1>5. Fit(s, on)
  BY <1>1, <1>4 DEF Fit, TryFits, Loading
<1>6. CASE Becomes(s, on) /\ (chat' = Sign(s, target) \/ (chat' = chat /\ ~DropsCaptions(o)))
  BY <1>2, <1>4, <1>5, <1>6, CaptionGoes
<1>7. ASSUME NEW e \in Errors, Becomes(s, back(e)), chat' \in {chat, Sign(s, target)}
      PROVE  SendInv'
  <2>1. PICK error \in Mistakes : error = IF e = "flood" THEN "transient" ELSE e
    BY DEF Mistakes, Errors
  <2>. DEFINE t == [try[s] EXCEPT !.at = "undo", !.error = error]
  <2>2. Becomes(s, t)
    BY <1>7, <2>1
  <2>3. /\ t \in TryType /\ t.at = "undo" /\ t.ids = try[s].ids /\ t.got = try[s].got
        /\ t.part = try[s].part /\ t.unit = try[s].unit
    BY <1>1 DEF TryType, Points, Fit
  <2>. HIDE DEF t, back
  <2>4. Fit(s, t)
    BY <1>1, <2>3 DEF Fit, TryFits, Loading
  <2>5. chat' = Sign(s, target) \/ chat' = chat
    BY <1>7
  <2>. QED BY <1>2, <2>2, <2>3, <2>4, <2>5, CaptionGoes
<1>8. (\E e \in Errors : Becomes(s, IF ~DropsCaptions(o) THEN on ELSE back(e))) =>
         (Becomes(s, on) /\ ~DropsCaptions(o)) \/ \E e \in Errors : Becomes(s, back(e))
  <2>. HIDE DEF back
  <2>. QED OBVIOUS
<1>9. CASE chat' = Sign(s, target) /\ Becomes(s, on)
  BY <1>2, <1>4, <1>5, <1>9, CaptionGoes
<1>10. CASE /\ chat' \in {chat, Sign(s, target)}
            /\ \E e \in Errors : Becomes(s, IF ~DropsCaptions(o) THEN on ELSE back(e))
  <2>1. chat' = Sign(s, target) \/ chat' = chat
    BY <1>10
  <2>2. CASE Becomes(s, on) /\ ~DropsCaptions(o)
    BY <1>6, <2>1, <2>2
  <2>3. CASE \E e \in Errors : Becomes(s, back(e))
    <3>1. PICK e \in Errors : Becomes(s, back(e))
      BY <2>3
    <3>. HIDE DEF back
    <3>. QED BY <1>7, <1>10, <3>1
  <2>. HIDE DEF back
  <2>. QED BY <1>8, <1>10, <2>2, <2>3
<1>. HIDE DEF back
<1>. QED BY <1>3, <1>9, <1>10

\* The row is written.
LEMMA RememberKeeps ==
    ASSUME SendInv, Mixing, NEW s \in DOMAIN job, Remember(s)
    PROVE  SendInv'
<1>. PICK ids : ids = try[s].ids
  OBVIOUS
<1>. DEFINE u == try[s].unit /\ ids # <<>>
            t == [GoesTo(s, "rest") EXCEPT !.unit = u]
            j == [job[s] EXCEPT !.row = ids]
<1>0. /\ JobsOK /\ WaysFit /\ ChatOK /\ Stands /\ FilesOK /\ FilesHeld
  BY DEF SendInv
<1>1. /\ try[s].at = "remember" /\ job' = [job EXCEPT ![s] = j] /\ Becomes(s, t)
      /\ files' = files /\ chat' = chat
  BY DEF Remember, GoesTo
<1>2. Fit(s, try[s]) /\ job[s] \in JobType /\ job \in [DOMAIN job -> JobType]
  BY <1>0, TryNow DEF JobsOK
<1>3. ids \in IdLists /\ u \in BOOLEAN /\ (u <=> try[s].unit /\ ids # <<>>)
  BY <1>2 DEF Fit, TryType
<1>. HIDE DEF u
<1>4. /\ t \in TryType /\ t.at = "rest" /\ t.unit = u /\ t.got = try[s].got
      /\ t.part = try[s].part
  BY <1>2, <1>3 DEF Fit, TryType, Points, GoesTo
<1>5. /\ j \in JobType /\ j.order = job[s].order /\ j.slipped = job[s].slipped
      /\ j.leaked = job[s].leaked /\ j.row = ids
  BY <1>2, <1>3 DEF JobType
<1>. HIDE DEF t, j
<1>6. JobStays(s) /\ job'[s].row = ids /\ job'[s].slipped = job[s].slipped
  BY <1>1, <1>2, <1>5 DEF JobStays
<1>7. Proceeds(s, t)
  BY <1>1, <1>2, <1>3, <1>4, <1>6 DEF Fit, TryFits, Loading, Proceeds
<1>8. ChatOK' /\ \A r \in DOMAIN job : Standing(r)' = Standing(r)
  BY <1>0, <1>1, <1>6, ChatSame
<1>9. FilesOK' /\ FilesHeld'
  BY <1>0, <1>1, <1>4, <1>7, FilesIdle DEF Loading
<1>10. ~job[s].slipped => StandsFor(s, job[s].order, job[s].row, try[s], Standing(s), mixed)
  BY <1>0 DEF Stands
<1>11. Paid(job'[s].row, t)
  BY <1>3, <1>4, <1>6 DEF Paid
<1>12. ~job'[s].slipped => StandsFor(s, job[s].order, job'[s].row, t, Standing(s)', mixed)
  BY <1>1, <1>4, <1>6, <1>8, <1>10 DEF StandsFor, Loading
<1>13. Stands'
  BY <1>0, <1>7, <1>8, <1>11, <1>12, StandsGo
<1>. QED BY <1>7, <1>8, <1>9, <1>13, InvGoes

\* Once more without premium emojis, or the end of the try.
LEMMA CaughtKeeps ==
    ASSUME SendInv, Mixing, NEW s \in DOMAIN job, Caught(s)
    PROVE  SendInv'
<1>. PICK o : o = job[s].order
  OBVIOUS
<1>0. /\ JobsOK /\ WaysFit /\ ChatOK /\ Stands /\ FilesOK /\ FilesHeld
  BY DEF SendInv
<1>1. Fit(s, try[s]) /\ IsOrder(o)
  BY <1>0, TryNow, OrderIs
<1>2. try[s].at = "caught" /\ job' = job /\ files' = files /\ chat' = chat
  BY DEF Caught
<1>3. CASE try[s].error = "premium"
  <2>1. PICK way : way = WayOf(o, try[s].unit)
    OBVIOUS
  <2>2. way \in Ways \ {"", "again"} /\ WayFits(o, way)
    <3>1. PICK unit \in BOOLEAN : unit = try[s].unit
      BY <1>1 DEF Fit, TryType
    <3>2. unit => o.watermark
      BY <1>1, <3>1 DEF Fit, TryFits
    <3>. QED BY <1>1, <2>1, <3>1, <3>2, WayOfFits
  <2>. DEFINE t == [GoesTo(s, "send") EXCEPT !.plain = TRUE, !.part = 1, !.tagged = FALSE, !.way = way]
  <2>3. Becomes(s, t)
    BY <1>3, <2>1 DEF Caught
  <2>4. /\ t \in TryType /\ t.at = "send" /\ t.way = way /\ t.part = 1 /\ t.unit = try[s].unit
        /\ t.ids = try[s].ids /\ t.got = try[s].got
    BY <1>1, <2>2 DEF Fit, TryType, Points, GoesTo
  <2>. HIDE DEF t
  <2>5. 1 \in DOMAIN o.parts
    BY <1>0, OrderIs
  <2>6. Fit(s, t)
    BY <1>1, <2>2, <2>4, <2>5 DEF Fit, TryFits, Loading
  <2>. QED BY <1>2, <2>3, <2>4, <2>6, IdleStep DEF Before, Loading
<1>4. CASE try[s].error # "premium"
  <2>. DEFINE t == [GoesTo(s, "rest") EXCEPT !.unit = FALSE]
  <2>1. Becomes(s, t)
    BY <1>4 DEF Caught
  <2>2. /\ t \in TryType /\ t.at = "rest" /\ t.unit = FALSE /\ t.got = try[s].got
        /\ t.part = try[s].part
    BY <1>1 DEF Fit, TryType, Points, GoesTo
  <2>. HIDE DEF t
  <2>3. Proceeds(s, t)
    BY <1>0, <1>1, <1>2, <2>1, <2>2, SameStays DEF Fit, TryFits, Loading, Proceeds
  <2>4. ChatOK' /\ \A r \in DOMAIN job : Standing(r)' = Standing(r)
    BY <1>0, <1>2, <2>3, ChatSame DEF Proceeds
  <2>5. FilesOK' /\ FilesHeld'
    BY <1>0, <1>2, <2>2, <2>3, FilesIdle DEF Loading
  <2>6. /\ Paid(job[s].row, try[s])
        /\ (~job[s].slipped => StandsFor(s, o, job[s].row, try[s], Standing(s), mixed))
    BY <1>0 DEF Stands
  <2>7. job'[s].row = <<>> /\ (~job[s].slipped => Standing(s)' = {})
    BY <1>2, <2>4, <2>6 DEF Paid, StandsFor
  <2>8. Paid(job'[s].row, t)
    BY <2>2 DEF Paid
  <2>9. ~job'[s].slipped => StandsFor(s, job[s].order, job'[s].row, t, Standing(s)', mixed)
    BY <1>2, <2>2, <2>7 DEF StandsFor, Loading
  <2>10. Stands'
    BY <1>0, <2>3, <2>4, <2>8, <2>9, StandsGo
  <2>. QED BY <2>3, <2>4, <2>5, <2>10, InvGoes
<1>. QED BY <1>3, <1>4

\* The next try begins as the first did.
LEMMA UntriedFits ==
    ASSUME NEW o, IsOrder(o)
    PROVE  /\ Untried \in TryType /\ TryFits(o, Untried) /\ Untried.part \in DOMAIN o.parts
           /\ Untried.at = "reserve" /\ Untried.got = <<>> /\ Untried.ids = <<>>
           /\ Untried.unit = FALSE
<1>1. <<>> \in Seq(Paths) /\ <<>> \in IdLists
  BY NoIds
<1>2. Untried \in TryType
  <2>. DEFINE none == <<>>
  <2>1. none \in Seq(Paths) /\ none \in IdLists /\ none \in {<<>>}
    BY <1>1
  <2>2. Untried = [at |-> "reserve", way |-> "", part |-> 1, got |-> none, src |-> none,
                   tagged |-> FALSE, ids |-> none, error |-> "", plain |-> FALSE, unit |-> FALSE]
    BY DEF Untried
  <2>. HIDE DEF none
  <2>. QED BY <2>1, <2>2 DEF TryType, Points, Ways, Mistakes
<1>3. /\ Untried.at = "reserve" /\ Untried.got = <<>> /\ Untried.ids = <<>>
      /\ Untried.unit = FALSE /\ Untried.part = 1
  BY DEF Untried
<1>4. 1 \in DOMAIN o.parts
  BY DEF IsOrder, Order
<1>. QED BY <1>2, <1>3, <1>4 DEF TryFits, Loading

\* The retry queue, or the sweeper, begins another try.
LEMMA AgainKeeps ==
    ASSUME SendInv, Mixing, NEW s \in DOMAIN job, Again(s)
    PROVE  SendInv'
<1>. PICK o : o = job[s].order
  OBVIOUS
<1>. PICK t : t = Untried
  OBVIOUS
<1>. PICK tries : tries = job[s].tries + 1
  OBVIOUS
<1>. DEFINE j == [job[s] EXCEPT !.tries = tries]
<1>0. /\ JobsOK /\ WaysFit /\ ChatOK /\ Stands /\ FilesOK /\ FilesHeld
  BY DEF SendInv
<1>1. /\ try[s].at = "rest" /\ job[s].row = <<>> /\ job' = [job EXCEPT ![s] = j]
      /\ Becomes(s, t) /\ files' = files /\ chat' = chat
  BY DEF Again
<1>2. job[s] \in JobType /\ job \in [DOMAIN job -> JobType] /\ IsOrder(o)
  BY <1>0, OrderIs DEF JobsOK
<1>3. tries \in Nat
  BY <1>2 DEF JobType
<1>4. /\ j \in JobType /\ j.order = job[s].order /\ j.slipped = job[s].slipped
      /\ j.leaked = job[s].leaked /\ j.row = job[s].row
  BY <1>2, <1>3 DEF JobType
<1>. HIDE DEF j
<1>5. JobStays(s) /\ job'[s].row = <<>> /\ job'[s].slipped = job[s].slipped
  BY <1>1, <1>2, <1>4 DEF JobStays
<1>6. Fit(s, t) /\ t.at = "reserve" /\ t.got = <<>> /\ t.ids = <<>>
  BY <1>2, UntriedFits DEF Fit
<1>7. Proceeds(s, t)
  BY <1>1, <1>5, <1>6 DEF Proceeds
<1>8. ChatOK' /\ \A r \in DOMAIN job : Standing(r)' = Standing(r)
  BY <1>0, <1>1, <1>5, ChatSame
<1>9. FilesOK' /\ FilesHeld'
  <2>1. try[s].got = <<>>
    BY <1>0, <1>1 DEF FilesHeld, HeldBy, Loading
  <2>. QED BY <1>0, <1>1, <1>6, <1>7, <2>1, FilesIdle DEF Loading
<1>10. ~job[s].slipped => StandsFor(s, job[s].order, job[s].row, try[s], Standing(s), mixed)
  BY <1>0 DEF Stands
<1>11. Paid(job'[s].row, t)
  BY <1>5, <1>6 DEF Paid
<1>12. ~job[s].slipped => Standing(s) = {}
  BY <1>1, <1>10 DEF StandsFor
<1>13. ~job'[s].slipped => StandsFor(s, job[s].order, job'[s].row, t, Standing(s)', mixed)
  BY <1>5, <1>6, <1>8, <1>12 DEF StandsFor, Loading
<1>14. Stands'
  BY <1>0, <1>7, <1>8, <1>11, <1>13, StandsGo
<1>. QED BY <1>7, <1>8, <1>9, <1>14, InvGoes

-----------------------------------------------------------------------------
\* What was downloaded makes the post whole.
LEMMA UploadsWhole ==
    ASSUME SendInv, NEW s \in DOMAIN job, try[s].at = "ready", Complete(s),
           ToSet(try[s].got) \subseteq DOMAIN files
    PROVE  MakesWhole(s, Uploads(s))
<1>. PICK o : o = job[s].order
  OBVIOUS
<1>. PICK t : t = try[s]
  OBVIOUS
<1>. DEFINE bodies == [k \in DOMAIN t.got |-> files[t.got[k]]]
<1>0. JobsOK /\ WaysFit /\ FilesOK /\ FilesHeld
  BY DEF SendInv
<1>1. PICK n \in Nat : n = Len(o.parts) /\ DOMAIN o.parts = 1 .. n
  BY <1>0, OrderIs
<1>2. t.got \in Seq(Paths) /\ t.at = "ready" /\ Len(t.got) = n
  BY <1>0, <1>1 DEF JobsOK, TryType, Complete
<1>3. DOMAIN t.got = 1 .. n
  BY <1>2
<1>4. HeldBy(s, o, t, files, mixed) /\ TriedOf(o, t) = n
  BY <1>0, <1>1, <1>2 DEF FilesHeld, TriedOf
<1>5. ASSUME NEW k \in DOMAIN bodies
      PROVE  /\ bodies[k] \in Bodies
             /\ s \notin mixed => bodies[k].of = s /\ bodies[k].part = k
  <2>1. k \in DOMAIN t.got /\ t.got[k] \in HandOf(t) /\ t.got[k] \in DOMAIN files
    BY DEF HandOf, ToSet
  <2>2. s \notin mixed => files[t.got[k]].of = s /\ files[t.got[k]].part = k
    BY <1>2, <1>4, <2>1 DEF HeldBy, Sound, Loading
  <2>3. files[t.got[k]] \in Bodies
    BY <1>0, <2>1 DEF FilesOK, FileOK
  <2>. QED BY <2>2, <2>3
<1>6. ~Forwarded(o) /\ ~OneText(o)
  BY <1>0, <1>2 DEF WaysFit, TryFits, WayFits, Loading, Uploading
<1>7. Uploads(s) = Media(s, bodies) /\ DOMAIN bodies = DOMAIN o.parts
  BY <1>1, <1>3 DEF Uploads
<1>. HIDE DEF bodies
<1>8. MakesWhole(s, Media(s, bodies))
  BY <1>0, <1>5, <1>6, <1>7, MediaWhole
<1>. QED BY <1>7, <1>8

\* Messages under way are messages of the post.
LEMMA InFlightIs ==
    ASSUME SendInv, NEW s \in DOMAIN job, NEW msgs \in InFlight(s) \cup {<<>>}
    PROVE  MadeFor(s, msgs) /\ Len(msgs) \in Nat
<1>. PICK o : o = job[s].order
  OBVIOUS
<1>0. JobsOK /\ WaysFit
  BY DEF SendInv
<1>1. CASE msgs = <<>>
  <2>1. Len(<<>>) = 0
    OBVIOUS
  <2>. QED BY <1>1, <2>1, NoIds DEF MadeFor
<1>2. \/ Sends(s, "text") /\ o.wanted # "none" /\ msgs = Alone(s)
      \/ Sends(s, "direct") /\ msgs = References(s)
      \/ Sends(s, "forward") /\ msgs = Forwards(s, FALSE)
      \/ Sends(s, "opaque") /\ msgs = Forwards(s, DropsCaptions(o))
      \/ Sends(s, "poll") /\ msgs = Poll(s)
      \/ try[s].at = "ready" /\ Complete(s) /\ ToSet(try[s].got) \subseteq DOMAIN files
         /\ msgs = Uploads(s)
      \/ msgs = <<>>
  BY DEF InFlight, Sends
<1>3. \A way \in Ways : Sends(s, way) => WayFits(o, way)
  BY <1>0 DEF WaysFit, TryFits, Sends
<1>4. CASE Sends(s, "text") /\ o.wanted # "none" /\ msgs = Alone(s)
  BY <1>0, <1>3, <1>4, TextWhole DEF MakesWhole, Ways
<1>5. CASE Sends(s, "direct") /\ msgs = References(s)
  <2>. DEFINE bodies == [k \in DOMAIN o.parts |-> Body(s, k, "plain")]
  <2>1. ~Forwarded(o) /\ ~OneText(o)
    BY <1>3, <1>5 DEF WayFits, Ways
  <2>2. ASSUME NEW k \in DOMAIN bodies
        PROVE  bodies[k] \in Bodies /\ bodies[k].of = s /\ bodies[k].part = k
    <3>1. bodies[k] = Body(s, k, "plain") /\ k \in Nat
      BY <1>0, OrderIs
    <3>. QED BY <1>0, <3>1, BodyIs DEF Looks
  <2>3. DOMAIN bodies = DOMAIN o.parts /\ msgs = Media(s, bodies)
    BY <1>5 DEF References
  <2>. HIDE DEF bodies
  <2>4. MakesWhole(s, Media(s, bodies))
    BY <1>0, <2>1, <2>2, <2>3, MediaWhole
  <2>. QED BY <2>3, <2>4 DEF MakesWhole
<1>6. CASE Sends(s, "forward") /\ msgs = Forwards(s, FALSE)
  BY <1>0, <1>3, <1>6, ForwardWhole DEF MakesWhole, Ways
<1>7. CASE Sends(s, "opaque") /\ msgs = Forwards(s, DropsCaptions(o))
  <2>1. ForwardOf(s, o, DropsCaptions(o), msgs)
    BY <1>0, <1>7, ForwardIs
  <2>2. Len(o.parts) \in Nat
    BY <1>0, OrderIs
  <2>. QED BY <2>1, <2>2 DEF ForwardOf
<1>8. CASE Sends(s, "poll") /\ msgs = Poll(s)
  BY <1>0, <1>3, <1>8, PollWhole DEF MakesWhole, Ways
<1>9. CASE try[s].at = "ready" /\ Complete(s) /\ ToSet(try[s].got) \subseteq DOMAIN files
           /\ msgs = Uploads(s)
  BY <1>9, UploadsWhole DEF MakesWhole
<1>. QED BY <1>1, <1>2, <1>4, <1>5, <1>6, <1>7, <1>8, <1>9

\* A handler is cancelled.
LEMMA StopSendingKeeps ==
    ASSUME SendInv, Mixing, NEW s \in DOMAIN job, StopSending(s)
    PROVE  SendInv'
<1>0. /\ JobsOK /\ WaysFit /\ ChatOK /\ Stands /\ FilesOK /\ FilesHeld
  BY DEF SendInv
<1>1. PICK msgs \in InFlight(s) \cup {<<>>} :
         /\ chat' = chat \cup ToSet(msgs)
         /\ job' = [job EXCEPT ![s] = [job[s] EXCEPT
                       !.made = job[s].made + Len(msgs),
                       !.slipped = job[s].slipped \/ try[s].ids # <<>> \/ msgs # <<>>,
                       !.leaked = job[s].leaked \/ try[s].at = "rewrite"]]
  BY DEF StopSending
<1>2. MadeFor(s, msgs) /\ Len(msgs) \in Nat
  BY InFlightIs
<1>. DEFINE slips == job[s].slipped \/ try[s].ids # <<>> \/ msgs # <<>>
            leaks == job[s].leaked \/ try[s].at = "rewrite"
            made == job[s].made + Len(msgs)
            j == [job[s] EXCEPT !.made = made, !.slipped = slips, !.leaked = leaks]
            none == <<>>
            t == [try[s] EXCEPT !.at = "rest", !.error = "cancelled", !.got = none, !.src = none]
<1>3. Fit(s, try[s]) /\ job[s] \in JobType /\ job \in [DOMAIN job -> JobType]
  BY <1>0, TryNow DEF JobsOK
<1>4. /\ slips \in BOOLEAN /\ leaks \in BOOLEAN /\ made \in Nat
      /\ (slips <=> job[s].slipped \/ try[s].ids # <<>> \/ msgs # <<>>)
      /\ (leaks <=> job[s].leaked \/ try[s].at = "rewrite")
  BY <1>2, <1>3 DEF JobType
<1>5. job' = [job EXCEPT ![s] = j]
  BY <1>1
<1>6. none \in Seq(Paths) /\ none \in {<<>>} /\ none = <<>>
  OBVIOUS
<1>7. Becomes(s, t) /\ Unlinked(ToSet(try[s].got)) /\ try[s].at \notin {"rest", "caught"}
  BY DEF StopSending
<1>. HIDE DEF slips, leaks, made, none
<1>8. /\ j \in JobType /\ j.order = job[s].order /\ j.slipped = slips
      /\ j.leaked = leaks /\ j.row = job[s].row
  BY <1>3, <1>4 DEF JobType
<1>9. /\ t \in TryType /\ t.at = "rest" /\ t.error = "cancelled" /\ t.got = <<>>
      /\ t.part = try[s].part /\ t.unit = try[s].unit
  BY <1>3, <1>6 DEF Fit, TryType, Points, Mistakes
<1>. HIDE DEF j, t
<1>10. /\ JobStays(s) /\ job'[s].row = job[s].row /\ job'[s].slipped = slips
       /\ job'[s].leaked = leaks
  BY <1>3, <1>4, <1>5, <1>8 DEF JobStays
<1>11. Proceeds(s, t)
  BY <1>3, <1>7, <1>9, <1>10 DEF Fit, TryFits, Loading, Proceeds
<1>12. FilesOK' /\ FilesHeld'
  BY <1>0, <1>4, <1>7, <1>9, <1>10, <1>11, FilesDropped DEF Loading
<1>13. /\ ChatOK' /\ Standing(s)' = Standing(s) \cup ToSet(msgs)
       /\ \A r \in DOMAIN job : r # s => Standing(r)' = Standing(r)
  BY <1>0, <1>1, <1>2, <1>10, ChatGrows
<1>14. /\ Paid(job[s].row, try[s])
       /\ (~job[s].slipped => StandsFor(s, job[s].order, job[s].row, try[s], Standing(s), mixed))
  BY <1>0 DEF Stands
<1>15. job[s].row = <<>> /\ Paid(job'[s].row, t)
  BY <1>7, <1>9, <1>14 DEF Paid
<1>16. ASSUME ~slips
       PROVE  Standing(s)' = {}
  <2>1. try[s].ids = <<>> /\ msgs = <<>> /\ ~job[s].slipped
    BY <1>4, <1>16
  <2>2. Standing(s)' = Standing(s)
    BY <1>13, <2>1, NoIds
  <2>3. CASE try[s].at \in Before \cup {"remember"}
    BY <1>14, <2>1, <2>2, <2>3 DEF StandsFor, Before, Loading
  <2>4. CASE try[s].at = "undo"
    <3>1. IdsOf(Standing(s)) = {}
      BY <1>14, <2>1, <2>4, NoIds DEF StandsFor
    <3>. QED BY <2>2, <3>1 DEF IdsOf
  <2>5. CASE try[s].at = "caption"
    <3>1. DOMAIN try[s].ids = DOMAIN job[s].order.parts
      BY <1>14, <2>1, <2>5 DEF StandsFor
    <3>2. 1 \in DOMAIN job[s].order.parts
      BY <1>0, OrderIs
    <3>. QED BY <2>1, <3>1, <3>2, NoIds
  <2>. QED BY <1>3, <1>7, <2>3, <2>4, <2>5 DEF Fit, TryType, Points, Before, Loading
<1>17. ~job'[s].slipped => StandsFor(s, job[s].order, job'[s].row, t, Standing(s)', mixed)
  BY <1>9, <1>10, <1>15, <1>16 DEF StandsFor, Loading
<1>18. Stands'
  BY <1>0, <1>11, <1>13, <1>15, <1>17, StandsGo
<1>. QED BY <1>11, <1>12, <1>13, <1>18, InvGoes

\* The files are sent, and discarded.
LEMMA Discards ==
    ASSUME NEW s \in DOMAIN job, NEW t, Fit(s, t)
    PROVE  LET u == [t EXCEPT !.got = <<>>]
           IN  Fit(s, u) /\ u.at = t.at /\ u.ids = t.ids /\ u.got = <<>>
<1>. DEFINE none == <<>>
            u == [t EXCEPT !.got = none]
<1>1. none \in Seq(Paths)
  OBVIOUS
<1>. HIDE DEF none
<1>2. /\ u \in TryType /\ u.at = t.at /\ u.ids = t.ids /\ u.got = none /\ u.part = t.part
      /\ u.unit = t.unit /\ u.way = t.way
  BY <1>1 DEF Fit, TryType
<1>. HIDE DEF u
<1>3. Fit(s, u)
  BY <1>2 DEF Fit, TryFits
<1>. QED BY <1>2, <1>3 DEF u, none

\* What was downloaded is sent, and the files are gone.
LEMMA UploadKeeps ==
    ASSUME SendInv, Mixing, NEW s \in DOMAIN job, Upload(s)
    PROVE  SendInv'
<1>. DEFINE msgs == Uploads(s)
            refusal == [e \in Errors \cup {"premium"} |-> [Raised(s, e) EXCEPT !.got = <<>>]]
            done == [Named(s, msgs) EXCEPT !.got = <<>>]
<1>0. /\ JobsOK /\ WaysFit /\ ChatOK /\ Stands /\ FilesOK /\ FilesHeld
  BY DEF SendInv
<1>1. /\ try[s].at = "ready" /\ Complete(s) /\ Unlinked(ToSet(try[s].got))
      /\ try[s].at \in Before /\ try[s].at # "rewrite"
  BY DEF Upload, Before, Loading
<1>2. ToSet(try[s].got) \subseteq DOMAIN files => MakesWhole(s, msgs)
  BY <1>1, UploadsWhole
<1>3. MakesWhole(s, msgs) =>
         MadeFor(s, msgs) /\ Len(msgs) \in Nat /\ Ids(msgs) \in IdLists
  BY DEF MakesWhole
<1>4. \/ ToSet(try[s].got) \subseteq DOMAIN files /\ Call(s, msgs, done, refusal)
      \/ Becomes(s, refusal["transient"]) /\ job' = job /\ chat' = chat
  BY DEF Upload
<1>. HIDE DEF msgs
<1>5. ASSUME MakesWhole(s, msgs)
      PROVE  Fit(s, done) /\ done.at = "remember" /\ done.ids = Ids(msgs) /\ done.got = <<>>
  <2>. DEFINE t == Named(s, msgs)
  <2>1. Fit(s, t) /\ t.at = "remember" /\ t.ids = Ids(msgs)
    BY <1>0, <1>3, <1>5, NamedFits
  <2>. HIDE DEF t
  <2>2. Fit(s, [t EXCEPT !.got = <<>>])
        /\ [t EXCEPT !.got = <<>>].at = t.at /\ [t EXCEPT !.got = <<>>].ids = t.ids
        /\ [t EXCEPT !.got = <<>>].got = <<>>
    BY <2>1, Discards
  <2>3. done = [t EXCEPT !.got = <<>>]
    BY DEF t
  <2>. HIDE DEF done
  <2>. QED BY <2>1, <2>2, <2>3
<1>. HIDE DEF done
<1>6. ASSUME NEW e \in Errors \cup {"premium"}
      PROVE  /\ Fit(s, refusal[e]) /\ refusal[e].at = "caught" /\ refusal[e].at \in Before
             /\ refusal[e].ids = try[s].ids /\ refusal[e].got = <<>>
  <2>1. refusal[e] = [Raised(s, e) EXCEPT !.got = <<>>]
    OBVIOUS
  <2>. DEFINE t == Raised(s, e)
  <2>2. e \in Mistakes
    BY DEF Mistakes
  <2>3. Fit(s, t) /\ t.at = "caught" /\ t.at \in Before /\ t.ids = try[s].ids
    BY <1>0, <2>2, RaisedFits
  <2>. HIDE DEF t, refusal
  <2>4. Fit(s, [t EXCEPT !.got = <<>>])
        /\ [t EXCEPT !.got = <<>>].at = t.at /\ [t EXCEPT !.got = <<>>].ids = t.ids
        /\ [t EXCEPT !.got = <<>>].got = <<>>
    BY <2>3, Discards
  <2>5. refusal[e] = [t EXCEPT !.got = <<>>]
    BY <2>1 DEF t
  <2>. QED BY <2>3, <2>4, <2>5
<1>. HIDE DEF refusal
<1>7. MakesWhole(s, msgs) => StandsFor(s, job[s].order, <<>>, done, ToSet(msgs), mixed)
  BY <1>5, WholeStands
<1>8. /\ Stands' /\ ChatOK'
      /\ \E t : Proceeds(s, t) /\ t.got = <<>> /\ t.at \notin Loading
  <2>1. CASE ToSet(try[s].got) \subseteq DOMAIN files /\ Call(s, msgs, done, refusal)
    <3>1. MakesWhole(s, msgs) /\ MadeFor(s, msgs) /\ Len(msgs) \in Nat
      BY <1>2, <1>3, <2>1
    <3>2. Fit(s, done) /\ done.at = "remember" /\ done.got = <<>> /\ done.at # "rest"
      BY <1>5, <3>1
    <3>3. StandsFor(s, job[s].order, <<>>, done, ToSet(msgs), mixed)
      BY <1>7, <3>1
    <3>4. /\ Stands' /\ ChatOK'
          /\ \E t : Proceeds(s, t) /\ (t = done \/ \E e \in Errors \cup {"premium"} : t = refusal[e])
      BY <1>0, <1>1, <1>6, <2>1, <3>1, <3>2, <3>3, CallGoes
    <3>. QED BY <1>6, <3>2, <3>4 DEF Loading
  <2>2. CASE Becomes(s, refusal["transient"]) /\ job' = job /\ chat' = chat
    <3>1. "transient" \in Errors \cup {"premium"}
      BY DEF Errors
    <3>2. Stands' /\ ChatOK' /\ Proceeds(s, refusal["transient"])
      BY <1>0, <1>1, <1>6, <2>2, <3>1, NoneGoes
    <3>. QED BY <1>6, <3>1, <3>2 DEF Loading
  <2>. QED BY <1>4, <2>1, <2>2
<1>9. PICK t : Proceeds(s, t) /\ t.got = <<>> /\ t.at \notin Loading
  BY <1>8
<1>10. FilesOK' /\ FilesHeld'
  BY <1>0, <1>1, <1>9, FilesDropped
<1>. QED BY <1>8, <1>9, <1>10, InvGoes

\* Not all of it came.
LEMMA UnfinishedKeeps ==
    ASSUME SendInv, Mixing, NEW s \in DOMAIN job, Unfinished(s)
    PROVE  SendInv'
<1>. DEFINE nothing == [try[s] EXCEPT !.got = <<>>]
<1>0. /\ JobsOK /\ WaysFit /\ ChatOK /\ Stands /\ FilesOK /\ FilesHeld
  BY DEF SendInv
<1>1. /\ try[s].at = "ready" /\ Unlinked(ToSet(try[s].got)) /\ job' = job /\ chat' = chat
      /\ try[s].at \in Before /\ try[s].at # "rewrite"
  BY DEF Unfinished, Before, Loading
<1>2. \/ try[s].way = "tag" /\ Becomes(s, [nothing EXCEPT !.at = "send", !.way = "direct"])
      \/ try[s].way = "again" /\ Becomes(s, [nothing EXCEPT !.at = "send", !.way = "opaque"])
      \/ Becomes(s, [nothing EXCEPT !.at = "caught", !.error = "permanent"])
  BY DEF Unfinished
<1>3. Fit(s, try[s]) /\ WayFits(job[s].order, try[s].way) /\ try[s].way \in Uploading
  BY <1>0, <1>1, TryNow DEF Fit, TryFits, Loading
<1>4. /\ Fit(s, nothing) /\ nothing.ids = try[s].ids /\ nothing.got = <<>>
  BY <1>3, Discards
<1>. HIDE DEF nothing
<1>5. ASSUME NEW t, Becomes(s, t), Fit(s, t), t.at \in {"send", "caught"}, t.ids = try[s].ids,
             t.got = <<>>
      PROVE  SendInv'
  <2>1. Stands' /\ ChatOK' /\ Proceeds(s, t)
    BY <1>0, <1>1, <1>5, NoneGoes DEF Before
  <2>2. FilesOK' /\ FilesHeld'
    BY <1>0, <1>1, <1>5, <2>1, FilesDropped DEF Loading
  <2>. QED BY <2>1, <2>2, InvGoes
<1>6. ASSUME NEW way \in {"direct", "opaque"},
             Becomes(s, [nothing EXCEPT !.at = "send", !.way = way])
      PROVE  SendInv'
  <2>. DEFINE t == [nothing EXCEPT !.at = "send", !.way = way]
  <2>1. /\ t \in TryType /\ t.at = "send" /\ t.way = way /\ t.ids = try[s].ids /\ t.got = <<>>
        /\ t.part = nothing.part /\ t.unit = nothing.unit
    BY <1>4 DEF Fit, TryType, Points, Ways
  <2>2. Becomes(s, t)
    BY <1>6
  <2>. HIDE DEF t
  <2>3. WayFits(job[s].order, way)
    BY <1>3 DEF WayFits, Uploading
  <2>4. Fit(s, t)
    BY <1>4, <2>1, <2>3 DEF Fit, TryFits, Loading
  <2>. QED BY <1>5, <2>1, <2>2, <2>4
<1>7. ASSUME Becomes(s, [nothing EXCEPT !.at = "caught", !.error = "permanent"])
      PROVE  SendInv'
  <2>. DEFINE t == [nothing EXCEPT !.at = "caught", !.error = "permanent"]
  <2>1. /\ t \in TryType /\ t.at = "caught" /\ t.ids = try[s].ids /\ t.got = <<>>
        /\ t.part = nothing.part /\ t.unit = nothing.unit
    BY <1>4 DEF Fit, TryType, Points, Mistakes, Errors
  <2>2. Becomes(s, t)
    BY <1>7
  <2>. HIDE DEF t
  <2>3. Fit(s, t)
    BY <1>4, <2>1 DEF Fit, TryFits, Loading
  <2>. QED BY <1>5, <2>1, <2>2, <2>3
<1>. QED BY <1>2, <1>6, <1>7

-----------------------------------------------------------------------------
\* Downloads.  The point at which a part is tried, and what is held there.
FetchPoint(t) == t.at \in {"fetch", "rewrite"} \/ (t.at = "send" /\ t.way \in {"bot", "tag", "mark"})
HasTried(s, t, fs, X) ==
    /\ t.got \in Seq(Paths) /\ t.part \in Nat /\ t.part >= 1 /\ Len(t.got) <= t.part - 1
    /\ s \notin X =>
          /\ \A k \in DOMAIN t.got : t.got[k] \in DOMAIN fs => fs[t.got[k]].of = s
          /\ Len(t.got) = t.part - 1 =>
                \A k \in DOMAIN t.got : t.got[k] \in DOMAIN fs => fs[t.got[k]].part = k

\* What a coroutine has before it downloads a part.
LEMMA FetchHas ==
    ASSUME SendInv, NEW s \in DOMAIN job, FetchPoint(try[s])
    PROVE  /\ HasTried(s, try[s], files, mixed) /\ WayFits(job[s].order, try[s].way)
           /\ try[s].way \in Uploading /\ try[s].at \in Before
           /\ (try[s].at # "rewrite" => HandOf(try[s]) = ToSet(try[s].got))
<1>. PICK t : t = try[s]
  OBVIOUS
<1>. PICK fs : fs = files
  OBVIOUS
<1>0. JobsOK /\ WaysFit /\ FilesHeld /\ FilesOK
  BY DEF SendInv
<1>1. Fit(s, t) /\ HeldBy(s, job[s].order, t, files, mixed)
  BY <1>0, TryNow DEF FilesHeld
<1>2. t.got \in Seq(Paths) /\ t.part \in Nat /\ t.part >= 1
  <2>1. t.part \in DOMAIN job[s].order.parts /\ t.got \in Seq(Paths)
    BY <1>1 DEF Fit, TryType
  <2>. QED BY <1>0, <2>1, OrderIs
<1>3. TriedOf(job[s].order, t) = t.part - 1
  BY DEF TriedOf, FetchPoint
<1>4. \A k \in DOMAIN t.got : t.got[k] \in HandOf(t)
  BY DEF HandOf, ToSet
<1>5. ASSUME t.at \in {"fetch", "rewrite"}
      PROVE  HasTried(s, t, fs, mixed)
  <2>1. /\ Len(t.got) <= t.part - 1
        /\ s \notin mixed => Sound(s, job[s].order, t, fs)
    BY <1>1, <1>3, <1>5 DEF HeldBy, Loading
  <2>. QED BY <1>2, <1>3, <1>4, <1>5, <2>1 DEF HasTried, Sound, Loading
<1>6. ASSUME t.at = "send", t.way \in {"bot", "tag", "mark"}
      PROVE  HasTried(s, t, fs, mixed)
  <2>1. t.got = <<>> /\ t.part = 1
    BY <1>1, <1>6 DEF HeldBy, Fit, TryFits, Loading
  <2>2. DOMAIN t.got = {} /\ Len(t.got) = 0
    BY <2>1, NoIds
  <2>3. Len(t.got) <= t.part - 1
    BY <2>1, <2>2
  <2>. QED BY <1>2, <2>2, <2>3 DEF HasTried
<1>7. WayFits(job[s].order, t.way) /\ t.way \in Uploading /\ t.at \in Before
  BY <1>1 DEF FetchPoint, Fit, TryFits, Loading, Uploading, Before
<1>8. t.at # "rewrite" => HandOf(t) = ToSet(t.got)
  BY DEF HandOf
<1>. QED BY <1>5, <1>6, <1>7, <1>8 DEF FetchPoint

\* On to the next part.
LEMMA NextFits ==
    ASSUME SendInv, NEW s \in DOMAIN job, FetchPoint(try[s]), NEW got \in Seq(Paths)
    PROVE  LET u == NextPart(s, got)
           IN  /\ Fit(s, u) /\ u.got = got /\ u.ids = try[s].ids /\ u.at \in {"fetch", "ready"}
               /\ TriedOf(job[s].order, u) = try[s].part
<1>. PICK o : o = job[s].order
  OBVIOUS
<1>. PICK t : t = try[s]
  OBVIOUS
<1>. DEFINE u == NextPart(s, got)
            last == [t EXCEPT !.at = "ready", !.got = got]
            next == [t EXCEPT !.at = "fetch", !.got = got, !.part = t.part + 1]
<1>0. JobsOK /\ WaysFit
  BY DEF SendInv
<1>1. Fit(s, t) /\ WayFits(o, t.way) /\ t.way \in Uploading
  BY <1>0, TryNow, FetchHas
<1>2. PICK n \in Nat : n = Len(o.parts) /\ DOMAIN o.parts = 1 .. n
  BY <1>0, OrderIs
<1>3. t.part \in 1 .. n
  BY <1>1, <1>2 DEF Fit
<1>4. u = IF t.part = n THEN last ELSE next
  BY <1>2 DEF NextPart
<1>5. CASE t.part = n
  <2>1. /\ last \in TryType /\ last.at = "ready" /\ last.got = got /\ last.ids = t.ids
        /\ last.part = t.part /\ last.unit = t.unit /\ last.way = t.way
    BY <1>1 DEF Fit, TryType, Points
  <2>. HIDE DEF last
  <2>2. Fit(s, last)
    BY <1>1, <2>1 DEF Fit, TryFits, Loading
  <2>3. TriedOf(o, last) = t.part
    BY <1>2, <1>5, <2>1 DEF TriedOf
  <2>4. u = last
    BY <1>4, <1>5
  <2>. HIDE DEF u
  <2>5. /\ Fit(s, u) /\ u.got = got /\ u.ids = try[s].ids /\ u.at \in {"fetch", "ready"}
        /\ TriedOf(o, u) = try[s].part
    BY <2>1, <2>2, <2>3, <2>4
  <2>. QED BY <2>5 DEF u
<1>6. CASE t.part # n
  <2>. DEFINE more == t.part + 1
  <2>0. more \in Nat /\ more \in 1 .. n /\ more - 1 = t.part
    BY <1>2, <1>3, <1>6
  <2>. HIDE DEF more
  <2>1. /\ next \in TryType /\ next.at = "fetch" /\ next.got = got /\ next.ids = t.ids
        /\ next.part = more /\ next.unit = t.unit /\ next.way = t.way
    <3>1. next = [t EXCEPT !.at = "fetch", !.got = got, !.part = more]
      BY DEF more
    <3>. HIDE DEF next
    <3>. QED BY <1>1, <2>0, <3>1 DEF Fit, TryType, Points
  <2>. HIDE DEF next
  <2>2. Fit(s, next)
    BY <1>1, <1>2, <2>0, <2>1 DEF Fit, TryFits, Loading
  <2>3. TriedOf(o, next) = t.part
    BY <2>0, <2>1 DEF TriedOf
  <2>4. u = next
    BY <1>4, <1>6
  <2>. HIDE DEF u
  <2>5. /\ Fit(s, u) /\ u.got = got /\ u.ids = try[s].ids /\ u.at \in {"fetch", "ready"}
        /\ TriedOf(o, u) = try[s].part
    BY <2>1, <2>2, <2>3, <2>4
  <2>. QED BY <2>5 DEF u
<1>. QED BY <1>5, <1>6

\* With one more file in the hand.
SameOf(s, t, fs, gs, X, Y) ==
    s \notin Y =>
       /\ s \notin X
       /\ \A k \in DOMAIN t.got :
             t.got[k] \in DOMAIN gs => t.got[k] \in DOMAIN fs /\ gs[t.got[k]] = fs[t.got[k]]
HasPart(s, t, p, gs, Y) ==
    p \in Paths /\ (s \notin Y /\ p \in DOMAIN gs => gs[p].of = s /\ gs[p].part = t.part)
Takes(o, t, p, u) ==
    u.got = Append(t.got, p) /\ u.at \in {"fetch", "ready"} /\ TriedOf(o, u) = t.part

\* What is in the hand of whoever goes on is as it was, or it is known.
LEMMA HandStays ==
    ASSUME Mixing, NEW s \in DOMAIN job, try'[s].at \notin Empty
    PROVE  SameOf(s, try[s], files, files', mixed, mixed')
<1>1. \A k \in DOMAIN try[s].got : try[s].got[k] \in HandOf(try[s])
  BY DEF HandOf, ToSet
<1>. QED BY <1>1, Unmixed DEF SameOf

\* One more file is in hand.
LEMMA HeldMore ==
    ASSUME NEW s, NEW o, NEW t, NEW fs, NEW X, HasTried(s, t, fs, X), NEW gs, NEW Y,
           SameOf(s, t, fs, gs, X, Y), NEW p, HasPart(s, t, p, gs, Y), NEW u, Takes(o, t, p, u)
    PROVE  HeldBy(s, o, u, gs, Y) /\ HandOf(u) = ToSet(t.got) \cup {p}
<1>0. p \in Paths /\ u.got = Append(t.got, p) /\ u.at \in {"fetch", "ready"} /\ TriedOf(o, u) = t.part
  BY DEF HasPart, Takes
<1>1. PICK n \in Nat : n = Len(t.got) /\ DOMAIN t.got = 1 .. n
  BY DEF HasTried
<1>2. /\ Len(u.got) = n + 1 /\ DOMAIN u.got = 1 .. n + 1 /\ u.got[n + 1] = p
      /\ \A k \in 1 .. n : u.got[k] = t.got[k]
  BY <1>0, <1>1 DEF HasTried
<1>3. ToSet(u.got) = ToSet(t.got) \cup {p}
  <2>1. \A k \in DOMAIN u.got : k = n + 1 \/ k \in 1 .. n
    BY <1>1, <1>2
  <2>2. n + 1 \in DOMAIN u.got /\ \A k \in 1 .. n : k \in DOMAIN u.got
    BY <1>1, <1>2
  <2>. QED BY <1>1, <1>2, <2>1, <2>2 DEF ToSet
<1>4. HandOf(u) = ToSet(u.got)
  BY <1>0 DEF HandOf
<1>5. Len(u.got) <= TriedOf(o, u) /\ t.part \in Nat /\ (n + 1 = t.part => n = t.part - 1)
  BY <1>0, <1>1, <1>2 DEF HasTried
<1>6. ASSUME s \notin Y
      PROVE  Sound(s, o, u, gs)
  <2>1. \A k \in DOMAIN t.got :
           t.got[k] \in DOMAIN gs =>
              /\ t.got[k] \in DOMAIN fs /\ gs[t.got[k]] = fs[t.got[k]]
              /\ fs[t.got[k]].of = s
              /\ (Len(t.got) = t.part - 1 => fs[t.got[k]].part = k)
    BY <1>6 DEF SameOf, HasTried
  <2>2. p \in DOMAIN gs => gs[p].of = s /\ gs[p].part = t.part
    BY <1>6 DEF HasPart
  <2>3. \A q \in HandOf(u) : q \in DOMAIN gs => gs[q].of = s
    <3>1. \A q \in HandOf(u) : q = p \/ \E k \in DOMAIN t.got : q = t.got[k]
      BY <1>3, <1>4 DEF ToSet
    <3>. QED BY <2>1, <2>2, <3>1
  <2>4. ASSUME NEW k \in DOMAIN u.got, Len(u.got) = TriedOf(o, u), u.got[k] \in DOMAIN gs
        PROVE  gs[u.got[k]].part = k
    <3>1. CASE k = n + 1
      BY <1>0, <1>2, <2>2, <2>4, <3>1
    <3>2. CASE k \in 1 .. n
      <4>1. Len(t.got) = t.part - 1
        BY <1>0, <1>1, <1>2, <1>5, <2>4
      <4>. QED BY <1>1, <1>2, <2>1, <2>4, <3>2, <4>1
    <3>. QED BY <1>1, <1>2, <3>1, <3>2
  <2>5. u.at # "rewrite"
    BY <1>0
  <2>. QED BY <2>3, <2>4, <2>5 DEF Sound
<1>7. HeldBy(s, o, u, gs, Y)
  BY <1>0, <1>5, <1>6 DEF HeldBy, Loading
<1>. QED BY <1>3, <1>4, <1>7

\* One part is downloaded.
LEMMA FetchKeeps ==
    ASSUME SendInv, Mixing, NEW s \in DOMAIN job, Fetch(s)
    PROVE  SendInv'
<1>. PICK o : o = job[s].order
  OBVIOUS
<1>. PICK t : t = try[s]
  OBVIOUS
<1>. PICK name : name = o.names[t.part]
  OBVIOUS
<1>. PICK path : path = Downloaded(name)
  OBVIOUS
<1>. PICK own : own = Body(s, t.part, "plain")
  OBVIOUS
<1>0. /\ JobsOK /\ WaysFit /\ ChatOK /\ Stands /\ FilesOK /\ FilesHeld
  BY DEF SendInv
<1>1. FetchPoint(t) /\ t.at # "rewrite" /\ job' = job /\ chat' = chat
  BY DEF Fetch, FetchPoint
<1>2. /\ HasTried(s, t, files, mixed) /\ WayFits(o, t.way) /\ t.way \in Uploading /\ t.at \in Before
      /\ HandOf(t) = ToSet(t.got)
  BY <1>1, FetchHas
<1>3. Fit(s, t) /\ t.got \in Seq(Paths) /\ t.part \in DOMAIN o.parts
  BY <1>0, TryNow DEF Fit, TryType
<1>4. t.part \in Nat /\ name \in STRING
  BY <1>0, <1>3, OrderIs
<1>5. path \in Paths /\ path \notin DOMAIN files /\ path[2] = name
  BY <1>0, <1>4, FreshName
<1>6. own \in Bodies /\ own.of = s /\ own.part = t.part
  BY <1>0, <1>4, BodyIs DEF Looks
<1>7. FileOK(path, own, job)
  BY <1>3, <1>5, <1>6 DEF FileOK
\* The tail that all outcomes share.
<1>8. ASSUME NEW u, Fit(s, u), Becomes(s, u), u.at \in Before, u.ids = try[s].ids
      PROVE  Stands' /\ ChatOK' /\ Proceeds(s, u) /\ job'[s].leaked = job[s].leaked
  BY <1>0, <1>1, <1>2, <1>8, NoneGoes
<1>9. ASSUME NEW p \in Paths, NEW b, files' = Written(p, b), FileOK(p, b, job), b.of = s,
             b.part = t.part, Becomes(s, NextPart(s, Append(t.got, p)))
      PROVE  SendInv'
  <2>. DEFINE u == NextPart(s, Append(t.got, p))
  <2>1. Append(t.got, p) \in Seq(Paths)
    BY <1>3
  <2>2. /\ Fit(s, u) /\ u.got = Append(t.got, p) /\ u.ids = try[s].ids /\ u.at \in {"fetch", "ready"}
        /\ TriedOf(o, u) = t.part
    BY <1>1, <2>1, NextFits
  <2>3. Becomes(s, u)
    BY <1>9
  <2>. HIDE DEF u
  <2>4. Stands' /\ ChatOK' /\ Proceeds(s, u)
    BY <1>8, <2>2, <2>3 DEF Before, Loading
  <2>5. p \in DOMAIN files' /\ files'[p] = b
    BY <1>9 DEF Written
  <2>6. SameOf(s, t, files, files', mixed, mixed')
    <3>1. try'[s] = u
      BY <1>0, <2>4, Going
    <3>2. try'[s].at \notin Empty
      BY <2>2, <3>1 DEF Empty
    <3>. QED BY <3>2, HandStays
  <2>7. HeldBy(s, o, u, files', mixed') /\ HandOf(u) = ToSet(t.got) \cup {p}
    <3>1. PICK gs, Y : gs = files' /\ Y = mixed'
      OBVIOUS
    <3>2. HasPart(s, t, p, gs, Y)
      BY <1>9, <2>5, <3>1 DEF HasPart
    <3>3. SameOf(s, t, files, gs, mixed, Y)
      BY <2>6, <3>1
    <3>4. Takes(o, t, p, u)
      BY <2>2 DEF Takes
    <3>5. HeldBy(s, o, u, gs, Y) /\ HandOf(u) = ToSet(t.got) \cup {p}
      BY <1>2, <3>2, <3>3, <3>4, HeldMore
    <3>. QED BY <3>1, <3>5
  <2>8. FilesOK' /\ FilesHeld'
    BY <1>0, <1>2, <1>9, <2>4, <2>7, FileWritten
  <2>. QED BY <2>4, <2>8, InvGoes
<1>10. CASE t.way = "tag" /\ files' = Written(path, own)
            /\ Becomes(s, [t EXCEPT !.at = "rewrite", !.src = path])
  <2>. DEFINE u == [t EXCEPT !.at = "rewrite", !.src = path]
  <2>1. /\ u \in TryType /\ u.at = "rewrite" /\ u.src = path /\ u.got = t.got /\ u.ids = t.ids
        /\ u.part = t.part /\ u.unit = t.unit /\ u.way = t.way
    BY <1>3, <1>5 DEF Fit, TryType, Points
  <2>2. Becomes(s, u)
    BY <1>10
  <2>. HIDE DEF u
  <2>3. Fit(s, u)
    BY <1>2, <1>3, <1>10, <2>1 DEF Fit, TryFits, Loading
  <2>4. Stands' /\ ChatOK' /\ Proceeds(s, u)
    BY <1>8, <2>1, <2>2, <2>3 DEF Before, Loading
  <2>5. path \in DOMAIN files' /\ files'[path] = own
    BY <1>10 DEF Written
  <2>6. HandOf(u) = HandOf(try[s]) \cup {path}
    BY <1>2, <2>1 DEF HandOf
  <2>7. TriedOf(o, u) = t.part - 1
    BY <2>1 DEF TriedOf
  <2>8. SameOf(s, t, files, files', mixed, mixed')
    <3>1. try'[s] = u
      BY <1>0, <2>4, Going
    <3>2. try'[s].at \notin Empty
      BY <2>1, <3>1 DEF Empty
    <3>. QED BY <3>2, HandStays
  <2>9. path[1] = ""
    BY DEF Downloaded
  <2>10. HeldBy(s, o, u, files', mixed')
    <3>1. ASSUME s \notin mixed'
          PROVE  Sound(s, o, u, files')
      <4>1. \A k \in DOMAIN t.got :
               t.got[k] \in DOMAIN files' =>
                  /\ files'[t.got[k]].of = s
                  /\ Len(t.got) = t.part - 1 => files'[t.got[k]].part = k
        BY <1>2, <2>8, <3>1 DEF HasTried, SameOf
      <4>2. \A p \in HandOf(u) : p \in DOMAIN files' => files'[p].of = s
        BY <1>2, <1>6, <2>5, <2>6, <4>1 DEF ToSet
      <4>. QED BY <1>6, <2>1, <2>5, <2>7, <4>1, <4>2 DEF Sound
    <3>2. Len(u.got) <= TriedOf(o, u)
      BY <1>2, <2>1, <2>7 DEF HasTried
    <3>. QED BY <1>5, <2>1, <2>9, <3>1, <3>2 DEF HeldBy, Loading
  <2>11. FilesOK' /\ FilesHeld'
    BY <1>0, <1>5, <1>6, <1>7, <1>10, <2>4, <2>6, <2>10, FileWritten
  <2>. QED BY <2>4, <2>11, InvGoes
<1>11. CASE files' = Written(path, own) /\ Becomes(s, NextPart(s, Append(t.got, path)))
  BY <1>5, <1>6, <1>7, <1>9, <1>11
<1>12. CASE t.way = "mark" /\ files' = Written(Marked(path), [own EXCEPT !.look = "marked"])
            /\ Becomes(s, NextPart(s, Append(t.got, Marked(path))))
  <2>. DEFINE p == Marked(path)
              b == [own EXCEPT !.look = "marked"]
  <2>1. p \in Paths
    BY <1>5 DEF Marked, Paths
  <2>2. b \in Bodies /\ b.of = s /\ b.part = t.part
    BY <1>6 DEF Bodies
  <2>3. FileOK(p, b, job)
    <3>. HIDE DEF p, b
    <3>. QED BY <1>3, <2>1, <2>2 DEF FileOK
  <2>4. files' = Written(p, b) /\ Becomes(s, NextPart(s, Append(t.got, p)))
    BY <1>12
  <2>. HIDE DEF p, b
  <2>. QED BY <1>9, <2>1, <2>2, <2>3, <2>4
<1>13. CASE Becomes(s, NextPart(s, t.got)) /\ files' = files
  <2>. DEFINE u == NextPart(s, t.got)
  <2>1. /\ Fit(s, u) /\ u.got = t.got /\ u.ids = try[s].ids /\ u.at \in {"fetch", "ready"}
        /\ TriedOf(o, u) = t.part
    BY <1>1, <1>3, NextFits
  <2>2. Becomes(s, u)
    BY <1>13
  <2>. HIDE DEF u
  <2>3. Stands' /\ ChatOK' /\ Proceeds(s, u)
    BY <1>8, <2>1, <2>2 DEF Before, Loading
  <2>4. HandOf(u) = HandOf(try[s])
    BY <1>2, <2>1 DEF HandOf
  <2>5. HeldBy(s, o, u, files, mixed)
    <3>1. PICK n \in Nat : n = Len(t.got)
      BY <1>3
    <3>2. n <= t.part - 1 /\ n <= t.part /\ n # t.part
      BY <1>2, <3>1 DEF HasTried
    <3>3. s \notin mixed => \A p \in HandOf(u) : p \in DOMAIN files => files[p].of = s
      BY <1>2, <2>4 DEF HasTried, ToSet
    <3>. QED BY <2>1, <3>1, <3>2, <3>3 DEF HeldBy, Sound, Loading
  <2>6. FilesOK' /\ FilesHeld'
    BY <1>0, <1>13, <2>3, <2>4, <2>5, FilesSame
  <2>. QED BY <2>3, <2>6, InvGoes
<1>14. ASSUME NEW e \in Errors, Becomes(s, [Raised(s, e) EXCEPT !.got = <<>>]),
              Unlinked(ToSet(t.got))
       PROVE  SendInv'
  <2>. DEFINE r == Raised(s, e)
              u == [r EXCEPT !.got = <<>>]
  <2>1. Fit(s, r) /\ r.at = "caught" /\ r.ids = try[s].ids
    BY <1>0, RaisedFits DEF Mistakes
  <2>. HIDE DEF r
  <2>2. Fit(s, u) /\ u.at = r.at /\ u.ids = r.ids /\ u.got = <<>>
    BY <2>1, Discards
  <2>3. Becomes(s, u)
    BY <1>14 DEF r
  <2>. HIDE DEF u
  <2>4. Stands' /\ ChatOK' /\ Proceeds(s, u)
    BY <1>8, <2>1, <2>2, <2>3 DEF Before
  <2>5. FilesOK' /\ FilesHeld'
    BY <1>0, <1>1, <1>14, <2>1, <2>2, <2>4, FilesDropped DEF Loading
  <2>. QED BY <2>4, <2>5, InvGoes
<1>. QED BY <1>10, <1>11, <1>12, <1>13, <1>14 DEF Fetch

\* What a coroutine holds when a file was rewritten, or stayed as it was.
RewrittenTo(s, got, tagged, u) == u = [NextPart(s, got) EXCEPT !.src = <<>>, !.tagged = tagged]

\* What the coroutine holds after a rewrite fits, and is what it had and the file.
LEMMA Rewritten ==
    ASSUME SendInv, NEW s \in DOMAIN job, FetchPoint(try[s]), NEW got \in Seq(Paths),
           NEW tagged \in BOOLEAN, NEW u, RewrittenTo(s, got, tagged, u)
    PROVE  /\ Fit(s, u) /\ u.got = got /\ u.ids = try[s].ids /\ u.at \in {"fetch", "ready"}
           /\ TriedOf(job[s].order, u) = try[s].part
<1>. DEFINE r == NextPart(s, got)
            none == <<>>
<1>1. /\ Fit(s, r) /\ r.got = got /\ r.ids = try[s].ids /\ r.at \in {"fetch", "ready"}
      /\ TriedOf(job[s].order, r) = try[s].part
  BY NextFits
<1>2. none \in {<<>>} /\ u = [r EXCEPT !.src = none, !.tagged = tagged]
  BY DEF RewrittenTo
<1>. HIDE DEF r, none
<1>3. /\ u \in TryType /\ u.at = r.at /\ u.got = r.got /\ u.ids = r.ids /\ u.part = r.part
      /\ u.unit = r.unit /\ u.way = r.way
  BY <1>1, <1>2 DEF Fit, TryType
<1>4. TriedOf(job[s].order, u) = TriedOf(job[s].order, r)
  BY <1>3 DEF TriedOf
<1>5. Fit(s, u)
  BY <1>1, <1>3 DEF Fit, TryFits
<1>. QED BY <1>1, <1>3, <1>4, <1>5

\* docedit.rewrite_file: the rewritten file in place of its source, or the source.
LEMMA RewriteKeeps ==
    ASSUME SendInv, Mixing, NEW s \in DOMAIN job, Rewrite(s)
    PROVE  SendInv'
<1>. PICK o : o = job[s].order
  OBVIOUS
<1>. PICK t : t = try[s]
  OBVIOUS
<1>. PICK src : src = t.src
  OBVIOUS
<1>. PICK new : new = Tagged(src, o)
  OBVIOUS
<1>. PICK b : b = Body(s, t.part, "tagged")
  OBVIOUS
<1>0. /\ JobsOK /\ WaysFit /\ ChatOK /\ Stands /\ FilesOK /\ FilesHeld
  BY DEF SendInv
<1>1. FetchPoint(t) /\ t.at = "rewrite" /\ job' = job /\ chat' = chat
  BY DEF Rewrite, FetchPoint
<1>2. HasTried(s, t, files, mixed) /\ WayFits(o, t.way) /\ t.at \in Before
  BY <1>1, FetchHas
<1>3. /\ Fit(s, t) /\ t.got \in Seq(Paths) /\ t.part \in DOMAIN o.parts /\ t.way = "tag"
      /\ HeldBy(s, o, t, files, mixed)
  BY <1>0, <1>1, TryNow DEF Fit, TryType, TryFits, FilesHeld
<1>4. t.part \in Nat
  BY <1>0, <1>3, OrderIs
<1>5. HandOf(t) = ToSet(t.got) \cup {src}
  BY <1>1 DEF HandOf
<1>6. src \in Paths
  BY <1>1, <1>3 DEF HeldBy
<1>7. s \notin mixed /\ src \in DOMAIN files => files[src].of = s /\ files[src].part = t.part
  BY <1>1, <1>3, <1>5 DEF HeldBy, Sound
<1>8. new \in Paths /\ new # src
  <2>1. PICK name \in STRING, n \in Nat : new = <<"tagged", name, n>>
    <3>1. src[2] \in STRING /\ src[3] \in Nat
      BY <1>6 DEF Paths
    <3>2. CASE o.byTag
      <4>1. new = <<"tagged", o.tag, 0>> /\ o.tag \in STRING
        BY <1>0, <3>2, OrderIs DEF Tagged
      <4>. QED BY <4>1
    <3>3. CASE ~o.byTag
      <4>1. new = <<"tagged", src[2], src[3]>>
        BY <3>3 DEF Tagged
      <4>. QED BY <3>1, <4>1
    <3>. QED BY <3>2, <3>3
  <2>2. new \in Paths
    <3>1. <<"tagged", name, n>> \in Paths
      BY DEF Paths
    <3>. QED BY <2>1, <3>1
  <2>3. new[1] = "tagged"
    BY <2>1
  <2>4. src[1] = ""
    BY <1>1, <1>3 DEF HeldBy
  <2>. QED BY <2>2, <2>3, <2>4
<1>9. b \in Bodies /\ b.of = s /\ b.part = t.part
  BY <1>0, <1>4, BodyIs DEF Looks
<1>10. FileOK(new, b, job)
  BY <1>3, <1>8, <1>9 DEF FileOK
<1>11. ASSUME NEW u, Fit(s, u), Becomes(s, u), u.at \in {"fetch", "ready"}, u.ids = try[s].ids
       PROVE  Stands' /\ ChatOK' /\ Proceeds(s, u)
  BY <1>0, <1>1, <1>2, <1>11, NoneGoes DEF Before, Loading
<1>12. ASSUME NEW u, u = [NextPart(s, Append(t.got, new)) EXCEPT !.src = <<>>, !.tagged = TRUE],
              Becomes(s, u),
              files' = Restrict(Written(new, b), DOMAIN Written(new, b) \ {src})
       PROVE  SendInv'
  <2>1. Append(t.got, new) \in Seq(Paths)
    BY <1>3, <1>8
  <2>2. /\ Fit(s, u) /\ u.got = Append(t.got, new) /\ u.ids = try[s].ids
        /\ u.at \in {"fetch", "ready"} /\ TriedOf(o, u) = t.part
    <3>1. PICK got \in Seq(Paths), tagged \in BOOLEAN : got = Append(t.got, new) /\ tagged = TRUE
      BY <2>1
    <3>2. RewrittenTo(s, got, tagged, u)
      BY <1>12, <3>1 DEF RewrittenTo
    <3>3. FetchPoint(try[s])
      BY <1>1
    <3>4. /\ Fit(s, u) /\ u.got = got /\ u.ids = try[s].ids /\ u.at \in {"fetch", "ready"}
          /\ TriedOf(job[s].order, u) = try[s].part
      BY <3>2, <3>3, Rewritten
    <3>. QED BY <3>1, <3>4
  <2>3. Stands' /\ ChatOK' /\ Proceeds(s, u)
    BY <1>11, <1>12, <2>2
  <2>4. /\ DOMAIN files' = (DOMAIN files \cup {new}) \ {src} /\ files'[new] = b
        /\ \A q \in DOMAIN files : q # new /\ q # src => q \in DOMAIN files' /\ files'[q] = files[q]
        /\ files' = [q \in DOMAIN files' |-> files'[q]]
    BY <1>8, <1>12 DEF Written, Restrict
  <2>5. HeldBy(s, o, u, files', mixed') /\ HandOf(u) = ToSet(t.got) \cup {new}
    <3>1. PICK gs, Y : gs = files' /\ Y = mixed'
      OBVIOUS
    <3>2. HasPart(s, t, new, gs, Y)
      BY <1>8, <1>9, <2>4, <3>1 DEF HasPart
    <3>3. SameOf(s, t, files, gs, mixed, Y)
      <4>1. try'[s] = u
        BY <1>0, <2>3, Going
      <4>2. try'[s].at \notin Empty
        BY <2>2, <4>1 DEF Empty
      <4>. QED BY <3>1, <4>2, HandStays
    <3>4. Takes(o, t, new, u)
      BY <2>2 DEF Takes
    <3>5. HeldBy(s, o, u, gs, Y) /\ HandOf(u) = ToSet(t.got) \cup {new}
      BY <1>2, <3>2, <3>3, <3>4, HeldMore
    <3>. QED BY <3>1, <3>5
  <2>6. JobStays(s)
    BY <2>3 DEF Proceeds
  <2>7. FilesOK'
    <3>1. IsFiniteSet(DOMAIN files')
      <4>1. IsFiniteSet(DOMAIN files \cup {new})
        BY <1>0, FS_AddElement DEF FilesOK
      <4>. QED BY <2>4, <4>1, FS_Subset
    <3>2. \A q \in DOMAIN files' : FileOK(q, files'[q], job')
      <4>. SUFFICES ASSUME NEW q \in DOMAIN files' PROVE FileOK(q, files'[q], job)
        BY <2>6, PostsStay
      <4>. QED BY <1>0, <1>10, <2>4 DEF FilesOK
    <3>. QED BY <2>4, <3>1, <3>2 DEF FilesOK
  <2>8. \A q \in DOMAIN files' : files'[q].of = s => job'[s].leaked \/ q \in HandOf(u)
    <3>. SUFFICES ASSUME NEW q \in DOMAIN files', files'[q].of = s, q # new
                  PROVE  job'[s].leaked \/ q \in HandOf(u)
      BY <2>5
    <3>1. q \in DOMAIN files /\ q # src /\ files[q].of = s
      BY <2>4
    <3>2. job[s].leaked \/ q \in HandOf(t)
      BY <1>0, <3>1 DEF FilesHeld
    <3>. QED BY <1>5, <2>5, <2>6, <3>1, <3>2 DEF JobStays
  <2>9. \A q \in DOMAIN files' : files'[q].of # s => q \in DOMAIN files /\ files[q] = files'[q]
    BY <1>9, <2>4
  <2>10. FilesHeld'
    BY <1>0, <2>3, <2>5, <2>7, <2>8, <2>9, FilesGo
  <2>. QED BY <2>3, <2>7, <2>10, InvGoes
<1>13. ASSUME NEW u, u = [NextPart(s, Append(t.got, src)) EXCEPT !.src = <<>>, !.tagged = t.tagged],
              Becomes(s, u), files' = files
       PROVE  SendInv'
  <2>1. Append(t.got, src) \in Seq(Paths) /\ t.tagged \in BOOLEAN
    BY <1>3, <1>6 DEF Fit, TryType
  <2>2. /\ Fit(s, u) /\ u.got = Append(t.got, src) /\ u.ids = try[s].ids
        /\ u.at \in {"fetch", "ready"} /\ TriedOf(o, u) = t.part
    <3>1. PICK got \in Seq(Paths), tagged \in BOOLEAN : got = Append(t.got, src) /\ tagged = t.tagged
      BY <2>1
    <3>2. RewrittenTo(s, got, tagged, u)
      BY <1>13, <3>1 DEF RewrittenTo
    <3>3. FetchPoint(try[s])
      BY <1>1
    <3>4. /\ Fit(s, u) /\ u.got = got /\ u.ids = try[s].ids /\ u.at \in {"fetch", "ready"}
          /\ TriedOf(job[s].order, u) = try[s].part
      BY <3>2, <3>3, Rewritten
    <3>. QED BY <3>1, <3>4
  <2>3. Stands' /\ ChatOK' /\ Proceeds(s, u)
    BY <1>11, <1>13, <2>2
  <2>4. HeldBy(s, o, u, files, mixed) /\ HandOf(u) = ToSet(t.got) \cup {src}
    <3>1. HasPart(s, t, src, files, mixed)
      BY <1>6, <1>7 DEF HasPart
    <3>2. SameOf(s, t, files, files, mixed, mixed)
      BY DEF SameOf
    <3>3. Takes(o, t, src, u)
      BY <2>2 DEF Takes
    <3>. QED BY <1>2, <3>1, <3>2, <3>3, HeldMore
  <2>5. FilesOK' /\ FilesHeld'
    BY <1>0, <1>5, <1>13, <2>3, <2>4, FilesSame
  <2>. QED BY <2>3, <2>5, InvGoes
<1>14. [NextPart(s, Append(t.got, src)) EXCEPT !.src = <<>>]
          = [NextPart(s, Append(t.got, src)) EXCEPT !.src = <<>>, !.tagged = t.tagged]
  <2>. DEFINE r == NextPart(s, Append(t.got, src))
  <2>1. Append(t.got, src) \in Seq(Paths)
    BY <1>3, <1>6
  <2>2. r \in TryType
    BY <1>1, <2>1, NextFits DEF Fit
  <2>3. r.tagged = t.tagged
    BY <1>3 DEF NextPart, Fit, TryType
  <2>. HIDE DEF r
  <2>4. [r EXCEPT !.src = <<>>] = [r EXCEPT !.src = <<>>, !.tagged = r.tagged]
    BY <2>2 DEF TryType
  <2>. QED BY <2>3, <2>4 DEF r
<1>15. \/ /\ files' = Restrict(Written(new, b), DOMAIN Written(new, b) \ {src})
          /\ Becomes(s, [NextPart(s, Append(t.got, new)) EXCEPT !.src = <<>>, !.tagged = TRUE])
       \/ /\ files' = files
          /\ Becomes(s, [NextPart(s, Append(t.got, src)) EXCEPT !.src = <<>>])
  BY DEF Rewrite
<1>. QED BY <1>12, <1>13, <1>14, <1>15

-----------------------------------------------------------------------------
\* The first state: nothing is tried, downloaded or sent.
LEMMA SendBegins ==
    ASSUME SendInit
    PROVE  SendInv
<1>. DEFINE FirstJob(o) == [order |-> o, tries |-> 1, made |-> 0, row |-> <<>>, slipped |-> FALSE,
                         leaked |-> FALSE]
<1>1. PICK batch \in Batches : /\ job = [s \in DOMAIN batch |-> FirstJob(batch[s])]
                               /\ try = [s \in DOMAIN batch |-> Untried]
  BY DEF SendInit
<1>2. files = <<>> /\ chat = {}
  BY DEF SendInit
<1>3. /\ batch = [s \in DOMAIN batch |-> batch[s]]
      /\ \A s \in DOMAIN batch : s \in Sendings /\ IsOrder(batch[s])
  BY SendWaysAssumption
<1>4. \A o : IsOrder(o) => /\ FirstJob(o) \in JobType /\ FirstJob(o).order = o /\ FirstJob(o).row = <<>>
                           /\ FirstJob(o).slipped = FALSE
  <2>. SUFFICES ASSUME NEW o, IsOrder(o)
                PROVE  /\ FirstJob(o) \in JobType /\ FirstJob(o).order = o /\ FirstJob(o).row = <<>>
                       /\ FirstJob(o).slipped = FALSE
    OBVIOUS
  <2>. DEFINE none == <<>>
              r == [order |-> o, tries |-> 1, made |-> 0, row |-> none, slipped |-> FALSE,
                    leaked |-> FALSE]
  <2>1. o \in Order /\ none \in IdLists
    BY NoIds DEF IsOrder
  <2>2. FirstJob(o) = r
    OBVIOUS
  <2>. HIDE DEF none, FirstJob
  <2>3. r \in JobType /\ r.order = o /\ r.row = none /\ r.slipped = FALSE
    BY <2>1 DEF JobType
  <2>. HIDE DEF r
  <2>. QED BY <2>2, <2>3 DEF none
<1>. HIDE DEF FirstJob
<1>5. /\ DOMAIN job = DOMAIN batch /\ job \in [DOMAIN job -> JobType]
      /\ \A s \in DOMAIN job : /\ IsOrder(job[s].order) /\ job[s].order = batch[s]
                               /\ job[s].row = <<>> /\ try[s] = Untried
  BY <1>1, <1>3, <1>4
<1>6. JobsOK
  <2>1. DOMAIN job \subseteq Sendings
    BY <1>3, <1>5
  <2>2. try \in [DOMAIN job -> TryType]
    BY <1>1, <1>5, UntriedFits
  <2>3. \A s \in DOMAIN job : IsOrder(job[s].order) /\ try[s].part \in DOMAIN job[s].order.parts
    BY <1>5, UntriedFits
  <2>. QED BY <1>5, <2>1, <2>2, <2>3 DEF JobsOK
<1>7. WaysFit
  BY <1>5, UntriedFits DEF WaysFit
<1>8. DOMAIN files = {} /\ FilesOK
  <2>1. DOMAIN files = {}
    BY <1>2
  <2>2. files = [p \in DOMAIN files |-> files[p]]
    BY <1>2
  <2>. QED BY <2>1, <2>2, FS_EmptySet DEF FilesOK
<1>9. FilesHeld
  <2>. SUFFICES ASSUME NEW s \in DOMAIN job PROVE HeldBy(s, job[s].order, try[s], files, mixed)
    BY <1>8 DEF FilesHeld
  <2>1. try[s].at = "reserve" /\ try[s].got = <<>>
    BY <1>5, UntriedFits
  <2>. QED BY <2>1, HeldNone DEF Loading
<1>10. ChatOK /\ \A s : Standing(s) = {}
  BY <1>2 DEF ChatOK, Standing
<1>11. Stands
  <2>. SUFFICES ASSUME NEW s \in DOMAIN job
                PROVE  /\ StandsFor(s, job[s].order, job[s].row, try[s], Standing(s), mixed)
                       /\ Paid(job[s].row, try[s])
    BY DEF Stands
  <2>1. try[s].at = "reserve" /\ try[s].ids = <<>> /\ job[s].row = <<>>
    BY <1>5, UntriedFits
  <2>. QED BY <1>10, <2>1 DEF StandsFor, Paid, Loading
<1>. QED BY <1>6, <1>7, <1>8, <1>9, <1>10, <1>11 DEF SendInv

\* Every step of a sending keeps the invariant.
LEMMA SendSteps ==
    ASSUME SendInv, [SendNext]_ways
    PROVE  SendInv'
<1>1. CASE UNCHANGED ways
  <2>1. job' = job /\ try' = try /\ files' = files /\ chat' = chat /\ mixed' = mixed
    BY <1>1 DEF ways
  <2>2. JobsOK' /\ WaysFit'
    BY <2>1 DEF SendInv, JobsOK, WaysFit
  <2>3. FilesOK' /\ FilesHeld'
    BY <2>1 DEF SendInv, FilesOK, FilesHeld
  <2>4. ChatOK' /\ Stands'
    BY <2>1 DEF SendInv, ChatOK, Stands, Standing
  <2>. QED BY <2>2, <2>3, <2>4 DEF SendInv
<1>2. ASSUME Mixing, NEW s \in DOMAIN job, SendStep(s)
      PROVE  SendInv'
  BY <1>2, ReserveKeeps, SendTextKeeps, UnsendableKeeps, SendPollKeeps, ForwardPostKeeps,
     ForwardOpaqueKeeps, SendDirectKeeps, SetCaptionKeeps, DeleteQuietlyKeeps, FetchKeeps,
     RewriteKeeps, UploadKeeps, UnfinishedKeeps, RememberKeeps, CaughtKeeps, AgainKeeps,
     StopSendingKeeps DEF SendStep
<1>. QED BY <1>1, <1>2 DEF SendNext

\* What the invariant says of a sending that rests, of the captions and of what is held.
LEMMA SentInv ==
    ASSUME SendInv
    PROVE  SentWhole
<1>0. JobsOK /\ FilesOK /\ ChatOK /\ FilesHeld /\ Stands
  BY DEF SendInv
<1>1. WholeOrNone
  <2>. SUFFICES ASSUME NEW s \in DOMAIN job, try[s].at = "rest", ~job[s].slipped
                PROVE  IF job[s].row = <<>> THEN Standing(s) = {}
                       ELSE WholePost(s) /\ IdsOf(Standing(s)) = ToSet(job[s].row)
    BY DEF WholeOrNone, AtRest, IdsOf
  <2>1. StandsFor(s, job[s].order, job[s].row, try[s], Standing(s), mixed)
    BY <1>0 DEF Stands
  <2>. QED BY <2>1, WholeIs DEF StandsFor
<1>2. CaptionKept
  BY <1>0 DEF CaptionKept, ChatOK, MessageOK, Forwarded
<1>3. \A s \in DOMAIN job : AtRest(s) /\ try[s].unit => job[s].row # <<>> \/ try[s].error = "cancelled"
  BY <1>0 DEF Stands, Paid, AtRest
<1>4. ASSUME NEW p \in DOMAIN files, AtRest(files[p].of)
      PROVE  job[files[p].of].leaked
  <2>. PICK s : s = files[p].of
    OBVIOUS
  <2>1. s \in DOMAIN job /\ try[s].at = "rest"
    BY <1>0, <1>4 DEF FilesOK, FileOK, AtRest
  <2>2. HeldBy(s, job[s].order, try[s], files, mixed)
    BY <1>0, <2>1 DEF FilesHeld
  <2>3. try[s].got = <<>>
    BY <2>1, <2>2 DEF HeldBy, Loading
  <2>4. HandOf(try[s]) = {}
    BY <2>1, <2>3, NoIds DEF HandOf
  <2>. QED BY <1>0, <2>4 DEF FilesHeld
<1>5. NothingHeld
  BY <1>3, <1>4 DEF NothingHeld
<1>. QED BY <1>1, <1>2, <1>5 DEF SentWhole

\* A post stands as a whole, as its row says, or not at all (its content is sure where nothing was
\* written over its files); the source's caption never shows where it was to be replaced; and
\* whoever rests holds no unit of the plan for nothing and no file: Copier._send and what it calls.
THEOREM SentAsWhole == SendSpec => []SentWhole
<1>1. SendInit => SendInv
  BY SendBegins
<1>2. SendInv /\ [SendNext]_ways => SendInv'
  BY SendSteps
<1>3. SendInv => SentWhole
  BY SentInv
<1>. QED BY <1>1, <1>2, <1>3, PTL DEF SendSpec
=============================================================================
