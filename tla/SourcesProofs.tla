---------------------------- MODULE SourcesProofs ----------------------------
(***************************************************************************)
(* Proofs about the components between a source and the sender, the copy   *)
(* of old posts and its units among them, for every value of their         *)
(* constants:                                                              *)
(*                                                                         *)
(*   SnapshotTrue       the plan cache follows the table of tasks;         *)
(*   SettingsTrue       a change of one setting takes back no other;       *)
(*   FeedPostsOnce      a feed shows an item once, but for lost rows;      *)
(*   SlotsStayApart     the rows of one coroutine are a gap apart;         *)
(*   HandedOverInOrder  posts are processed once and in their order;       *)
(*   UnitsAccounted     what the counter of the plan's quota and the       *)
(*                      credits say is what the spenders took and kept;    *)
(*   HistoryAccounted   so it is when old posts are copied with them.      *)
(*                                                                         *)
(* TableInv and GapInv add to the property what the coroutines at work are *)
(* about to write.  FeedInv says, for every program counter of a check,    *)
(* which items it may still send, and why none of them was sent before.    *)
(* OrderInv orders the queue and the worker's place; Kept says where the   *)
(* album and its timer are, and that no message has two places before a    *)
(* timer is early.                                                         *)
(* Accounted is an equation with sums over the spenders, and SumLemmas has *)
(* what their totals do when one of them moves.  AccountInv adds that what *)
(* a spender has read is still so, that what it may take is still left,    *)
(* and that the quota the spenders hold is part of what the counter shows; *)
(* all of it as long as no two met on a counter (overlap).                 *)
(***************************************************************************)
EXTENDS Feeds, GapQueue, SourceQueue, History, SumLemmas

-----------------------------------------------------------------------------
(* TaskTable: the row of a task, its snapshot, and those who write and read it.*)

\* What get_task has read is the row, or it was overtaken by a commit.
FillFollows == \A r \in Readers : fill[r].pc = "store" => fill[r].copy = row \/ fill[r].late

\* What a handler is about to write back is what the row has, or it was overtaken.
SaveFollows ==
    \A e \in Editors : Editing(e, "save") =>
        edit[e].flag \in Flags /\ (edit[e].met \/ edit[e].cfg = row.cfg)

EditTypes == [pc : {"idle", "save", "invalidate"}, cfg : SUBSET Flags,
              flag : Flags \cup {"none"}, met : BOOLEAN]
FillTypes == [pc : {"idle", "store"}, copy : Snapshots \cup {NoSnapshot}, late : BOOLEAN]
Rows == [exists : BOOLEAN, on : BOOLEAN, cfg : SUBSET Flags, made : 1 .. MaxMade]

TableInv == TableTypeOK /\ SnapshotFollows /\ FillFollows /\ SettingsKept /\ SaveFollows

\* The invariant of the table holds at the start.
LEMMA TableBegins == TableInit => TableInv
<1> SUFFICES ASSUME TableInit PROVE TableInv
  OBVIOUS
<1>1. Row(TRUE, {}, 1) \in Rows /\ Ready \in EditTypes /\ Asking \in FillTypes
  BY MadeAssumption DEF Row, Rows, Ready, EditTypes, Asking, FillTypes
<1>2. TableTypeOK
  BY <1>1 DEF TableInit, TableTypeOK, Rows, EditTypes, FillTypes
<1>3. SnapshotFollows /\ FillFollows /\ SettingsKept /\ SaveFollows
  BY DEF TableInit, SnapshotFollows, FillFollows, SettingsKept, SaveFollows, Row, Ready,
         Asking, Editing
<1>. QED BY <1>2, <1>3 DEF TableInv

\* What a commit does to the fills and the handlers at work.
LEMMA WriteKeeps ==
    ASSUME TableInv, NEW e \in Editors, NEW new \in Rows,
           NEW step \in {"idle", "invalidate"}, Write(e, new, step)
    PROVE  /\ row' = new /\ edit' \in [Editors -> EditTypes] /\ fill' \in [Readers -> FillTypes]
           /\ edit'[e].pc = step
           /\ \A d \in Editors : d # e => edit'[d].pc = edit[d].pc
           /\ FillFollows' /\ SaveFollows'
<1>0. /\ edit \in [Editors -> EditTypes] /\ fill \in [Readers -> FillTypes] /\ row \in Rows
      /\ FillFollows /\ SaveFollows
  BY DEF TableInv, TableTypeOK, EditTypes, FillTypes, Rows
<1>1. ASSUME NEW d \in Editors
      PROVE  /\ edit'[d] \in EditTypes
             /\ d = e => edit'[d].pc = step
             /\ d # e => edit'[d].pc = edit[d].pc
             /\ d # e /\ edit[d].pc = "save" =>
                  edit'[d].flag \in Flags /\ (edit'[d].met \/ edit'[d].cfg = row'.cfg)
  <2>1. CASE d = e
    BY <2>1 DEF Write, Ready, EditTypes
  <2>2. CASE d # e
    <3> DEFINE m == edit[d].met \/ (edit[d].pc = "save" /\ [new EXCEPT !.on = row.on] # row)
    <3>1. edit'[d] = [edit[d] EXCEPT !.met = m] /\ m \in BOOLEAN
      BY <1>0, <2>2 DEF Write, EditTypes
    <3>m. m = (edit[d].met \/ (edit[d].pc = "save" /\ [new EXCEPT !.on = row.on] # row))
      OBVIOUS
    <3> HIDE DEF m
    <3>2. /\ edit'[d] \in EditTypes /\ edit'[d].pc = edit[d].pc /\ edit'[d].cfg = edit[d].cfg
          /\ edit'[d].flag = edit[d].flag /\ edit'[d].met = m
      BY <1>0, <3>1 DEF EditTypes
    <3>3. [new EXCEPT !.on = row.on] = row => new.cfg = row.cfg
      BY <1>0 DEF Rows
    <3>4. row' = new
      BY DEF Write
    <3>. QED BY <1>0, <2>2, <3>2, <3>3, <3>4, <3>m DEF SaveFollows, Editing
  <2>. QED BY <2>1, <2>2
<1>2. ASSUME NEW r \in Readers
      PROVE  fill'[r] \in FillTypes /\ (fill'[r].pc = "store" => fill'[r].late)
  <2>1. fill'[r] = [fill[r] EXCEPT !.late = fill[r].late \/ fill[r].pc = "store"]
    BY DEF Write
  <2>. QED BY <1>0, <2>1 DEF FillTypes
<1>3. DOMAIN edit' = Editors /\ DOMAIN fill' = Readers
  BY DEF Write
<1>4. edit' \in [Editors -> EditTypes] /\ fill' \in [Readers -> FillTypes]
  BY <1>1, <1>2, <1>3 DEF Write
<1>5. FillFollows'
  BY <1>2 DEF FillFollows
<1>6. SaveFollows'
  BY <1>1 DEF SaveFollows, Editing
<1>. QED BY <1>1, <1>4, <1>5, <1>6 DEF Write

\* Every commit of a handler that does not touch the settings keeps the invariant.
LEMMA EditKeeps ==
    ASSUME TableInv, NEW e \in Editors, EditNext(e)
    PROVE  TableInv'
<1>0. /\ edit \in [Editors -> EditTypes] /\ fill \in [Readers -> FillTypes] /\ row \in Rows
      /\ cache \in Snapshots \cup {NoSnapshot} /\ unsaid \in BOOLEAN
      /\ meant \subseteq Flags /\ mixed \subseteq Flags
      /\ SnapshotFollows /\ FillFollows /\ SettingsKept /\ SaveFollows
  BY DEF TableInv, TableTypeOK, EditTypes, FillTypes, Rows
<1>1. ASSUME NEW new \in Rows, NEW step \in {"idle", "invalidate"}, Write(e, new, step),
             UNCHANGED cache, (step = "invalidate" /\ unsaid' = unsaid) \/ Silently,
             meant' \subseteq Flags, mixed' \subseteq Flags, SettingsKept', edit[e].pc = "idle"
      PROVE  TableInv'
  <2>1. /\ row' = new /\ edit' \in [Editors -> EditTypes] /\ fill' \in [Readers -> FillTypes]
        /\ edit'[e].pc = step /\ FillFollows' /\ SaveFollows'
    BY <1>1, WriteKeeps
  <2>2. TableTypeOK'
    BY <1>0, <1>1, <2>1 DEF TableTypeOK, Rows, EditTypes, FillTypes, Silently
  <2>3. SnapshotFollows'
    BY <1>0, <1>1, <2>1 DEF SnapshotFollows, Silently, Editing
  <2>. QED BY <1>1, <2>1, <2>2, <2>3 DEF TableInv
<1>2. ASSUME NEW b \in BOOLEAN, row' = [row EXCEPT !.on = b] \/ row' = [row EXCEPT !.exists = FALSE],
             UNCHANGED <<meant, mixed>>
      PROVE  SettingsKept'
  BY <1>0, <1>2 DEF SettingsKept, Rows
<1>3. CASE SwitchInBot(e) \/ SwitchInApp(e)
  <2>1. [row EXCEPT !.on = ~row.on] \in Rows /\ (~row.on) \in BOOLEAN
    BY <1>0 DEF Rows
  <2>. QED BY <1>0, <1>1, <1>2, <1>3, <2>1
         DEF SwitchInBot, SwitchInApp, Write, Said, Unsaid, Editing
<1>4. CASE DeleteInBot(e) \/ DeleteInApp(e)
  <2>1. [row EXCEPT !.exists = FALSE] \in Rows
    BY <1>0 DEF Rows
  <2>. QED BY <1>0, <1>1, <1>2, <1>4, <2>1
         DEF DeleteInBot, DeleteInApp, Write, Said, Unsaid, Editing
<1>5. CASE Create(e)
  <2>1. Row(TRUE, {}, row.made + 1) \in Rows
    BY <1>0, <1>5, MadeAssumption DEF Create, Rows, Row
  <2>2. SettingsKept' /\ meant' \subseteq Flags /\ mixed' \subseteq Flags
    BY <1>5 DEF Create, SettingsKept, Write, Row
  <2>. QED BY <1>0, <1>1, <1>5, <2>1, <2>2 DEF Create, Unsaid, Editing
<1>6. CASE Invalidate(e)
  <2>1. Ready \in EditTypes
    BY DEF Ready, EditTypes
  <2>2. TableTypeOK'
    BY <1>0, <1>6, <2>1 DEF Invalidate, TableTypeOK, Rows, EditTypes, FillTypes
  <2>3. SnapshotFollows' /\ FillFollows' /\ SettingsKept'
    BY <1>0, <1>6 DEF Invalidate, SnapshotFollows, FillFollows, SettingsKept
  <2>4. SaveFollows'
    BY <1>0, <1>6 DEF Invalidate, SaveFollows, Editing, Ready
  <2>. QED BY <2>2, <2>3, <2>4 DEF TableInv
<1>. QED BY <1>3, <1>4, <1>5, <1>6 DEF EditNext

\* So does every change of a setting.
LEMMA SettingsStep ==
    ASSUME TableInv, NEW e \in Editors, SettingsNext(e)
    PROVE  TableInv'
<1>0. /\ edit \in [Editors -> EditTypes] /\ fill \in [Readers -> FillTypes] /\ row \in Rows
      /\ cache \in Snapshots \cup {NoSnapshot} /\ unsaid \in BOOLEAN
      /\ meant \subseteq Flags /\ mixed \subseteq Flags
      /\ SnapshotFollows /\ FillFollows /\ SettingsKept /\ SaveFollows
  BY DEF TableInv, TableTypeOK, EditTypes, FillTypes, Rows
<1>1. ASSUME NEW f \in Flags, ReadSettings(e, f)
      PROVE  TableInv'
  <2>1. [pc |-> "save", cfg |-> row.cfg, flag |-> f, met |-> FALSE] \in EditTypes
    BY <1>0 DEF EditTypes, Rows
  <2>2. TableTypeOK'
    BY <1>0, <1>1, <2>1 DEF ReadSettings, Current, TableTypeOK, Rows, EditTypes, FillTypes
  <2>3. FillFollows' /\ SettingsKept'
    BY <1>0, <1>1 DEF ReadSettings, FillFollows, SettingsKept
  <2>4. SnapshotFollows' /\ SaveFollows'
    BY <1>0, <1>1 DEF ReadSettings, Current, SaveFollows, Editing, SnapshotFollows
  <2>. QED BY <2>2, <2>3, <2>4 DEF TableInv
<1>2. CASE SaveSettings(e)
  <2> DEFINE f == edit[e].flag
             new == Toggled(f, edit[e].cfg)
  <2>1. f \in Flags /\ (edit[e].met \/ edit[e].cfg = row.cfg) /\ edit[e].pc = "save"
    BY <1>0, <1>2 DEF SaveSettings, SaveFollows, Editing
  <2>2. edit[e].cfg \subseteq Flags /\ new \subseteq Flags
    BY <1>0, <2>1 DEF EditTypes, Toggled
  <2>3. CASE row.exists
    <3>1. [row EXCEPT !.cfg = new] \in Rows
      BY <1>0, <2>2 DEF Rows
    <3>2. /\ Write(e, [row EXCEPT !.cfg = new], "invalidate")
          /\ meant' = IF f \in new THEN meant \cup {f} ELSE meant \ {f}
          /\ mixed' = IF edit[e].met THEN Flags \ {f} ELSE mixed \ {f}
          /\ UNCHANGED <<cache, unsaid>>
      BY <1>2, <2>3 DEF SaveSettings
    <3>3. /\ row' = [row EXCEPT !.cfg = new] /\ edit' \in [Editors -> EditTypes]
          /\ fill' \in [Readers -> FillTypes]
          /\ edit'[e].pc = "invalidate" /\ FillFollows' /\ SaveFollows'
      BY <3>1, <3>2, WriteKeeps
    <3>4. meant' \subseteq Flags /\ mixed' \subseteq Flags
      BY <1>0, <2>1, <3>2
    <3>5. TableTypeOK'
      BY <1>0, <3>1, <3>2, <3>3, <3>4 DEF TableTypeOK, Rows, EditTypes, FillTypes
    <3>6. SnapshotFollows'
      BY <3>3 DEF SnapshotFollows, Editing
    <3>7. SettingsKept'
      <4>1. row'.cfg = new
        BY <1>0, <3>3 DEF Rows
      <4> SUFFICES ASSUME NEW g \in Flags \ mixed' PROVE g \in new <=> g \in meant'
        BY <4>1 DEF SettingsKept
      <4>2. CASE g = f
        BY <3>2, <4>2
      <4>3. CASE g # f
        <5>1. ~edit[e].met /\ g \notin mixed
          BY <3>2, <4>3
        <5>2. g \in row.cfg <=> g \in meant
          BY <1>0, <2>3, <5>1 DEF SettingsKept
        <5>3. g \in new <=> g \in row.cfg
          BY <2>1, <4>3, <5>1 DEF Toggled
        <5>. QED BY <3>2, <4>3, <5>2, <5>3
      <4>. QED BY <4>2, <4>3
    <3>. QED BY <3>3, <3>5, <3>6, <3>7 DEF TableInv
  <2>4. CASE ~row.exists
    <3>1. Ready \in EditTypes
      BY DEF Ready, EditTypes
    <3>2. edit' = [edit EXCEPT ![e] = Ready] /\ UNCHANGED <<row, cache, fill, unsaid, meant, mixed>>
      BY <1>2, <2>4 DEF SaveSettings
    <3>3. TableTypeOK' /\ FillFollows' /\ SettingsKept'
      BY <1>0, <3>1, <3>2 DEF TableTypeOK, Rows, EditTypes, FillTypes, FillFollows, SettingsKept
    <3>4. SnapshotFollows' /\ SaveFollows'
      BY <1>0, <2>1, <3>2 DEF SnapshotFollows, SaveFollows, Editing, Ready
    <3>. QED BY <3>3, <3>4 DEF TableInv
  <2>. QED BY <2>3, <2>4
<1>. QED BY <1>1, <1>2 DEF SettingsNext

\* So does get_task.
LEMMA AskStep ==
    ASSUME TableInv, NEW r \in Readers, AskNext(r)
    PROVE  TableInv'
<1>0. /\ edit \in [Editors -> EditTypes] /\ fill \in [Readers -> FillTypes] /\ row \in Rows
      /\ cache \in Snapshots \cup {NoSnapshot} /\ unsaid \in BOOLEAN
      /\ meant \subseteq Flags /\ mixed \subseteq Flags
      /\ SnapshotFollows /\ FillFollows /\ SettingsKept /\ SaveFollows
  BY DEF TableInv, TableTypeOK, EditTypes, FillTypes, Rows
<1>1. Asking \in FillTypes
  BY DEF Asking, FillTypes
<1>2. CASE Miss(r)
  <2>1. row.exists => [pc |-> "store", copy |-> row, late |-> FALSE] \in FillTypes
    BY <1>0 DEF FillTypes, Rows, Snapshots
  <2>2. TableTypeOK'
    BY <1>0, <1>1, <1>2, <2>1 DEF Miss, TableTypeOK, Rows, EditTypes, FillTypes
  <2>3. SnapshotFollows' /\ SettingsKept' /\ SaveFollows'
    BY <1>0, <1>2 DEF Miss, SnapshotFollows, SettingsKept, SaveFollows, Editing
  <2>4. FillFollows'
    BY <1>0, <1>2 DEF Miss, FillFollows, Asking
  <2>. QED BY <2>2, <2>3, <2>4 DEF TableInv
<1>3. CASE Store(r)
  <2>1. TableTypeOK'
    BY <1>0, <1>1, <1>3 DEF Store, TableTypeOK, Rows, EditTypes, FillTypes
  <2>2. SnapshotFollows'
    BY <1>0, <1>3 DEF Store, SnapshotFollows, FillFollows
  <2>3. SettingsKept' /\ SaveFollows'
    BY <1>0, <1>3 DEF Store, SettingsKept, SaveFollows, Editing
  <2>4. FillFollows'
    BY <1>0, <1>3 DEF Store, FillFollows, Asking
  <2>. QED BY <2>1, <2>2, <2>3, <2>4 DEF TableInv
<1>. QED BY <1>2, <1>3 DEF AskNext

\* Every step of the table.
LEMMA TableStep == TableInv /\ [TableNext]_table => TableInv'
<1> SUFFICES ASSUME TableInv, [TableNext]_table PROVE TableInv'
  OBVIOUS
<1>1. CASE UNCHANGED table
  BY <1>1 DEF table, TableInv, TableTypeOK, SnapshotFollows, FillFollows, SettingsKept,
              SaveFollows, Editing
<1>. QED BY <1>1, EditKeeps, SettingsStep, AskStep DEF TableNext

\* The snapshot kept by services/cache.py is the row, but for a change that is about
\* to invalidate it, one that never does, and one that came while get_task was reading:
\* for any number of handlers, readers, settings and tasks under one id.
THEOREM SnapshotTrue == TableSpec => []SnapshotFollows
<1>1. TableInv => SnapshotFollows
  BY DEF TableInv
<1>. QED BY <1>1, TableBegins, TableStep, PTL DEF TableSpec

\* Every change of a setting writes all of them, and yet a setting is as its last
\* change meant it, unless two editors overlapped (cb_flag, got_value, task_settings).
THEOREM SettingsTrue == TableSpec => []SettingsKept
<1>1. TableInv => SettingsKept
  BY DEF TableInv
<1>. QED BY <1>1, TableBegins, TableStep, PTL DEF TableSpec

-----------------------------------------------------------------------------
(* Feeds: the worker of the feeds and an owner who changes the task meanwhile.*)

\* The steps of a check, from get_task's answer on.
Checking == w.pc \in {"fetch", "first", "mark", "keys", "next", "send", "remember"}

\* The tasks whose channels a check may still publish in.
Live ==
    {row.made} \cup (IF cache = NoSnapshot THEN {} ELSE {cache.made})
               \cup (IF fill[Worker].pc = "store" THEN {fill[Worker].copy.made} ELSE {})
               \cup (IF Checking THEN {w.snap.made} ELSE {})

FeedSteps == {"sleep", "ask", "fetch", "first", "mark", "keys", "next", "send", "remember"}
Checks == [pc : FeedSteps, snap : Snapshots \cup {NoSnapshot}, items : SUBSET Items,
           left : SUBSET Items, to : SUBSET Channels, chan : Channels \cup {"none"},
           made : 0 .. MaxMade]
Counts == [1 .. MaxMade -> [Items -> [Channels -> Nat]]]

FeedTypes ==
    /\ TableInv
    /\ top \in Int /\ before \in [1 .. MaxMade -> Int] /\ seen \subseteq Items
    /\ posted \in Counts /\ unrec \in Counts
    /\ w \in Checks
    /\ w.pc \in {"send", "remember"} => w.left # {}
    /\ At("remember") => w.chan \in Channels \ w.to

\* Snapshots are of tasks made so far, and a check's is the one that is kept, if one is.
SnapsKnown ==
    /\ cache = NoSnapshot \/ (cache \in Snapshots /\ cache.made <= row.made)
    /\ fill[Worker].pc = "store" =>
         fill[Worker].copy \in Snapshots /\ fill[Worker].copy.made <= row.made
    /\ Checking => /\ w.snap \in Snapshots /\ w.snap.made <= row.made
                   /\ fill[Worker].pc = "idle"
                   /\ cache = NoSnapshot \/ cache = w.snap
    /\ w.made <= row.made

\* Tasks are made one after the other, and nothing is published before its time.
InTurn ==
    /\ row.exists \/ seen = {}
    /\ before[row.made] <= top
    /\ \A m \in 1 .. row.made : before[m] <= before[row.made]
    /\ \A m \in 1 .. MaxMade, i \in Items, d \in Channels :
         posted[m][i][d] > 0 => i <= top /\ m <= row.made

InHand(m, i, d) == At("remember") /\ w.snap.made = m /\ Item = i /\ w.chan = d

\* What the feed may show again has a row, unless it was never sent, or its row is
\* being written or was lost.
RowsTell ==
    seen = {} \/ \A m \in Live \ crossed, i \in Items : i > top - Window =>
        /\ i <= before[row.made] => i \in seen
        /\ \A d \in Channels :
             posted[m][i][d] <= unrec[m][i][d] \/ i \in seen \/ InHand(m, i, d)

\* An item that task m's channels may get.
Unsent(m, i) == i > before[m] /\ \A d \in Channels : posted[m][i][d] <= unrec[m][i][d]
SeenOrUnsent(S) == \A i \in S : i \in seen \/ Unsent(w.snap.made, i)

\* What a first reading has found is all there is to mark.
ReadAll ==
    At("first") \/ At("mark") =>
        /\ \A i \in w.items : i <= top
        /\ w.made = row.made => \A i \in Items \ w.items : i > top - Window =>
             /\ i > before[row.made]
             /\ \A m \in 1 .. MaxMade, d \in Channels : posted[m][i][d] = 0
        /\ At("mark") => seen = {}
        /\ At("first") /\ seen # {} /\ w.snap.made \notin crossed => SeenOrUnsent(w.items)

KeysTell ==
    At("keys") =>
        /\ \A i \in w.items : i <= top
        /\ w.snap.made \notin crossed => SeenOrUnsent(w.items)

\* The items a check still has to send were not sent before, but for the channels of
\* the one it is sending.
LeftUnsent ==
    w.pc \in {"next", "send", "remember"} =>
        \A i \in w.left :
            /\ i <= top
            /\ w.snap.made \notin crossed =>
                 /\ i > before[w.snap.made]
                 /\ \A d \in Channels : At("next") \/ i # Item \/ d \in w.to =>
                      posted[w.snap.made][i][d] <= unrec[w.snap.made][i][d]

\* After the first reading a task has no rows only if it is not the one that was read.
RowsGone ==
    w.pc \in {"keys", "next", "send", "remember"} /\ seen = {} =>
        ~row.exists \/ row.made # w.made

FeedInv == /\ FeedTypes /\ SnapsKnown /\ InTurn /\ RowsTell /\ ReadAll /\ KeysTell
           /\ LeftUnsent /\ RowsGone /\ FeedOnce

\* A finite nonempty set of integers has a least element, which Min is.
LEMMA LeastExists ==
    ASSUME NEW S, IsFiniteSet(S), S # {}, \A y \in S : y \in Int
    PROVE  Min(S) \in S /\ \A y \in S : Min(S) <= y
<1> DEFINE Below(x) == {y \in S : y <= x}
           Good == {Below(x) : x \in S}
<1>1. Good \in SUBSET SUBSET S /\ Good # {} /\ IsFiniteSet(S)
  OBVIOUS
<1>2. PICK m \in Good : \A t \in Good : ~(t \subseteq m /\ t # m)
  <2> HIDE DEF Good, Below
  <2>1. \E m \in Good : \A t \in Good : ~(t \subseteq m /\ t # m)
    BY <1>1, SmallestSet
  <2>. QED BY <2>1
<1>3. PICK x \in S : m = Below(x)
  BY <1>2
<1>4. ASSUME NEW y \in S, ~(x <= y) PROVE FALSE
  <2>0. (\A z \in S : z <= y => z <= x) /\ x <= x
    BY <1>4
  <2>1. Below(y) \subseteq Below(x) /\ x \in Below(x) /\ x \notin Below(y)
    BY <1>4, <2>0
  <2>. QED BY <1>2, <1>3, <2>1
<1>. QED BY <1>4 DEF Min

\* The item a check is at is one of those it has left.
LEMMA ItemIsLeft ==
    ASSUME FeedTypes, w.left # {}
    PROVE  Item \in w.left /\ w.left \subseteq Items
<1>1. MaxItem \in Nat /\ w.left \subseteq Items /\ IsFiniteSet(1 .. MaxItem)
  BY FeedAssumption, FS_Interval DEF FeedTypes, Checks
<1>2. IsFiniteSet(w.left) /\ (\A i \in w.left : i \in Int)
  BY <1>1, FS_Subset DEF Items
<1>. QED BY <1>1, <1>2, LeastExists DEF Item

\* The tasks a check may publish for were made.
LEMMA LiveMade ==
    ASSUME FeedTypes, SnapsKnown
    PROVE  /\ row \in Rows /\ row.made \in 1 .. MaxMade
           /\ \A m \in Live : m \in 1 .. row.made /\ m \in 1 .. MaxMade
           /\ Checking => w.snap.made \in Live
           /\ Checking => \A m \in Live : m = row.made \/ m = w.snap.made
<1>1. row \in Rows /\ MaxMade \in Nat
  BY MadeAssumption DEF FeedTypes, TableInv, TableTypeOK, Rows
<1>2. row.made \in 1 .. MaxMade
  BY <1>1 DEF Rows
<1>3. \A z \in Snapshots : z.made \in 1 .. MaxMade
  BY DEF Snapshots
<1>4. ASSUME NEW m \in Live PROVE m \in 1 .. row.made
  <2>1. m \in 1 .. MaxMade /\ m <= row.made
    BY <1>2, <1>3, <1>4 DEF Live, SnapsKnown
  <2>. QED BY <1>1, <1>2, <2>1
<1>5. Checking => w.snap.made \in Live
  BY DEF Live
<1>6. Checking => \A m \in Live : m = row.made \/ m = w.snap.made
  BY DEF Live, SnapsKnown
<1>7. \A m \in 1 .. row.made : m \in 1 .. MaxMade
  BY <1>1, <1>2
<1>. QED BY <1>1, <1>2, <1>4, <1>5, <1>6, <1>7

\* The invariant of the feed holds at the start.
LEMMA FeedBegins == FeedInit => FeedInv
<1> SUFFICES ASSUME FeedInit PROVE FeedInv
  OBVIOUS
<1>0. /\ TableInv /\ row = Row(TRUE, {}, 1) /\ cache = NoSnapshot /\ fill = [r \in Readers |-> Asking]
      /\ Worker \in Readers /\ MaxMade \in Nat \ {0} /\ MaxItem \in Nat /\ top \in 1 .. MaxItem
  BY TableBegins, FeedAssumption, MadeAssumption DEF FeedInit, TableInit
<1>1. w = Sleeping /\ seen = {} /\ crossed = {} /\ before = [m \in 1 .. MaxMade |-> top]
      /\ unrec = posted /\ posted = [m \in 1 .. MaxMade |-> [i \in Items |-> [d \in Channels |-> 0]]]
  BY DEF FeedInit
<1>2. Sleeping \in Checks /\ Sleeping.pc = "sleep" /\ Sleeping.made = 0
  BY <1>0 DEF Sleeping, Checks, FeedSteps
<1>3. posted \in Counts
        /\ \A m \in 1 .. MaxMade, i \in Items, d \in Channels : posted[m][i][d] = 0
  BY <1>1 DEF Counts
<1>4. FeedTypes
  BY <1>0, <1>1, <1>2, <1>3 DEF FeedTypes, Items, At
<1>5. SnapsKnown /\ ~Checking
  BY <1>0, <1>1, <1>2 DEF SnapsKnown, Checking, Row, Asking
<1>6. InTurn /\ FeedOnce
  BY <1>0, <1>1, <1>3 DEF InTurn, FeedOnce, Row
<1>7. RowsTell /\ ReadAll /\ KeysTell /\ LeftUnsent /\ RowsGone
  BY <1>1, <1>2 DEF RowsTell, ReadAll, KeysTell, LeftUnsent, RowsGone, At
<1>. QED BY <1>4, <1>5, <1>6, <1>7 DEF FeedInv

\* A step that begins or ends a check, and touches no row.
LEMMA Quiet ==
    ASSUME FeedInv, UNCHANGED <<row, top, before, seen, posted, unrec, crossed>>,
           TableInv', SnapsKnown', w' \in Checks, w'.pc \in {"sleep", "ask", "fetch"},
           Live' \subseteq Live, ~At("remember")
    PROVE  FeedInv'
<1>1. FeedTypes'
  BY DEF FeedInv, FeedTypes, At
<1>2. InTurn' /\ FeedOnce'
  BY DEF FeedInv, InTurn, FeedOnce
<1>3. RowsTell'
  BY DEF FeedInv, RowsTell, InHand
<1>4. ReadAll' /\ KeysTell' /\ LeftUnsent' /\ RowsGone'
  BY DEF ReadAll, KeysTell, LeftUnsent, RowsGone, At
<1>. QED BY <1>1, <1>2, <1>3, <1>4 DEF FeedInv

\* A step within a check that touches nothing else.
LEMMA Within ==
    ASSUME FeedInv, UNCHANGED <<table, top, before, seen, posted, unrec, crossed>>,
           w' \in Checks, Checking, Checking', w'.snap = w.snap, w'.made <= row.made,
           ~At("remember"), w'.pc # "remember", w'.pc = "send" => w'.left # {},
           ReadAll', KeysTell', LeftUnsent', RowsGone'
    PROVE  FeedInv'
<1>1. TableInv' /\ UNCHANGED <<row, cache, fill>>
  BY TableStep DEF FeedInv, FeedTypes, table
<1>2. FeedTypes'
  BY <1>1 DEF FeedInv, FeedTypes, At
<1>3. InTurn' /\ FeedOnce' /\ SnapsKnown' /\ Live' = Live
  BY <1>1 DEF FeedInv, InTurn, FeedOnce, SnapsKnown, Live
<1>4. RowsTell'
  BY <1>1, <1>3 DEF FeedInv, RowsTell, InHand, At
<1>. QED BY <1>2, <1>3, <1>4 DEF FeedInv

\* The worker between two checks.
LEMMA SleepingChecks ==
    Sleeping \in Checks /\ Sleeping.pc = "sleep" /\ Sleeping.made = 0
BY MadeAssumption DEF Sleeping, Checks, FeedSteps

\* The worker gives a check up or ends it.
LEMMA Sleeps ==
    ASSUME FeedInv, UNCHANGED <<table, top, before, seen, posted, unrec, crossed>>,
           w' = Sleeping, ~At("remember")
    PROVE  FeedInv'
<1>1. TableInv' /\ UNCHANGED <<row, cache, fill>>
  BY TableStep DEF FeedInv, FeedTypes, table
<1>2. row.made \in 1 .. MaxMade /\ MaxMade \in Nat
  BY LiveMade, MadeAssumption DEF FeedInv
<1>3. SnapsKnown'
  BY <1>1, <1>2, SleepingChecks DEF FeedInv, SnapsKnown, Checking
<1>4. Live' \subseteq Live
  BY <1>1, SleepingChecks DEF Live, Checking
<1>. QED BY <1>1, <1>3, <1>4, SleepingChecks, Quiet

\* From waking up to reading the feed.
LEMMA AskSteps ==
    ASSUME FeedInv, Wake \/ AskKept \/ AskRow \/ AskStored \/ CheckFails \/ CheckEnds
    PROVE  FeedInv'
<1>0. /\ w \in Checks /\ row \in Rows /\ row.made \in 1 .. MaxMade /\ MaxMade \in Nat
      /\ SnapsKnown /\ TableInv /\ Worker \in Readers
      /\ fill \in [Readers -> FillTypes]
  BY LiveMade, MadeAssumption, FeedAssumption
     DEF FeedInv, FeedTypes, TableInv, TableTypeOK, FillTypes
<1>1. CASE Wake
  <2>1. w' \in Checks /\ w'.pc = "ask" /\ w'.made = w.made /\ ~At("remember") /\ ~Checking
    BY <1>0, <1>1 DEF Wake, Goto, Checks, FeedSteps, At, Checking
  <2>2. TableInv' /\ UNCHANGED <<row, cache, fill>>
    BY <1>0, <1>1, TableStep DEF Wake, table
  <2>3. SnapsKnown' /\ Live' \subseteq Live
    BY <1>0, <2>1, <2>2 DEF SnapsKnown, Live, Checking
  <2>. QED BY <1>1, <2>1, <2>2, <2>3, Quiet DEF Wake
<1>2. ASSUME NEW snap \in Snapshots, TakeTask(snap), At("ask"), snap.made <= row.made,
             snap.made \in Live,
             row' = row, TableInv', fill'[Worker].pc = "idle", cache' = snap,
             UNCHANGED <<top, before, seen, posted, unrec, crossed>>
      PROVE  FeedInv'
  <2>1. CASE snap.on
    <3>1. /\ w' \in Checks /\ w'.pc = "fetch" /\ w'.snap = snap /\ w'.made = w.made
          /\ ~At("remember")
      BY <1>0, <1>2, <2>1 DEF TakeTask, Checks, FeedSteps, At
    <3>2. SnapsKnown' /\ Live' \subseteq Live
      BY <1>0, <1>2, <3>1 DEF SnapsKnown, Live, Checking
    <3>. QED BY <1>2, <3>1, <3>2, Quiet
  <2>2. CASE ~snap.on
    <3>1. w' = Sleeping /\ ~At("remember")
      BY <1>2, <2>2 DEF TakeTask, At
    <3>2. SnapsKnown' /\ Live' \subseteq Live
      BY <1>0, <1>2, <3>1, SleepingChecks DEF SnapsKnown, Live, Checking
    <3>. QED BY <1>2, <3>1, <3>2, Quiet, SleepingChecks
  <2>. QED BY <2>1, <2>2
<1>3. CASE AskKept
  <2>1. /\ cache \in Snapshots /\ cache.made <= row.made /\ TakeTask(cache) /\ At("ask")
        /\ UNCHANGED table /\ fill[Worker].pc = "idle" /\ cache.made \in Live
    BY <1>0, <1>3 DEF AskKept, SnapsKnown, Live
  <2>2. TableInv' /\ UNCHANGED <<row, cache, fill>>
    BY <1>0, <2>1, TableStep DEF table
  <2>. QED BY <1>2, <1>3, <2>1, <2>2 DEF AskKept
<1>4. CASE AskStored
  <2> DEFINE snap == fill[Worker].copy
  <2>1. /\ snap \in Snapshots /\ snap.made <= row.made /\ TakeTask(snap) /\ At("ask")
        /\ snap.made \in Live /\ cache' = snap /\ row' = row /\ fill'[Worker].pc = "idle"
    BY <1>0, <1>4 DEF AskStored, Store, SnapsKnown, Live, Asking
  <2>2. TableInv'
    BY <1>0, <1>4, AskStep DEF AskStored, AskNext
  <2>. QED BY <1>2, <1>4, <2>1, <2>2 DEF AskStored
<1>5. CASE AskRow
  <2>1. TableInv' /\ UNCHANGED <<row, cache>> /\ At("ask")
    BY <1>0, <1>5, AskStep DEF AskRow, AskNext, Miss
  <2>2. w' \in Checks /\ w'.pc \in {"sleep", "ask"} /\ w'.made <= row.made
    BY <1>0, <1>5, SleepingChecks DEF AskRow, At, SnapsKnown
  <2>3. /\ fill'[Worker].pc = "store" => row.exists /\ fill'[Worker].copy = row
        /\ ~Checking /\ ~Checking' /\ ~At("remember")
    BY <1>0, <1>5, <2>2 DEF AskRow, Miss, Asking, Checking, At
  <2>4. row.exists => row \in Snapshots
    BY <1>0 DEF Rows, Snapshots
  <2>5. SnapsKnown' /\ Live' \subseteq Live
    BY <1>0, <2>1, <2>2, <2>3, <2>4 DEF SnapsKnown, Live
  <2>. QED BY <1>5, <2>1, <2>2, <2>3, <2>5, Quiet DEF AskRow
<1>6. CASE CheckFails
  <2>1. ~At("remember")
    BY <1>6 DEF CheckFails, At
  <2>. QED BY <1>6, <2>1, Sleeps DEF CheckFails
<1>7. CASE CheckEnds
  BY <1>7, Sleeps DEF CheckEnds, At
<1>. QED BY <1>1, <1>3, <1>4, <1>5, <1>6, <1>7

\* Reading the feed, and what it is compared with.
LEMMA ReadSteps ==
    ASSUME FeedInv, Fetch \/ FirstRun \/ SeenKeys
    PROVE  FeedInv'
<1>0. /\ w \in Checks /\ row.made \in 1 .. MaxMade /\ MaxMade \in Nat /\ top \in Int
      /\ before \in [1 .. MaxMade -> Int] /\ posted \in Counts /\ Window \in Nat \ {0}
      /\ w.made <= row.made /\ seen \subseteq Items /\ MaxItem \in Nat
  BY LiveMade, MadeAssumption, FeedAssumption DEF FeedInv, FeedTypes, SnapsKnown
<1>1. CASE Fetch
  <2>1. /\ w' \in Checks /\ w'.pc = "first" /\ w'.items = InFeed /\ w'.made = row.made
        /\ w'.snap = w.snap /\ w.pc = "fetch" /\ w'.left = w.left
        /\ UNCHANGED <<table, top, before, seen, posted, unrec, crossed>> /\ row' = row
    <3>1. InFeed \in SUBSET Items /\ row.made \in 0 .. MaxMade
      BY <1>0 DEF InFeed
    <3>. QED BY <1>0, <1>1, <3>1 DEF Fetch, At, Checks, FeedSteps, table
  <2>2. Checking /\ Checking' /\ ~At("remember")
    BY <2>1 DEF Checking, At
  <2>3. w.snap.made \in Live /\ w.snap.made \in 1 .. row.made /\ w.snap.made \in 1 .. MaxMade
    BY <2>2, LiveMade DEF FeedInv
\* What the feed does not show, and might, is younger than all that was published.
  <2>4. ASSUME NEW i \in Items \ InFeed, i > top - Window
        PROVE  i > before[row.made]
               /\ \A m \in 1 .. MaxMade, d \in Channels : posted[m][i][d] = 0
    <3>1. i \in Int /\ i > top
      BY <1>0, <2>4 DEF InFeed, Items
    <3>2. \A m \in 1 .. MaxMade, d \in Channels : posted[m][i][d] \in Nat /\ ~(posted[m][i][d] > 0)
      BY <1>0, <2>4, <3>1 DEF FeedInv, InTurn, Counts
    <3>. QED BY <1>0, <3>1, <3>2 DEF FeedInv, InTurn
  <2>5. ASSUME seen # {}, w.snap.made \notin crossed, NEW i \in InFeed, i \notin seen
        PROVE  Unsent(w.snap.made, i)
    <3>1. i \in Items /\ i > top - Window /\ i \in Int
      BY <1>0 DEF InFeed, Items
    <3>2. ~(i <= before[row.made]) /\ before[w.snap.made] <= before[row.made]
      BY <2>3, <2>5, <3>1 DEF FeedInv, RowsTell, InTurn
    <3>3. \A d \in Channels : posted[w.snap.made][i][d] <= unrec[w.snap.made][i][d]
      BY <2>2, <2>3, <2>5, <3>1 DEF FeedInv, RowsTell, InHand
    <3>. QED BY <1>0, <2>3, <3>1, <3>2, <3>3 DEF Unsent
  <2>6. \A i \in InFeed : i <= top
    BY DEF InFeed
  <2>7. ReadAll'
    BY <2>1, <2>4, <2>5, <2>6 DEF ReadAll, SeenOrUnsent, Unsent, At
  <2>8. KeysTell' /\ LeftUnsent' /\ RowsGone'
    BY <2>1 DEF KeysTell, LeftUnsent, RowsGone, At
  <2>. QED BY <1>0, <2>1, <2>2, <2>7, <2>8, Within
<1>2. CASE FirstRun
  <2>1. /\ w' \in Checks /\ w.pc = "first" /\ w'.pc = (IF seen = {} THEN "mark" ELSE "keys")
        /\ w'.items = w.items /\ w'.made = w.made /\ w'.snap = w.snap
        /\ UNCHANGED <<table, top, before, seen, posted, unrec, crossed>> /\ row' = row
    BY <1>0, <1>2 DEF FirstRun, Goto, At, Checks, FeedSteps, table
  <2>2. Checking /\ Checking' /\ ~At("remember")
    BY <2>1 DEF Checking, At
  <2>3. ReadAll' /\ KeysTell'
    BY <2>1 DEF FeedInv, ReadAll, KeysTell, SeenOrUnsent, Unsent, At
  <2>4. LeftUnsent' /\ RowsGone'
    BY <2>1 DEF LeftUnsent, RowsGone
  <2>. QED BY <1>0, <2>1, <2>2, <2>3, <2>4, Within
<1>3. CASE SeenKeys
  <2>1. /\ w' \in Checks /\ w.pc = "keys" /\ w'.pc = "next" /\ w'.left = Fresh(w.items)
        /\ w'.made = w.made /\ w'.snap = w.snap
        /\ UNCHANGED <<table, top, before, seen, posted, unrec, crossed>> /\ row' = row
    <3>1. Fresh(w.items) \in SUBSET Items
      BY <1>0 DEF Fresh, NewestOnly, Checks
    <3>. QED BY <1>0, <1>3, <3>1 DEF SeenKeys, At, Checks, FeedSteps, table
  <2>2. Checking /\ Checking' /\ ~At("remember")
    BY <2>1 DEF Checking, At
  <2>3. \A i \in Fresh(w.items) : i \in w.items /\ i \notin seen
    BY DEF Fresh, NewestOnly
  <2>4. LeftUnsent'
    BY <2>1, <2>3 DEF FeedInv, LeftUnsent, KeysTell, SeenOrUnsent, Unsent, At
  <2>5. ReadAll' /\ KeysTell' /\ RowsGone'
    BY <2>1 DEF FeedInv, ReadAll, KeysTell, RowsGone, At
  <2>. QED BY <1>0, <2>1, <2>2, <2>4, <2>5, Within
<1>. QED BY <1>1, <1>2, <1>3

\* Going through the items of a check.
LEMMA ItemSteps ==
    ASSUME FeedInv, PassOver \/ PublishItem \/ NextItem \/ \E d \in Channels : SendFails(d)
    PROVE  FeedInv'
<1>0. w \in Checks /\ w.made <= row.made
  BY DEF FeedInv, FeedTypes, SnapsKnown
<1>1. ASSUME w.pc \in {"next", "send"}, w' \in Checks, w'.pc \in {"next", "send"},
             w'.pc = "send" => w'.left = w.left /\ w'.left # {},
             w'.made = w.made, w'.snap = w.snap,
             w'.left \subseteq w.left,
             w'.pc = "next" => (w.pc = "next" \/ Item \notin w'.left),
             (w'.pc = "send" /\ w.pc = "send") => w'.to \subseteq w.to,
             UNCHANGED <<table, top, before, seen, posted, unrec, crossed>>
      PROVE  FeedInv'
  <2>1. Checking /\ Checking' /\ ~At("remember") /\ w'.pc # "remember" /\ row' = row
    BY <1>1 DEF Checking, At, table
  <2>2. w'.pc = "send" => Item' = Item
    BY <1>1 DEF Item
  <2>3. LeftUnsent'
    BY <1>1, <2>2 DEF FeedInv, LeftUnsent, At
  <2>4. ReadAll' /\ KeysTell' /\ RowsGone'
    BY <1>1, <2>1 DEF FeedInv, ReadAll, KeysTell, RowsGone, At
  <2>. QED BY <1>0, <1>1, <2>1, <2>3, <2>4, Within
<1>2. CASE PassOver
  <2>1. /\ w.pc = "next" /\ w' \in Checks /\ w'.pc = "next" /\ w'.left = w.left \ {Item}
        /\ w'.made = w.made /\ w'.snap = w.snap
        /\ UNCHANGED <<table, top, before, seen, posted, unrec, crossed>>
    BY <1>0, <1>2 DEF PassOver, At, Checks
  <2>. QED BY <1>1, <2>1
<1>3. CASE PublishItem
  <2>1. /\ w.pc = "next" /\ w' \in Checks /\ w'.pc = "send" /\ w'.left = w.left /\ w.left # {}
        /\ w'.made = w.made /\ w'.snap = w.snap
        /\ UNCHANGED <<table, top, before, seen, posted, unrec, crossed>>
    BY <1>0, <1>3 DEF PublishItem, Unmarked, At, Checks, FeedSteps
  <2>. QED BY <1>1, <2>1
<1>4. CASE NextItem
  <2>1. /\ w.pc = "send" /\ w' \in Checks /\ w'.pc = "next" /\ w'.left = w.left \ {Item}
        /\ w'.made = w.made /\ w'.snap = w.snap
        /\ UNCHANGED <<table, top, before, seen, posted, unrec, crossed>>
    BY <1>0, <1>4 DEF NextItem, At, Checks, FeedSteps
  <2>. QED BY <1>1, <2>1
<1>5. ASSUME NEW d \in Channels, SendFails(d)
      PROVE  FeedInv'
  <2>1. CASE w' = Sleeping
    BY <1>5, <2>1, Sleeps DEF SendFails, At
  <2>2. CASE w' = [w EXCEPT !.to = @ \ {d}]
    <3>1. /\ w.pc = "send" /\ w' \in Checks /\ w'.pc = "send" /\ w'.left = w.left
          /\ w'.made = w.made /\ w'.snap = w.snap /\ w'.to = w.to \ {d} /\ w.left # {}
          /\ UNCHANGED <<table, top, before, seen, posted, unrec, crossed>>
      BY <1>0, <1>5, <2>2 DEF SendFails, At, Checks, FeedInv, FeedTypes
    <3>. QED BY <1>1, <3>1
  <2>. QED BY <1>5, <2>1, <2>2 DEF SendFails
<1>. QED BY <1>2, <1>3, <1>4, <1>5

\* One more for one item in one channel of one task.
LEMMA CountUp ==
    ASSUME NEW f \in Counts, NEW z \in 1 .. MaxMade, NEW it \in Items, NEW ch \in Channels
    PROVE  /\ [f EXCEPT ![z][it][ch] = @ + 1] \in Counts
           /\ \A m \in 1 .. MaxMade, i \in Items, c \in Channels :
                /\ f[m][i][c] \in Nat
                /\ [f EXCEPT ![z][it][ch] = @ + 1][m][i][c] =
                     IF m = z /\ i = it /\ c = ch THEN f[m][i][c] + 1 ELSE f[m][i][c]
BY DEF Counts

\* The answer to a send is lost: the item stands once more in one channel, and its row
\* will not be written.
LEMMA LostStep ==
    ASSUME FeedInv, NEW d \in Channels, AnswerLost(d)
    PROVE  FeedInv'
<1> DEFINE z == w.snap.made
<1>0. /\ w \in Checks /\ posted \in Counts /\ unrec \in Counts /\ row' = row /\ top \in Int
      /\ before \in [1 .. MaxMade -> Int]
      /\ w.pc = "send" /\ d \in w.to /\ w.left # {} /\ UNCHANGED <<cache, fill>>
      /\ UNCHANGED <<table, top, before, seen, crossed>>
      /\ posted' = [posted EXCEPT ![z][Item][d] = @ + 1]
      /\ unrec' = [unrec EXCEPT ![z][Item][d] = @ + 1]
  BY DEF FeedInv, FeedTypes, AnswerLost, At, table
<1>1. Item \in w.left /\ w.left \subseteq Items /\ Item \in Items
  BY <1>0, ItemIsLeft DEF FeedInv
<1>2. Checking /\ z \in 1 .. MaxMade /\ z \in 1 .. row.made /\ z <= row.made
  <2>1. Checking
    BY <1>0 DEF Checking
  <2>. QED BY <2>1, LiveMade DEF FeedInv, SnapsKnown
<1>3. /\ w' \in Checks /\ w'.pc = "send" /\ w'.snap = w.snap /\ w'.left = w.left
      /\ w'.made = w.made /\ w'.to = w.to \ {d} /\ Item' = Item
  <2>1. w' = [w EXCEPT !.to = w.to \ {d}]
    BY DEF AnswerLost
  <2>2. w' \in Checks /\ w'.pc = "send" /\ w'.snap = w.snap /\ w'.left = w.left
        /\ w'.made = w.made /\ w'.to = w.to \ {d}
    BY <1>0, <2>1 DEF Checks
  <2>. QED BY <2>2 DEF Item
<1>4. posted' \in Counts /\ unrec' \in Counts
  <2> HIDE DEF z
  <2>. QED BY <1>0, <1>1, <1>2, CountUp
<1>5. ASSUME NEW m \in 1 .. MaxMade, NEW i \in Items, NEW c \in Channels
      PROVE  /\ posted[m][i][c] \in Nat /\ unrec[m][i][c] \in Nat
             /\ posted'[m][i][c] = IF m = z /\ i = Item /\ c = d THEN posted[m][i][c] + 1
                                                                ELSE posted[m][i][c]
             /\ unrec'[m][i][c] = IF m = z /\ i = Item /\ c = d THEN unrec[m][i][c] + 1
                                                               ELSE unrec[m][i][c]
  <2> HIDE DEF z
  <2>1. /\ posted[m][i][c] \in Nat
        /\ posted'[m][i][c] = IF m = z /\ i = Item /\ c = d THEN posted[m][i][c] + 1
                                                           ELSE posted[m][i][c]
    BY <1>0, <1>1, <1>2, CountUp
  <2>2. /\ unrec[m][i][c] \in Nat
        /\ unrec'[m][i][c] = IF m = z /\ i = Item /\ c = d THEN unrec[m][i][c] + 1
                                                          ELSE unrec[m][i][c]
    <3>1. unrec \in Counts /\ Item \in Items /\ z \in 1 .. MaxMade /\ d \in Channels
          /\ unrec' = [unrec EXCEPT ![z][Item][d] = @ + 1]
      BY <1>0, <1>1, <1>2
    <3>2. \A f \in Counts : f = unrec =>
            /\ f[m][i][c] \in Nat
            /\ [f EXCEPT ![z][Item][d] = @ + 1][m][i][c] =
                 IF m = z /\ i = Item /\ c = d THEN f[m][i][c] + 1 ELSE f[m][i][c]
      BY <3>1, CountUp
    <3>. QED BY <3>1, <3>2
  <2>. QED BY <2>1, <2>2
<1>6. \A m \in 1 .. MaxMade, i \in Items, c \in Channels :
        posted'[m][i][c] <= unrec'[m][i][c] <=> posted[m][i][c] <= unrec[m][i][c]
  BY <1>5
<1>7. FeedTypes'
  <2>1. TableInv'
    BY <1>0, TableStep DEF FeedInv, FeedTypes
  <2>. QED BY <1>0, <1>3, <1>4, <2>1 DEF FeedInv, FeedTypes, At
<1>8. SnapsKnown' /\ Live' = Live
  <2>1. Checking'
    BY <1>3 DEF Checking
  <2>. QED BY <1>0, <1>2, <1>3, <2>1 DEF FeedInv, SnapsKnown, Live
<1>9. InTurn'
  <2>1. Item <= top
    BY <1>0, <1>1 DEF FeedInv, LeftUnsent
  <2>. QED BY <1>0, <1>2, <1>5, <2>1 DEF FeedInv, InTurn
<1>10. z \notin crossed => Item > before[z]
  BY <1>0, <1>1 DEF FeedInv, LeftUnsent
<1>11. FeedOnce'
  <2> SUFFICES ASSUME NEW m \in (1 .. MaxMade) \ crossed, NEW i \in Items, NEW c \in Channels
               PROVE  posted'[m][i][c] <= IF i <= before[m] THEN 0 ELSE 1 + unrec'[m][i][c]
    BY <1>0 DEF FeedOnce
  <2>1. posted[m][i][c] <= IF i <= before[m] THEN 0 ELSE 1 + unrec[m][i][c]
    BY DEF FeedInv, FeedOnce
  <2>2. i \in Int /\ before[m] \in Int
    BY <1>0, FeedAssumption DEF Items
  <2>3. m = z /\ i = Item => ~(i <= before[m])
    BY <1>10, <2>2
  <2>. QED BY <1>5, <2>1, <2>3
<1>12. RowsTell'
  <2> SUFFICES ASSUME seen # {}, NEW m \in Live \ crossed, NEW i \in Items, i > top - Window
               PROVE  /\ i <= before[row.made] => i \in seen
                      /\ \A c \in Channels : posted'[m][i][c] <= unrec'[m][i][c] \/ i \in seen
    BY <1>0, <1>8 DEF RowsTell
  <2>1. /\ i <= before[row.made] => i \in seen
        /\ \A c \in Channels : posted[m][i][c] <= unrec[m][i][c] \/ i \in seen
    BY <1>0 DEF FeedInv, RowsTell, InHand, At
  <2>2. m \in 1 .. MaxMade
    BY LiveMade DEF FeedInv
  <2>. QED BY <1>6, <2>1, <2>2
<1>13. LeftUnsent'
  <2> SUFFICES ASSUME NEW i \in w.left
               PROVE  /\ i <= top
                      /\ z \notin crossed =>
                           /\ i > before[z]
                           /\ \A c \in Channels : (i # Item \/ c \in w.to \ {d}) =>
                                posted'[z][i][c] <= unrec'[z][i][c]
    BY <1>0, <1>3 DEF LeftUnsent, At
  <2>1. /\ i <= top
        /\ z \notin crossed =>
             /\ i > before[z]
             /\ \A c \in Channels : (i # Item \/ c \in w.to) => posted[z][i][c] <= unrec[z][i][c]
    BY <1>0 DEF FeedInv, LeftUnsent, At
  <2>2. i \in Items
    BY <1>1
  <2>. QED BY <1>2, <1>6, <2>1, <2>2
<1>14. ReadAll' /\ KeysTell' /\ RowsGone'
  BY <1>0, <1>3 DEF FeedInv, ReadAll, KeysTell, RowsGone, At
<1>. QED BY <1>7, <1>8, <1>9, <1>11, <1>12, <1>13, <1>14 DEF FeedInv

\* A send: the item stands once more in one channel, and its row is still to be written.
LEMMA SendStep ==
    ASSUME FeedInv, NEW d \in Channels, SendItem(d)
    PROVE  FeedInv'
<1> DEFINE z == w.snap.made
<1>0. /\ w \in Checks /\ posted \in Counts /\ unrec \in Counts /\ row' = row /\ top \in Int
      /\ before \in [1 .. MaxMade -> Int]
      /\ w.pc = "send" /\ d \in w.to /\ w.left # {} /\ UNCHANGED <<cache, fill>>
      /\ UNCHANGED <<table, top, before, seen, unrec, crossed>>
      /\ posted' = [posted EXCEPT ![z][Item][d] = @ + 1]
  BY DEF FeedInv, FeedTypes, SendItem, At, table
<1>1. Item \in w.left /\ w.left \subseteq Items /\ Item \in Items
  BY <1>0, ItemIsLeft DEF FeedInv
<1>2. /\ Checking /\ z \in 1 .. MaxMade /\ z \in 1 .. row.made /\ ~At("remember")
      /\ z <= row.made
  <2>1. Checking /\ ~At("remember")
    BY <1>0 DEF Checking, At
  <2>. QED BY <2>1, LiveMade DEF FeedInv, SnapsKnown
<1>3. /\ w' \in Checks /\ w'.pc = "remember" /\ w'.snap = w.snap /\ w'.left = w.left
      /\ w'.made = w.made /\ w'.to = w.to \ {d} /\ w'.chan = d /\ Item' = Item
  <2>1. w' = [w EXCEPT !.pc = "remember", !.to = w.to \ {d}, !.chan = d]
    BY DEF SendItem
  <2>2. w' \in Checks /\ w'.pc = "remember" /\ w'.snap = w.snap /\ w'.left = w.left
        /\ w'.made = w.made /\ w'.to = w.to \ {d} /\ w'.chan = d
    BY <1>0, <2>1 DEF Checks, FeedSteps
  <2>. QED BY <2>2 DEF Item
<1>4. posted' \in Counts
  <2> HIDE DEF z
  <2>. QED BY <1>0, <1>1, <1>2, CountUp
<1>5. ASSUME NEW m \in 1 .. MaxMade, NEW i \in Items, NEW c \in Channels
      PROVE  /\ posted[m][i][c] \in Nat /\ unrec[m][i][c] \in Nat
             /\ posted'[m][i][c] = IF m = z /\ i = Item /\ c = d THEN posted[m][i][c] + 1
                                                                ELSE posted[m][i][c]
  <2> HIDE DEF z
  <2>1. unrec[m][i][c] \in Nat
    BY <1>0 DEF Counts
  <2>. QED BY <1>0, <1>1, <1>2, <2>1, CountUp
<1>6. FeedTypes'
  <2>1. TableInv'
    BY <1>0, TableStep DEF FeedInv, FeedTypes
  <2>. QED BY <1>0, <1>3, <1>4, <2>1 DEF FeedInv, FeedTypes, At
<1>7. SnapsKnown' /\ Live' = Live
  <2>1. Checking'
    BY <1>3 DEF Checking
  <2>. QED BY <1>0, <1>2, <1>3, <2>1 DEF FeedInv, SnapsKnown, Live
<1>8. InTurn'
  <2>1. Item <= top
    BY <1>0, <1>1 DEF FeedInv, LeftUnsent
  <2>. QED BY <1>0, <1>2, <1>5, <2>1 DEF FeedInv, InTurn
<1>9. z \notin crossed => Item > before[z] /\ posted[z][Item][d] <= unrec[z][Item][d]
  BY <1>0, <1>1 DEF FeedInv, LeftUnsent
<1>10. FeedOnce'
  <2> SUFFICES ASSUME NEW m \in (1 .. MaxMade) \ crossed, NEW i \in Items, NEW c \in Channels
               PROVE  posted'[m][i][c] <= IF i <= before[m] THEN 0 ELSE 1 + unrec[m][i][c]
    BY <1>0 DEF FeedOnce
  <2>1. CASE m = z /\ i = Item /\ c = d
    <3>1. i \in Int /\ before[m] \in Int
      BY <1>0, FeedAssumption DEF Items
    <3>. QED BY <1>5, <1>9, <2>1, <3>1
  <2>2. CASE ~(m = z /\ i = Item /\ c = d)
    BY <1>5, <2>2 DEF FeedInv, FeedOnce
  <2>. QED BY <2>1, <2>2
<1>11. RowsTell'
  <2> SUFFICES ASSUME seen # {}, NEW m \in Live \ crossed, NEW i \in Items, i > top - Window
               PROVE  /\ i <= before[row.made] => i \in seen
                      /\ \A c \in Channels :
                           posted'[m][i][c] <= unrec[m][i][c] \/ i \in seen \/ InHand(m, i, c)'
    BY <1>0, <1>7 DEF RowsTell
  <2>1. /\ i <= before[row.made] => i \in seen
        /\ \A c \in Channels : posted[m][i][c] <= unrec[m][i][c] \/ i \in seen
    BY <1>2 DEF FeedInv, RowsTell, InHand
  <2>2. m \in 1 .. MaxMade
    BY LiveMade DEF FeedInv
  <2>3. ASSUME NEW c \in Channels
        PROVE  posted'[m][i][c] <= unrec[m][i][c] \/ i \in seen \/ InHand(m, i, c)'
    <3>1. CASE m = z /\ i = Item /\ c = d
      BY <1>3, <3>1 DEF InHand, At
    <3>2. CASE ~(m = z /\ i = Item /\ c = d)
      BY <1>5, <2>1, <2>2, <3>2
    <3>. QED BY <3>1, <3>2
  <2>. QED BY <2>1, <2>3
<1>12. LeftUnsent'
  <2> SUFFICES ASSUME NEW i \in w.left
               PROVE  /\ i <= top
                      /\ z \notin crossed =>
                           /\ i > before[z]
                           /\ \A c \in Channels : (i # Item \/ c \in w.to \ {d}) =>
                                posted'[z][i][c] <= unrec[z][i][c]
    BY <1>0, <1>3 DEF LeftUnsent, At
  <2>1. /\ i <= top
        /\ z \notin crossed =>
             /\ i > before[z]
             /\ \A c \in Channels : (i # Item \/ c \in w.to) => posted[z][i][c] <= unrec[z][i][c]
    BY <1>0 DEF FeedInv, LeftUnsent, At
  <2>2. i \in Items
    BY <1>1
  <2>. QED BY <1>2, <1>5, <2>1, <2>2
<1>13. ReadAll' /\ KeysTell' /\ RowsGone'
  BY <1>0, <1>3 DEF FeedInv, ReadAll, KeysTell, RowsGone, At
<1>. QED BY <1>6, <1>7, <1>8, <1>10, <1>11, <1>12, <1>13 DEF FeedInv

\* The commit of rows, which may go to another task than the check was for.
LEMMA RecordStep ==
    ASSUME FeedInv, MarkAll \/ Remember
    PROVE  FeedInv'
<1> DEFINE S == IF w.pc = "mark" THEN w.items ELSE {Item}
           z == w.snap.made
<1>0. /\ w \in Checks /\ row' = row /\ UNCHANGED <<table, top, before, posted, unrec, cache, fill>>
      /\ w.pc \in {"mark", "remember"} /\ seen \subseteq Items /\ Record(S)
      /\ row.made \in 1 .. MaxMade /\ MaxMade \in Nat /\ w.made <= row.made /\ top \in Int
  BY LiveMade, MadeAssumption
     DEF FeedInv, FeedTypes, SnapsKnown, MarkAll, Marked, Remember, SentOnce, At, table
<1>1. w.pc = "remember" => Item \in w.left /\ w.left \subseteq Items
  BY ItemIsLeft DEF FeedInv, FeedTypes
<1>2. S \in SUBSET Items
  BY <1>0, <1>1 DEF Checks
<1>3. /\ w' \in Checks /\ w'.made <= row.made
      /\ \/ w' = Sleeping
         \/ /\ w.pc = "remember" /\ row.exists /\ w'.pc = "send" /\ w'.snap = w.snap /\ w'.left = w.left
            /\ w'.to = w.to /\ w'.made = w.made
  <2>1. CASE MarkAll
    BY <1>0, <2>1, SleepingChecks DEF MarkAll
  <2>2. CASE Remember
    BY <1>0, <2>2, SleepingChecks DEF Remember, At, Checks, FeedSteps
  <2>. QED BY <2>1, <2>2
<1>4. FeedTypes'
  <2>1. TableInv'
    BY <1>0, TableStep DEF FeedInv, FeedTypes
  <2>2. seen' \subseteq Items
    BY <1>0, <1>2 DEF Record
  <2>3. w'.pc \in {"sleep", "send"} /\ (w'.pc = "send" => w'.left # {})
    BY <1>1, <1>3, SleepingChecks
  <2>. QED BY <1>0, <1>3, <2>1, <2>2, <2>3 DEF FeedInv, FeedTypes, At
<1>5. Checking /\ (Checking' => w'.snap = w.snap)
  BY <1>0, <1>3, SleepingChecks DEF Checking
<1>6. SnapsKnown' /\ Live' \subseteq Live
  BY <1>0, <1>3, <1>5 DEF FeedInv, SnapsKnown, Live
<1>7. row.exists \/ (seen = {} /\ seen' = {} /\ crossed' = crossed /\ w' = Sleeping)
  <2>1. ~row.exists => w' = Sleeping
    BY <1>3
  <2>. QED BY <1>0, <2>1 DEF FeedInv, InTurn, Record
<1>8. InTurn' /\ FeedOnce' /\ crossed \subseteq crossed'
  BY <1>0, <1>7 DEF FeedInv, InTurn, FeedOnce, Record
<1>9. RowsTell'
  <2>1. CASE ~row.exists
    BY <1>7, <2>1 DEF RowsTell
  <2>2. CASE row.exists /\ row.made # w.made
    <3>1. Live' \subseteq crossed'
      BY <1>0, <1>5, <1>6, <2>2, LiveMade DEF FeedInv, Record
    <3>. QED BY <3>1 DEF RowsTell
  <2>3. CASE row.exists /\ row.made = w.made
    <3>0. seen' = seen \cup S /\ crossed' = crossed
      BY <1>0, <2>3 DEF Record
    <3> SUFFICES ASSUME NEW m \in Live \ crossed, NEW i \in Items, i > top - Window
                 PROVE  /\ i <= before[row.made] => i \in seen'
                        /\ \A c \in Channels : posted[m][i][c] <= unrec[m][i][c] \/ i \in seen'
      BY <1>0, <1>6, <3>0 DEF RowsTell
    <3>1. CASE w.pc = "remember"
      <4>1. seen # {}
        BY <2>3, <3>1 DEF FeedInv, RowsGone
      <4>2. /\ i <= before[row.made] => i \in seen
            /\ \A c \in Channels : posted[m][i][c] <= unrec[m][i][c] \/ i \in seen \/ i = Item
        BY <4>1 DEF FeedInv, RowsTell, InHand
      <4>. QED BY <3>0, <3>1, <4>2
    <3>2. CASE w.pc = "mark"
      <4>1. CASE i \in w.items
        BY <3>0, <3>2, <4>1
      <4>2. CASE i \notin w.items
        <5>1. m \in 1 .. MaxMade
          BY LiveMade DEF FeedInv
        <5>2. i > before[row.made] /\ \A c \in Channels : posted[m][i][c] = 0
          BY <2>3, <3>2, <4>2, <5>1 DEF FeedInv, ReadAll, At
        <5>4. \A c \in Channels : unrec[m][i][c] \in Nat
          BY <5>1 DEF FeedInv, FeedTypes, Counts
        <5>3. i \in Int /\ before[row.made] \in Int
          BY <1>0, FeedAssumption DEF FeedInv, FeedTypes, Items
        <5>. QED BY <5>2, <5>3, <5>4
      <4>. QED BY <4>1, <4>2
    <3>. QED BY <1>0, <3>1, <3>2
  <2>. QED BY <2>1, <2>2, <2>3
<1>10. ReadAll' /\ KeysTell' /\ LeftUnsent' /\ RowsGone'
  <2>1. CASE w' = Sleeping
    BY <2>1, SleepingChecks DEF ReadAll, KeysTell, LeftUnsent, RowsGone, At
  <2>2. CASE w' # Sleeping
    <3>1. /\ w.pc = "remember" /\ row.exists /\ w'.pc = "send" /\ w'.snap = w.snap /\ w'.left = w.left
          /\ w'.to = w.to /\ w'.made = w.made /\ Item' = Item
      BY <1>3, <2>2 DEF Item
    <3>2. LeftUnsent'
      BY <1>0, <1>8, <3>1 DEF FeedInv, LeftUnsent, At
    <3>3. seen' # {}
      BY <1>0, <3>1 DEF Record
    <3>. QED BY <3>1, <3>2, <3>3 DEF ReadAll, KeysTell, RowsGone, At
  <2>. QED BY <2>1, <2>2
<1>. QED BY <1>4, <1>6, <1>8, <1>9, <1>10 DEF FeedInv

\* The site publishes an item.
LEMMA NewItemStep ==
    ASSUME FeedInv, NewItem
    PROVE  FeedInv'
<1>0. /\ top' = top + 1 /\ top \in Int /\ row.made \in 1 .. MaxMade /\ Window \in Nat \ {0}
      /\ UNCHANGED <<table, before, seen, posted, w, unrec, crossed>>
      /\ UNCHANGED <<row, cache, fill>> /\ before \in [1 .. MaxMade -> Int]
      /\ posted \in Counts /\ unrec \in Counts
  BY LiveMade, FeedAssumption DEF FeedInv, FeedTypes, NewItem, table
<1>1. \A i \in Items : i \in Int
  BY FeedAssumption DEF Items
<1>2. FeedTypes'
  <2>1. TableInv'
    BY <1>0, TableStep DEF FeedInv, FeedTypes
  <2>. QED BY <1>0, <2>1 DEF FeedInv, FeedTypes, At
<1>3. SnapsKnown' /\ FeedOnce' /\ Live' = Live
  BY <1>0 DEF FeedInv, SnapsKnown, FeedOnce, Live, Checking
<1>4. InTurn'
  <2>1. \A i \in Items : i <= top => i <= top'
    BY <1>0, <1>1
  <2>2. before[row.made] <= top'
    BY <1>0 DEF FeedInv, InTurn
  <2>. QED BY <1>0, <2>1, <2>2 DEF FeedInv, InTurn
<1>5. RowsTell'
  <2> SUFFICES ASSUME seen # {}, NEW m \in Live \ crossed, NEW i \in Items, i > top' - Window
               PROVE  /\ i <= before[row.made] => i \in seen
                      /\ \A d \in Channels :
                           posted[m][i][d] <= unrec[m][i][d] \/ i \in seen \/ InHand(m, i, d)
    BY <1>0, <1>3 DEF RowsTell, InHand, At, Item
  <2>1. i > top - Window
    BY <1>0, <1>1
  <2>. QED BY <2>1 DEF FeedInv, RowsTell
<1>6. \A i \in Int : (i <= top => i <= top') /\ (i > top' - Window => i > top - Window)
  BY <1>0
<1>7. ReadAll'
  BY <1>0, <1>1, <1>6 DEF FeedInv, FeedTypes, Checks, ReadAll, SeenOrUnsent, Unsent, At
<1>8. KeysTell' /\ LeftUnsent' /\ RowsGone'
  <2>1. \A i \in w.items \cup w.left : i \in Int
    BY <1>1 DEF FeedInv, FeedTypes, Checks
  <2>2. KeysTell'
    BY <1>0, <1>6, <2>1 DEF FeedInv, KeysTell, SeenOrUnsent, Unsent, At
  <2>3. LeftUnsent'
    BY <1>0, <1>6, <2>1 DEF FeedInv, LeftUnsent, At, Item
  <2>4. RowsGone'
    BY <1>0 DEF FeedInv, RowsGone
  <2>. QED BY <2>2, <2>3, <2>4
<1>. QED BY <1>2, <1>3, <1>4, <1>5, <1>7, <1>8 DEF FeedInv

\* What a handler of the owner may do to the task, its snapshot and the fills.
LEMMA OwnerFacts ==
    ASSUME TableInv, EditNext(Owner)
    PROVE  /\ row \in Rows /\ row' \in Rows /\ (cache' = cache \/ cache' = NoSnapshot)
           /\ Worker \in Readers
           /\ fill'[Worker].pc = fill[Worker].pc /\ fill'[Worker].copy = fill[Worker].copy
           /\ \/ row'.exists = row.exists /\ row'.made = row.made
              \/ row.exists /\ ~row'.exists /\ row'.made = row.made
              \/ ~row.exists /\ row'.exists /\ row'.made = row.made + 1
<1>0. row \in Rows /\ fill \in [Readers -> FillTypes] /\ Owner \in Editors /\ Worker \in Readers
  BY FeedAssumption DEF TableInv, TableTypeOK, Rows, FillTypes
<1>1. TableInv'
  BY <1>0, EditKeeps
<1>2. row' \in Rows
  BY <1>1 DEF TableInv, TableTypeOK, Rows
<1>3. ASSUME NEW new, NEW step, Write(Owner, new, step)
      PROVE  /\ row' = new
             /\ fill'[Worker].pc = fill[Worker].pc /\ fill'[Worker].copy = fill[Worker].copy
  <2>1. fill'[Worker] = [fill[Worker] EXCEPT !.late = fill[Worker].late \/ fill[Worker].pc = "store"]
    BY <1>0, <1>3 DEF Write
  <2>. QED BY <1>0, <1>3, <2>1 DEF Write, FillTypes
<1>4. CASE SwitchInBot(Owner) \/ SwitchInApp(Owner)
  <2> DEFINE b == ~row.on
  <2>1. PICK step : Write(Owner, [row EXCEPT !.on = b], step) /\ cache' = cache
    BY <1>4 DEF SwitchInBot, SwitchInApp
  <2> HIDE DEF b
  <2>2. /\ row' = [row EXCEPT !.on = b]
        /\ fill'[Worker].pc = fill[Worker].pc /\ fill'[Worker].copy = fill[Worker].copy
    BY <1>3, <2>1
  <2>3. row'.exists = row.exists /\ row'.made = row.made
    BY <1>0, <2>2 DEF Rows
  <2>. QED BY <1>0, <1>2, <2>1, <2>2, <2>3
<1>5. CASE DeleteInBot(Owner) \/ DeleteInApp(Owner)
  <2>1. PICK step : /\ Write(Owner, [row EXCEPT !.exists = FALSE], step) /\ cache' = cache
                    /\ row.exists
    BY <1>5 DEF DeleteInBot, DeleteInApp
  <2>2. /\ row' = [row EXCEPT !.exists = FALSE]
        /\ fill'[Worker].pc = fill[Worker].pc /\ fill'[Worker].copy = fill[Worker].copy
    BY <1>3, <2>1
  <2>3. ~row'.exists /\ row'.made = row.made
    BY <1>0, <2>2 DEF Rows
  <2>. QED BY <1>0, <1>2, <2>1, <2>2, <2>3
<1>6. CASE Create(Owner)
  BY <1>0, <1>2, <1>3, <1>6 DEF Create, Row
<1>7. CASE Invalidate(Owner)
  BY <1>0, <1>7 DEF Invalidate
<1>. QED BY <1>4, <1>5, <1>6, <1>7 DEF EditNext

\* What the owner does to the task, from under the worker that may be at its feed.
LEMMA OwnerStep ==
    ASSUME FeedInv, OwnerEdits
    PROVE  FeedInv'
<1>0. /\ row \in Rows /\ row' \in Rows /\ (cache' = cache \/ cache' = NoSnapshot)
      /\ fill'[Worker].pc = fill[Worker].pc /\ fill'[Worker].copy = fill[Worker].copy
      /\ UNCHANGED <<top, posted, w, unrec>>
      /\ seen' = (IF row'.exists THEN seen ELSE {})
      /\ before' = (IF row'.made > row.made THEN [before EXCEPT ![row'.made] = top] ELSE before)
      /\ crossed' = (IF row.exists /\ ~row'.exists /\ At("keys") THEN crossed \cup {w.snap.made}
                                                                 ELSE crossed)
      /\ TableInv /\ TableInv'
  BY OwnerFacts, EditKeeps, FeedAssumption DEF FeedInv, FeedTypes, OwnerEdits
<1>1. /\ row.made \in 1 .. MaxMade /\ row'.made \in 1 .. MaxMade /\ MaxMade \in Nat /\ top \in Int
      /\ before \in [1 .. MaxMade -> Int] /\ posted \in Counts /\ unrec \in Counts
  BY <1>0, MadeAssumption DEF Rows, FeedInv, FeedTypes
<1>2. Item' = Item /\ (Checking' <=> Checking)
  BY <1>0 DEF Item, Checking
\* The task is switched, or only its snapshot goes.
<1>3. CASE row'.exists = row.exists /\ row'.made = row.made
  <2>1. seen' = seen /\ before' = before /\ crossed' = crossed
    BY <1>0, <1>1, <1>3 DEF FeedInv, InTurn
  <2>2. Live' \subseteq Live /\ SnapsKnown'
    BY <1>0, <1>2, <1>3 DEF FeedInv, Live, SnapsKnown
  <2>3. FeedTypes' /\ InTurn' /\ FeedOnce'
    BY <1>0, <1>3, <2>1 DEF FeedInv, FeedTypes, InTurn, FeedOnce, At
  <2>4. RowsTell'
    BY <1>0, <1>2, <1>3, <2>1, <2>2 DEF FeedInv, RowsTell, InHand, At
  <2>5. ReadAll' /\ KeysTell' /\ LeftUnsent' /\ RowsGone'
    BY <1>0, <1>2, <1>3, <2>1
       DEF FeedInv, ReadAll, KeysTell, LeftUnsent, RowsGone, SeenOrUnsent, Unsent, At
  <2>. QED BY <2>2, <2>3, <2>4, <2>5 DEF FeedInv
\* It is deleted, and its rows with it.
<1>4. CASE row.exists /\ ~row'.exists /\ row'.made = row.made
  <2>1. seen' = {} /\ before' = before /\ crossed \subseteq crossed'
        /\ (At("keys") => w.snap.made \in crossed')
    BY <1>0, <1>1, <1>4
  <2>2. SnapsKnown'
    BY <1>0, <1>2, <1>4 DEF FeedInv, SnapsKnown
  <2>3. FeedTypes' /\ InTurn' /\ FeedOnce'
    BY <1>0, <1>4, <2>1 DEF FeedInv, FeedTypes, InTurn, FeedOnce, At
  <2>4. RowsTell' /\ RowsGone'
    BY <1>0, <1>4, <2>1 DEF RowsTell, RowsGone
  <2>5. ReadAll' /\ KeysTell'
    BY <1>0, <1>4, <2>1 DEF FeedInv, ReadAll, KeysTell, At
  <2>6. LeftUnsent'
    BY <1>0, <1>2, <2>1 DEF FeedInv, LeftUnsent, At
  <2>. QED BY <2>2, <2>3, <2>4, <2>5, <2>6 DEF FeedInv
\* Another one is made.
<1>5. CASE ~row.exists /\ row'.exists /\ row'.made = row.made + 1
  <2>1. /\ seen = {} /\ seen' = {} /\ crossed' = crossed /\ before' \in [1 .. MaxMade -> Int]
        /\ before'[row'.made] = top
        /\ \A m \in 1 .. row.made : m \in 1 .. MaxMade /\ before'[m] = before[m]
    BY <1>0, <1>1, <1>5 DEF FeedInv, InTurn
  <2>2. SnapsKnown'
    <3>1. \A z \in Snapshots : z.made \in Int
      BY <1>1 DEF Snapshots
    <3>2. row.made <= row'.made /\ w.made \in Int
      BY <1>1, <1>5 DEF FeedInv, FeedTypes, Checks
    <3>. QED BY <1>0, <1>1, <1>2, <3>1, <3>2 DEF FeedInv, SnapsKnown
  <2>3. FeedTypes'
    BY <1>0, <2>1 DEF FeedInv, FeedTypes, At
  <2>4. ASSUME NEW m \in 1 .. MaxMade, m > row.made, NEW i \in Items, NEW d \in Channels
        PROVE  posted[m][i][d] = 0 /\ unrec[m][i][d] \in Nat
    <3>1. posted[m][i][d] \in Nat /\ ~(posted[m][i][d] > 0)
      BY <1>1, <2>4 DEF FeedInv, InTurn, Counts
    <3>. QED BY <1>1, <3>1 DEF Counts
  <2>5. InTurn'
    <3>1. before[row.made] <= top /\ \A m \in 1 .. row.made : before[m] <= before[row.made]
      BY DEF FeedInv, InTurn
    <3>2. ASSUME NEW m \in 1 .. row'.made PROVE before'[m] <= before'[row'.made]
      <4>1. m \in 1 .. row.made \/ m = row'.made
        BY <1>1, <1>5
      <4>2. CASE m \in 1 .. row.made
        BY <1>1, <2>1, <3>1, <4>2
      <4>3. CASE m = row'.made
        BY <1>1, <2>1, <4>3
      <4>. QED BY <4>1, <4>2, <4>3
    <3>3. before'[row'.made] <= top
      BY <1>1, <2>1
    <3>4. \A m \in 1 .. MaxMade, i \in Items, d \in Channels :
            posted[m][i][d] > 0 => i <= top /\ m <= row'.made
      BY <1>1, <1>5 DEF FeedInv, InTurn
    <3>. QED BY <1>0, <1>5, <3>2, <3>3, <3>4 DEF InTurn
  <2>6. FeedOnce'
    <3> SUFFICES ASSUME NEW m \in (1 .. MaxMade) \ crossed, NEW i \in Items, NEW d \in Channels
                 PROVE  posted[m][i][d] <= IF i <= before'[m] THEN 0 ELSE 1 + unrec[m][i][d]
      BY <1>0, <2>1 DEF FeedOnce
    <3>1. CASE m > row.made
      BY <2>4, <3>1
    <3>2. CASE ~(m > row.made)
      <4>1. m \in 1 .. row.made
        BY <1>1, <3>2
      <4>. QED BY <2>1, <4>1 DEF FeedInv, FeedOnce
    <3>. QED BY <3>1, <3>2
  <2>7. RowsTell' /\ RowsGone'
    <3>1. row'.made # w.made
      BY <1>1, <1>5 DEF FeedInv, SnapsKnown, FeedTypes, Checks
    <3>. QED BY <1>0, <2>1, <3>1 DEF RowsTell, RowsGone
  <2>8. Checking => w.snap.made \in 1 .. row.made
    BY LiveMade DEF FeedInv
  <2>9. ReadAll'
    <3>1. row'.made # w.made
      BY <1>1, <1>5 DEF FeedInv, SnapsKnown, FeedTypes, Checks
    <3>. QED BY <1>0, <2>1, <3>1 DEF FeedInv, ReadAll, At
  <2>10. KeysTell'
    BY <1>0, <2>1, <2>8 DEF FeedInv, KeysTell, SeenOrUnsent, Unsent, At, Checking
  <2>11. LeftUnsent'
    BY <1>0, <1>2, <2>1, <2>8 DEF FeedInv, LeftUnsent, At, Checking
  <2>. QED BY <2>2, <2>3, <2>5, <2>6, <2>7, <2>9, <2>10, <2>11 DEF FeedInv
<1>. QED BY <1>3, <1>4, <1>5, OwnerFacts DEF FeedInv, FeedTypes, OwnerEdits

\* A check stops: what was sent and not recorded yet may be sent once more.
LEMMA Stops ==
    ASSUME FeedInv, TableInv', SnapsKnown', Live' \subseteq Live, w' = Sleeping,
           UNCHANGED <<row, top, before, seen, posted, crossed>>,
           unrec' = IF At("remember") THEN LostRow ELSE unrec
    PROVE  FeedInv'
<1> DEFINE z == w.snap.made
<1>0. unrec \in Counts /\ posted \in Counts
  BY DEF FeedInv, FeedTypes
<1>1. ASSUME At("remember")
      PROVE  w.chan \in Channels /\ z \in 1 .. MaxMade /\ Item \in Items
  <2>1. Checking
    BY <1>1 DEF At, Checking
  <2>2. w.chan \in Channels /\ z \in 1 .. MaxMade
    BY <1>1, <2>1, LiveMade DEF FeedInv, FeedTypes
  <2>. QED BY <1>1, <2>2, ItemIsLeft DEF FeedInv, FeedTypes, At
<1>2. unrec' \in Counts
  <2>1. CASE At("remember")
    <3>1. w.chan \in Channels /\ z \in 1 .. MaxMade /\ Item \in Items
      BY <1>1, <2>1
    <3>2. unrec' = [unrec EXCEPT ![z][Item][w.chan] = @ + 1]
      BY <2>1 DEF LostRow
    <3> HIDE DEF z
    <3>. QED BY <1>0, <3>1, <3>2, CountUp
  <2>. QED BY <1>0, <2>1
<1>3. ASSUME NEW m \in 1 .. MaxMade, NEW i \in Items, NEW d \in Channels
      PROVE  /\ unrec[m][i][d] \in Nat /\ posted[m][i][d] \in Nat
             /\ unrec'[m][i][d] = IF InHand(m, i, d) THEN unrec[m][i][d] + 1 ELSE unrec[m][i][d]
  <2>1. unrec[m][i][d] \in Nat /\ posted[m][i][d] \in Nat
    BY <1>0 DEF Counts
  <2>2. CASE At("remember")
    <3>1. w.chan \in Channels /\ z \in 1 .. MaxMade /\ Item \in Items
      BY <1>1, <2>2
    <3>2. unrec' = [unrec EXCEPT ![z][Item][w.chan] = @ + 1]
      BY <2>2 DEF LostRow
    <3>3. InHand(m, i, d) <=> m = z /\ i = Item /\ d = w.chan
      BY <2>2 DEF InHand
    <3> HIDE DEF z
    <3>4. unrec'[m][i][d] = IF m = z /\ i = Item /\ d = w.chan THEN unrec[m][i][d] + 1
                                                           ELSE unrec[m][i][d]
      <4>1. PICK ch \in Channels : ch = w.chan
        BY <3>1
      <4>2. PICK it \in Items : it = Item
        BY <3>1
      <4>3. unrec'[m][i][d] = IF m = z /\ i = it /\ d = ch THEN unrec[m][i][d] + 1
                                                       ELSE unrec[m][i][d]
        <5>1. /\ unrec \in Counts /\ z \in 1 .. MaxMade
              /\ unrec' = [unrec EXCEPT ![z][it][ch] = @ + 1]
          BY <1>0, <3>1, <3>2, <4>1, <4>2
        <5>2. [unrec EXCEPT ![z][it][ch] = @ + 1][m][i][d] =
                IF m = z /\ i = it /\ d = ch THEN unrec[m][i][d] + 1 ELSE unrec[m][i][d]
          BY <5>1, CountUp
        <5>. QED BY <5>1, <5>2, Zenon
      <4>. QED BY <4>1, <4>2, <4>3
    <3>. QED BY <2>1, <3>3, <3>4
  <2>3. CASE ~At("remember")
    BY <2>1, <2>3 DEF InHand
  <2>. QED BY <2>2, <2>3
<1>4. FeedTypes'
  BY <1>2, SleepingChecks DEF FeedInv, FeedTypes, At
<1>5. InTurn'
  BY DEF FeedInv, InTurn
<1>6. FeedOnce'
  <2> SUFFICES ASSUME NEW m \in (1 .. MaxMade) \ crossed, NEW i \in Items, NEW d \in Channels
               PROVE  posted[m][i][d] <= IF i <= before[m] THEN 0 ELSE 1 + unrec'[m][i][d]
    BY DEF FeedOnce
  <2>1. posted[m][i][d] <= IF i <= before[m] THEN 0 ELSE 1 + unrec[m][i][d]
    BY DEF FeedInv, FeedOnce
  <2>. QED BY <1>3, <2>1
<1>7. RowsTell'
  <2> SUFFICES ASSUME seen # {}, NEW m \in Live \ crossed, NEW i \in Items, i > top - Window
               PROVE  /\ i <= before[row.made] => i \in seen
                      /\ \A d \in Channels : posted[m][i][d] <= unrec'[m][i][d] \/ i \in seen
    BY DEF RowsTell
  <2>1. m \in 1 .. MaxMade
    BY LiveMade DEF FeedInv
  <2>2. /\ i <= before[row.made] => i \in seen
        /\ \A d \in Channels : posted[m][i][d] <= unrec[m][i][d] \/ i \in seen \/ InHand(m, i, d)
    BY DEF FeedInv, RowsTell
  <2>3. ASSUME NEW d \in Channels, InHand(m, i, d)
        PROVE  posted[m][i][d] <= unrec'[m][i][d]
    <3>1. posted[m][i][d] <= IF i <= before[m] THEN 0 ELSE 1 + unrec[m][i][d]
      BY <2>1 DEF FeedInv, FeedOnce
    <3>. QED BY <1>3, <2>1, <2>3, <3>1
  <2>. QED BY <1>3, <2>1, <2>2, <2>3
<1>8. ReadAll' /\ KeysTell' /\ LeftUnsent' /\ RowsGone'
  BY SleepingChecks DEF ReadAll, KeysTell, LeftUnsent, RowsGone, At
<1>. QED BY <1>4, <1>5, <1>6, <1>7, <1>8 DEF FeedInv

\* The row of a sent item cannot be written.
LEMMA RememberFailsStep ==
    ASSUME FeedInv, RememberFails
    PROVE  FeedInv'
<1>1. /\ UNCHANGED <<table, row, cache, fill>> /\ w' = Sleeping /\ TableInv /\ SnapsKnown
      /\ row.made \in 1 .. MaxMade /\ MaxMade \in Nat
  BY LiveMade, MadeAssumption DEF FeedInv, FeedTypes, RememberFails, table
<1>2. TableInv'
  BY <1>1, TableStep
<1>3. SnapsKnown' /\ Live' \subseteq Live
  BY <1>1, SleepingChecks DEF SnapsKnown, Live, Checking
<1>. QED BY <1>1, <1>2, <1>3, Stops DEF RememberFails

\* The process dies and starts again.
LEMMA CrashStep ==
    ASSUME FeedInv, Crash
    PROVE  FeedInv'
<1>0. /\ cache' = NoSnapshot /\ fill' = [r \in Readers |-> Asking] /\ w' = Sleeping
      /\ edit' = [e \in Editors |-> Ready] /\ unsaid' = FALSE
      /\ UNCHANGED <<row, meant, mixed, top, before, seen, posted, crossed>>
      /\ Worker \in Readers
      /\ row \in Rows /\ row.made \in 1 .. MaxMade /\ MaxMade \in Nat
  BY LiveMade, FeedAssumption, MadeAssumption DEF FeedInv, FeedTypes, Crash
<1>1. TableInv'
  <2>1. TableTypeOK'
    BY <1>0 DEF FeedInv, FeedTypes, TableInv, TableTypeOK, Ready, Asking
  <2>2. SnapshotFollows' /\ FillFollows' /\ SaveFollows'
    BY <1>0 DEF SnapshotFollows, FillFollows, SaveFollows, Editing, Ready, Asking
  <2>3. SettingsKept'
    BY <1>0 DEF FeedInv, FeedTypes, TableInv, SettingsKept
  <2>. QED BY <2>1, <2>2, <2>3 DEF TableInv
<1>2. SnapsKnown' /\ Live' \subseteq Live
  BY <1>0, SleepingChecks DEF SnapsKnown, Live, Asking, Checking
<1>. QED BY <1>0, <1>1, <1>2, Stops DEF Crash

\* Every step of the feed's worker, its owner and the site.
LEMMA FeedStep == FeedInv /\ [FeedNext]_<<table, feedVars>> => FeedInv'
<1> SUFFICES ASSUME FeedInv, [FeedNext]_<<table, feedVars>> PROVE FeedInv'
  OBVIOUS
<1>1. CASE FeedWork
  BY <1>1, AskSteps, ReadSteps, ItemSteps, SendStep, LostStep, RecordStep, RememberFailsStep
     DEF FeedWork
<1>2. CASE UNCHANGED <<table, feedVars>>
  <2>1. UNCHANGED <<table, top, before, seen, posted, w, unrec, crossed>>
    BY <1>2 DEF feedVars
  <2>2. TableInv' /\ UNCHANGED <<row, cache, fill>>
    BY <2>1, TableStep DEF FeedInv, FeedTypes, table
  <2>. QED BY <2>1, <2>2
           DEF FeedInv, FeedTypes, SnapsKnown, InTurn, RowsTell, ReadAll, KeysTell, LeftUnsent, RowsGone,
               FeedOnce, Live, Checking, At, SeenOrUnsent, Unsent, InHand, Item
<1>. QED BY <1>1, <1>2, NewItemStep, OwnerStep, CrashStep DEF FeedNext

\* A channel never shows an item that the site already showed when its task was made,
\* and any other item once, and once more each time its row was not written after it had
\* arrived (feedworker.py, publish): for any number of items, tasks, channels, lost answers,
\* failed rows and crashes.
THEOREM FeedPostsOnce == FeedSpec => []FeedOnce
<1>1. FeedInv => FeedOnce
  BY DEF FeedInv
<1>. QED BY <1>1, FeedBegins, FeedStep, PTL DEF FeedSpec

\* The snapshot follows the row under the feed's worker too, whose crashes drop it.
THEOREM FeedSnapshotTrue == FeedSpec => []SnapshotFollows
<1>1. FeedInv => SnapshotFollows
  BY DEF FeedInv, FeedTypes, TableInv
<1>. QED BY <1>1, FeedBegins, FeedStep, PTL DEF FeedSpec

-----------------------------------------------------------------------------
(* GapQueue: the posts that wait for their turn.                           *)

\* A finite nonempty set of integers has a greatest element, which Max is.
LEMMA MaxExists ==
    ASSUME NEW S, IsFiniteSet(S), S # {}, \A y \in S : y \in Int
    PROVE  Max(S) \in S /\ \A y \in S : Max(S) >= y
<1> DEFINE Above(x) == {y \in S : y >= x}
           Bad == {Above(x) : x \in S}
<1>1. Bad \in SUBSET SUBSET S /\ Bad # {} /\ IsFiniteSet(S)
  OBVIOUS
<1>2. PICK m \in Bad : \A t \in Bad : ~(t \subseteq m /\ t # m)
  <2> HIDE DEF Bad, Above
  <2>1. \E m \in Bad : \A t \in Bad : ~(t \subseteq m /\ t # m)
    BY <1>1, SmallestSet
  <2>. QED BY <2>1
<1>3. PICK x \in S : m = Above(x)
  BY <1>2
<1>4. ASSUME NEW y \in S, ~(x >= y) PROVE FALSE
  <2>0. (\A z \in S : z >= y => z >= x) /\ x >= x
    BY <1>4
  <2>1. Above(y) \subseteq Above(x) /\ x \in Above(x) /\ x \notin Above(y)
    BY <1>4, <2>0
  <2>. QED BY <1>2, <1>3, <2>1
<1>. QED BY <1>4 DEF Max

\* Of a job only the slot matters here.
IsJob(j) == "slot" \in DOMAIN j /\ j.slot \in Int
AreJobs == job = [r \in Workers |-> job[r]] /\ \A r \in Workers : IsJob(job[r])

\* A waiting row's clock is an integer, and so is everything it is compared with.
GapTypes ==
    /\ due \in [Posts -> Int] /\ opens \in Int /\ lastCopy \in Int
    /\ AreJobs
    /\ ~Hours => opens = 0
    /\ holder \in [Posts -> Workers \cup {"none"}]
    /\ pc \in [Workers -> {"idle", "gate", "insert", "send", "bump"}]
    /\ place \in [Posts -> Places]

\* The jobs that the steps give.
LEMMA JobsGiven ==
    ASSUME NEW p, NEW h, NEW R
    PROVE  /\ IsJob([NoJob EXCEPT !.post = p, !.waited = h, !.rows = R])
           /\ IsJob([NoJob EXCEPT !.rows = R])
<1>1. IsJob([NoJob EXCEPT !.post = p, !.waited = h, !.rows = R])
  BY DEF NoJob, IsJob
<1>2. IsJob([NoJob EXCEPT !.rows = R])
  BY DEF NoJob, IsJob
<1>. QED BY <1>1, <1>2

\* A job that is given a slot has it.
LEMMA SlotGiven ==
    ASSUME NEW j, IsJob(j), NEW t \in Int
    PROVE  IsJob([j EXCEPT !.slot = t]) /\ [j EXCEPT !.slot = t].slot = t
BY DEF IsJob

\* The slot a coroutine is about to insert is a gap after every row it has waiting,
\* or it is the opening of the hours.
SlotApart(r) ==
    pc[r] = "insert" /\ job[r].slot > -Gap =>
        \/ Hours /\ job[r].slot = opens
        \/ \A q \in Paced : holder[q] = r => job[r].slot - due[q] >= Gap

GapInv == GapTypes /\ SlotsApart /\ \A r \in Workers : SlotApart(r)

\* next_slot is a gap after every row of the queue.
LEMMA NextSlotIsLater ==
    ASSUME GapTypes
    PROVE  NextSlot \in Int /\ \A q \in Queue : NextSlot - due[q] >= Gap
<1> DEFINE D == {due[p] + Gap : p \in Queue}
           S == {0, Gap - lastCopy} \cup D
<1>1. Gap \in Int /\ S \subseteq Int /\ S # {} /\ \A q \in Queue : due[q] \in Int /\ due[q] + Gap \in S
  BY Clock DEF GapTypes, Queue
<1>2. IsFiniteSet(S)
  <2>1. IsFiniteSet(Queue)
    BY PostsAreIds, FS_Subset DEF Queue
  <2>2. IsFiniteSet(D)
    <3> DEFINE f == [p \in Queue |-> due[p] + Gap]
    <3>1. f \in Surjection(Queue, D)
      BY DEF Surjection
    <3>. QED BY <2>1, <3>1, FS_Surjection
  <2>3. IsFiniteSet({0}) /\ IsFiniteSet({Gap - lastCopy})
    BY FS_Singleton
  <2>4. S = {0} \cup ({Gap - lastCopy} \cup D)
    OBVIOUS
  <2> HIDE DEF D
  <2>5. IsFiniteSet({Gap - lastCopy} \cup D)
    BY <2>2, <2>3, FS_Union
  <2>. QED BY <2>3, <2>4, <2>5, FS_Union
<1>3. NextSlot = Max(S)
  BY DEF NextSlot
<1> HIDE DEF S
<1>4. Max(S) \in S /\ \A y \in S : Max(S) >= y
  BY <1>1, <1>2, MaxExists
<1>5. \A q \in Queue : Max(S) >= due[q] + Gap /\ due[q] \in Int
  BY <1>1, <1>4
<1>6. Max(S) \in Int
  BY <1>1, <1>4
<1>. QED BY <1>1, <1>3, <1>5, <1>6

\* A step of a coroutine brings no row into the queue but the one it inserts.
\* Every other row that is paced after it was paced before, and as far away.
LEMMA TickKeeps ==
    ASSUME GapInv, Hours => Gap <= Day, Tick
    PROVE  GapInv'
<1>0. /\ due \in [Posts -> Int] /\ opens \in Int /\ lastCopy \in Int /\ Gap \in Int
      /\ Day \in Int /\ Night \in Int /\ Gap > 0
      /\ AreJobs
      /\ ~Hours => opens = 0
      /\ holder \in [Posts -> Workers \cup {"none"}]
      /\ pc \in [Workers -> {"idle", "gate", "insert", "send", "bump"}]
      /\ place \in [Posts -> Places]
  BY Clock DEF GapInv, GapTypes
<1>1. \A t \in Int : Past(t) \in Int /\ Later(t) \in Int
  BY <1>0 DEF Past, Later
<1>2. /\ \A p \in Posts : due'[p] = Past(due[p])
      /\ \A r \in Workers : job'[r] = [job[r] EXCEPT !.slot = Past(job[r].slot)]
      /\ pc' = pc /\ place' = place /\ holder' = holder
      /\ opens' = IF ~Hours THEN 0 ELSE IF opens = 1 - Day THEN Night ELSE opens - 1
  BY DEF Tick
<1>3. ASSUME NEW r \in Workers
      PROVE  job'[r].slot = Past(job[r].slot) /\ job[r].slot \in Int /\ IsJob(job'[r])
  <2> DEFINE t == Past(job[r].slot)
  <2>1. job[r].slot \in Int /\ t \in Int
    BY <1>0, <1>1 DEF AreJobs, IsJob
  <2> HIDE DEF t
  <2>2. IsJob([job[r] EXCEPT !.slot = t]) /\ [job[r] EXCEPT !.slot = t].slot = t
    BY <1>0, <2>1, SlotGiven DEF AreJobs
  <2>3. job'[r] = [job[r] EXCEPT !.slot = t]
    BY <1>2 DEF t
  <2>4. job'[r].slot = t /\ IsJob(job'[r])
    BY <2>2, <2>3
  <2>. QED BY <2>1, <2>4 DEF t
<1>4. GapTypes'
  <2>1. AreJobs'
    BY <1>3 DEF AreJobs, Tick
  <2>2. opens' \in Int /\ lastCopy' \in Int /\ (~Hours => opens' = 0)
    BY <1>0, <1>1, <1>2 DEF Tick
  <2>3. due' \in [Posts -> Int]
    BY <1>0, <1>1 DEF Tick
  <2>. QED BY <1>0, <1>2, <2>1, <2>2, <2>3 DEF GapTypes
\* A time left that is not the opening's does not become it.
<1>5. ASSUME NEW t \in Int, Past(t) > -Gap, ~(Hours /\ Past(t) = opens')
      PROVE  t > -Gap /\ Past(t) = t - 1 /\ ~(Hours /\ t = opens)
  BY <1>0, <1>2, <1>5 DEF Past
<1>6. ASSUME NEW q \in Paced'
      PROVE  q \in Paced /\ due'[q] = due[q] - 1
  <2>1. q \in Queue /\ q \in Posts /\ due'[q] = Past(due[q]) /\ due[q] \in Int
        /\ due'[q] > -Gap /\ ~(Hours /\ due'[q] = opens')
    BY <1>0, <1>2, <1>6 DEF Paced, Queue
  <2>. QED BY <1>5, <2>1 DEF Paced
<1>7. SlotsApart'
  <2> SUFFICES ASSUME NEW p \in Paced', NEW q \in Paced', p # q, holder'[p] = holder'[q],
                      due'[p] <= due'[q]
               PROVE  due'[q] - due'[p] >= Gap
    BY DEF SlotsApart
  <2>1. due[p] \in Int /\ due[q] \in Int
    BY <1>0, <1>6 DEF Paced, Queue
  <2>. QED BY <1>0, <1>2, <1>6, <2>1 DEF GapInv, SlotsApart
<1>8. ASSUME NEW r \in Workers PROVE SlotApart(r)'
  <2> SUFFICES ASSUME pc'[r] = "insert", job'[r].slot > -Gap, ~(Hours /\ job'[r].slot = opens'),
                      NEW q \in Paced', holder'[q] = r
               PROVE  job'[r].slot - due'[q] >= Gap
    BY DEF SlotApart
  <2>1. job[r].slot > -Gap /\ job'[r].slot = job[r].slot - 1 /\ ~(Hours /\ job[r].slot = opens)
    BY <1>0, <1>3, <1>5
  <2>2. q \in Paced /\ due'[q] = due[q] - 1 /\ due[q] \in Int /\ job[r].slot \in Int
    <3>1. q \in Paced /\ due'[q] = due[q] - 1
      BY <1>6
    <3>. QED BY <1>0, <1>3, <3>1 DEF Paced, Queue
  <2>3. job[r].slot - due[q] >= Gap
    BY <1>2, <2>1, <2>2 DEF GapInv, SlotApart
  <2>. QED BY <1>0, <2>1, <2>2, <2>3
<1>. QED BY <1>4, <1>7, <1>8 DEF GapInv

\* What every other step shares: the clocks stand still, and a row in the queue was
\* there before, unless it is the one that is inserted now.
Still(r, old) ==
    /\ opens' = opens /\ lastCopy' \in Int
    /\ AreJobs'
    /\ due' \in [Posts -> Int]
    /\ pc' \in [Workers -> {"idle", "gate", "insert", "send", "bump"}]
    /\ place' \in [Posts -> Places] /\ holder' \in [Posts -> Workers \cup {"none"}]
    /\ \A q \in old : q \in Queue /\ due'[q] = due[q] /\ holder'[q] = holder[q]
    /\ \A z \in Workers : z # r => pc'[z] = pc[z] /\ job'[z] = job[z]

\* Such a step keeps the invariant, if its coroutine does not come to insert.
LEMMA StillKeeps ==
    ASSUME GapInv, NEW r, Still(r, Queue'), r \in Workers => SlotApart(r)'
    PROVE  GapInv'
<1>0. GapTypes /\ SlotsApart /\ \A z \in Workers : SlotApart(z)
  BY DEF GapInv
<1>1. GapTypes'
  BY <1>0 DEF GapTypes, Still
<1>2. ASSUME NEW q \in Paced' PROVE q \in Paced /\ due'[q] = due[q] /\ holder'[q] = holder[q]
  BY <1>2 DEF Still, Paced
<1>3. SlotsApart'
  BY <1>0, <1>2 DEF SlotsApart
<1>4. ASSUME NEW z \in Workers, z # r PROVE SlotApart(z)'
  BY <1>0, <1>2, <1>4 DEF SlotApart, Still
<1>. QED BY <1>1, <1>3, <1>4 DEF GapInv

\* Every step of a coroutine.
LEMMA GapWork ==
    ASSUME GapInv, NEW r \in Workers, Work(r)
    PROVE  GapInv'
<1>0. /\ due \in [Posts -> Int] /\ opens \in Int /\ lastCopy \in Int /\ Gap \in Int
      /\ AreJobs
      /\ ~Hours => opens = 0
      /\ holder \in [Posts -> Workers \cup {"none"}]
      /\ pc \in [Workers -> {"idle", "gate", "insert", "send", "bump"}]
      /\ place \in [Posts -> Places]
  BY Clock DEF GapInv, GapTypes
\* The step gives its coroutine another job.
<1>1. ASSUME NEW j, IsJob(j), job' = [job EXCEPT ![r] = j]
      PROVE  AreJobs' /\ job'[r] = j /\ (\A z \in Workers : z # r => job'[z] = job[z])
  BY <1>0, <1>1 DEF AreJobs
\* Such a step does, if it brings no row into the queue and comes not to insert.
<1>2. ASSUME NEW j, IsJob(j), job' = [job EXCEPT ![r] = j], pc'[r] # "insert",
             \A z \in Workers : z # r => pc'[z] = pc[z],
             pc' \in [Workers -> {"idle", "gate", "insert", "send", "bump"}],
             place' \in [Posts -> Places], holder' \in [Posts -> Workers \cup {"none"}],
             UNCHANGED <<due, opens>>, lastCopy' \in Int,
             \A q \in Queue' : q \in Queue /\ holder'[q] = holder[q]
      PROVE  GapInv'
  <2>1. Still(r, Queue')
    BY <1>0, <1>1, <1>2 DEF Still
  <2>. QED BY <1>2, <2>1, StillKeeps DEF SlotApart
<1>3. ASSUME NEW p, NEW h, NEW R, Take(r, p, h, R)
      PROVE  GapInv'
  <2> DEFINE j == [NoJob EXCEPT !.post = p, !.waited = h, !.rows = R]
  <2>1. IsJob(j)
    BY JobsGiven
  <2>2. job' = [job EXCEPT ![r] = j]
    BY <1>3 DEF Take
  <2>3. \A q \in Queue' : q \in Queue /\ q # p
    BY <1>0, <1>3 DEF Take, Queue
  <2>4. \A q \in Queue' : q \in Queue /\ holder'[q] = holder[q]
    BY <1>0, <1>3, <2>3 DEF Take, Queue
  <2>5. /\ place' \in [Posts -> Places] /\ holder' \in [Posts -> Workers \cup {"none"}]
        /\ pc' = [pc EXCEPT ![r] = "gate"]
        /\ UNCHANGED <<due, opens>> /\ lastCopy' \in Int
    BY <1>0, <1>3 DEF Take, Places
  <2> HIDE DEF j
  <2>. QED BY <1>0, <1>2, <2>1, <2>2, <2>4, <2>5
\* Giving a post up, or having sent it.
<1>4. ASSUME NEW to \in {"missed", "shown"}, Leave(r, to), UNCHANGED <<due, opens, holder>>,
             lastCopy' \in Int
      PROVE  GapInv'
  <2> DEFINE j == [NoJob EXCEPT !.rows = job[r].rows]
  <2>1. IsJob(j)
    BY JobsGiven
  <2>2. job' = [job EXCEPT ![r] = j]
    BY <1>4 DEF Leave
  <2>3. \A q \in Queue' : q \in Queue /\ holder'[q] = holder[q]
    BY <1>0, <1>4 DEF Leave, Queue
  <2>4. place' \in [Posts -> Places] /\ pc' = [pc EXCEPT ![r] = "idle"]
    BY <1>0, <1>4 DEF Leave, Places
  <2> HIDE DEF j
  <2>. QED BY <1>0, <1>2, <1>4, <2>1, <2>2, <2>3, <2>4
\* Holding a post for a slot that is apart from the rows of this coroutine.
<1>5. ASSUME NEW t \in Int, Hold(r, t), UNCHANGED <<due, lastCopy, opens, holder>>,
             (Hours /\ t = opens) \/ (\A q \in Queue : t - due[q] >= Gap)
      PROVE  GapInv'
  <2> DEFINE j == [job[r] EXCEPT !.slot = t]
  <2>1. IsJob(j) /\ j.slot = t
    BY <1>0, SlotGiven DEF AreJobs
  <2>2. job' = [job EXCEPT ![r] = j] /\ Queue' = Queue
    BY <1>5 DEF Hold, Queue
  <2> HIDE DEF j
  <2>3. AreJobs' /\ job'[r].slot = t /\ (\A z \in Workers : z # r => job'[z] = job[z])
    BY <1>1, <2>1, <2>2
  <2>4. Still(r, Queue')
    BY <1>0, <1>5, <2>2, <2>3 DEF Hold, Still, Queue
  <2>5. SlotApart(r)'
    <3>1. CASE Hours /\ t = opens
      BY <1>5, <2>3, <3>1 DEF SlotApart
    <3>2. CASE \A q \in Queue : t - due[q] >= Gap
      BY <1>5, <2>2, <2>3, <3>2 DEF SlotApart, Paced
    <3>. QED BY <1>5, <3>1, <3>2
  <2>. QED BY <2>4, <2>5, StillKeeps
<1>6. CASE LiveTake(r)
  BY <1>3, <1>6 DEF LiveTake
<1>7. CASE SweepTake(r)
  BY <1>3, <1>7 DEF SweepTake
<1>8. CASE ReleaseList(r)
  <2> DEFINE ripe == {p \in Queue : due[p] <= 0}
             j == [NoJob EXCEPT !.rows = ripe]
  <2>1. IsJob(j)
    BY JobsGiven
  <2>2. job' = [job EXCEPT ![r] = j]
    BY <1>8 DEF ReleaseList
  <2>3. /\ pc[r] = "idle" /\ UNCHANGED <<place, due, lastCopy, opens, holder, pc>>
        /\ Queue' = Queue
    BY <1>8 DEF ReleaseList, Queue
  <2> HIDE DEF j
  <2>. QED BY <1>0, <1>2, <2>1, <2>2, <2>3
<1>9. CASE ReleaseTake(r)
  BY <1>3, <1>9 DEF ReleaseTake
<1>10. CASE HoursGate(r)
  <2>1. CASE Hold(r, opens)
    BY <1>0, <1>5, <1>10, <2>1 DEF HoursGate
  <2>2. CASE Leave(r, "missed")
    BY <1>0, <1>4, <1>10, <2>2 DEF HoursGate
  <2>. QED BY <1>10, <2>1, <2>2 DEF HoursGate
<1>11. CASE GapGate(r)
  <2>1. CASE Hold(r, NextSlot)
    <3>1. NextSlot \in Int /\ (\A q \in Queue : NextSlot - due[q] >= Gap)
      BY NextSlotIsLater DEF GapInv
    <3>. QED BY <1>5, <1>11, <2>1, <3>1 DEF GapGate
  <2>2. CASE pc' = [pc EXCEPT ![r] = "send"] /\ UNCHANGED <<place, job>>
    <3>1. job' = [job EXCEPT ![r] = job[r]] /\ IsJob(job[r])
      BY <1>0, <2>2 DEF AreJobs
    <3>2. Queue' = Queue /\ UNCHANGED <<due, lastCopy, opens, holder>>
      BY <1>11, <2>2 DEF GapGate, Queue
    <3>. QED BY <1>0, <1>2, <2>2, <3>1, <3>2
  <2>. QED BY <1>11, <2>1, <2>2 DEF GapGate
<1>12. CASE Send(r)
  <2>1. job' = [job EXCEPT ![r] = job[r]] /\ IsJob(job[r])
    BY <1>0, <1>12 DEF AreJobs, Send
  <2>2. \A q \in Queue' : q \in Queue
    BY <1>0, <1>12 DEF Send, Queue
  <2>3. /\ UNCHANGED <<due, lastCopy, opens, holder>> /\ pc' = [pc EXCEPT ![r] = "bump"]
        /\ place' \in [Posts -> Places]
    BY <1>0, <1>12 DEF Send, Places
  <2>. QED BY <1>0, <1>2, <2>1, <2>2, <2>3
<1>13. CASE Bump(r)
  BY <1>4, <1>13 DEF Bump
<1>14. CASE Insert(r)
  <2> DEFINE p == job[r].post
  <2>1. /\ pc[r] = "insert"
        /\ due' = [due EXCEPT ![p] = job[r].slot]
        /\ holder' = [holder EXCEPT ![p] = r]
        /\ pc' = [pc EXCEPT ![r] = "idle"]
        /\ job' = [job EXCEPT ![r] = [NoJob EXCEPT !.rows = job[r].rows]]
        /\ UNCHANGED <<lastCopy, opens>>
    BY <1>14 DEF Insert, Leave
  <2>2. \A q \in Queue' : q # p => q \in Queue
    BY <1>14 DEF Insert, Leave, Queue
  <2>3. AreJobs' /\ job[r].slot \in Int /\ due' \in [Posts -> Int] /\ place' \in [Posts -> Places]
        /\ (\A z \in Workers : z # r => job'[z] = job[z])
    <3> DEFINE j == [NoJob EXCEPT !.rows = job[r].rows]
    <3>1. IsJob(j)
      BY JobsGiven
    <3>2. job' = [job EXCEPT ![r] = j]
      BY <2>1
    <3> HIDE DEF j
    <3>3. AreJobs' /\ (\A z \in Workers : z # r => job'[z] = job[z])
      BY <1>1, <3>1, <3>2
    <3>4. job[r].slot \in Int
      BY <1>0 DEF AreJobs, IsJob
    <3>5. due' \in [Posts -> Int] /\ place' \in [Posts -> Places]
      BY <1>0, <1>14, <2>1, <3>4 DEF Insert, Leave, Places
    <3>. QED BY <3>3, <3>4, <3>5
  <2>4. GapTypes'
    <3>1. /\ holder' \in [Posts -> Workers \cup {"none"}]
          /\ pc' \in [Workers -> {"idle", "gate", "insert", "send", "bump"}]
      BY <1>0, <2>1
    <3>. QED BY <1>0, <2>1, <2>3, <3>1 DEF GapTypes
  <2>5. ASSUME NEW q \in Paced', q # p
        PROVE  q \in Paced /\ due'[q] = due[q] /\ holder'[q] = holder[q]
    BY <2>1, <2>2, <2>5 DEF Paced, Queue
\* The row that is inserted now is a gap after the others of this coroutine.
  <2>6. ASSUME NEW q \in Paced', q # p, p \in Paced', holder'[p] = holder'[q]
        PROVE  due'[p] - due'[q] >= Gap
    <3>1. due'[p] = job[r].slot /\ holder'[p] = r /\ p \in Posts
      BY <1>0, <2>1, <2>6 DEF Paced, Queue, GapInv, GapTypes
    <3>. QED BY <2>1, <2>5, <2>6, <3>1 DEF GapInv, SlotApart, Paced
  <2>7. SlotsApart'
    <3> SUFFICES ASSUME NEW a \in Paced', NEW b \in Paced', a # b, holder'[a] = holder'[b],
                        due'[a] <= due'[b]
                 PROVE  due'[b] - due'[a] >= Gap
      BY DEF SlotsApart
    <3>0. due'[a] \in Int /\ due'[b] \in Int /\ Gap \in Int /\ Gap > 0
      BY <2>3, Clock DEF Paced, Queue
    <3>1. CASE a # p /\ b # p
      BY <2>5, <3>1 DEF GapInv, SlotsApart
    <3>2. CASE b = p
      BY <2>6, <3>2
    <3>3. CASE a = p
      BY <2>6, <3>0, <3>3
    <3>. QED BY <3>1, <3>2, <3>3
  <2>8. ASSUME NEW z \in Workers PROVE SlotApart(z)'
    <3>1. CASE z = r
      BY <1>0, <2>1, <3>1 DEF SlotApart
    <3>2. CASE z # r
      <4>1. pc'[z] = pc[z] /\ job'[z] = job[z]
        BY <1>0, <2>1, <2>3, <3>2
      <4>2. ASSUME NEW q \in Paced', holder'[q] = z PROVE q \in Paced /\ due'[q] = due[q] /\ holder[q] = z
        <5>1. q # p
          BY <1>0, <2>1, <3>2, <4>2 DEF Paced, Queue, GapInv, GapTypes
        <5>. QED BY <2>5, <4>2, <5>1
      <4>. QED BY <2>1, <4>1, <4>2 DEF GapInv, SlotApart
    <3>. QED BY <3>1, <3>2
  <2>. QED BY <2>4, <2>7, <2>8 DEF GapInv
<1>. QED BY <1>6, <1>7, <1>8, <1>9, <1>10, <1>11, <1>12, <1>13, <1>14 DEF Work

\* Rows that one coroutine inserted are a gap apart for as long as they wait for
\* their turn (slots.py, next_slot; Copier._hold), whatever the other coroutines insert
\* in between, if the hours stay open for a gap at least.
THEOREM SlotsStayApart ==
    ASSUME Hours => Gap <= Day
    PROVE  Spec => []SlotsApart
<1>1. Init => GapInv
  <2> SUFFICES ASSUME Init PROVE GapInv
    OBVIOUS
  <2>1. Paced = {} /\ \A r \in Workers : pc[r] # "insert"
    BY DEF Init, Paced, Queue
  <2>2. AreJobs
    <3>1. IsJob(NoJob)
      BY DEF NoJob, IsJob
    <3>. QED BY <3>1 DEF Init, AreJobs
  <2>3. GapTypes
    BY <2>2, Clock DEF Init, GapTypes, Places
  <2>. QED BY <2>1, <2>3 DEF GapInv, SlotsApart, SlotApart
<1>2. GapInv /\ [Next]_vars => GapInv'
  <2> SUFFICES ASSUME GapInv, [Next]_vars PROVE GapInv'
    OBVIOUS
  <2>1. CASE Tick
    BY <2>1, TickKeeps
  <2>2. ASSUME NEW r \in Workers, Work(r) PROVE GapInv'
    BY <2>2, GapWork
  <2>3. ASSUME NEW p \in Posts, Publish(p) PROVE GapInv'
    <3>1. /\ place \in [Posts -> Places]
          /\ UNCHANGED <<due, lastCopy, opens, holder, pc, job>>
      BY <2>3 DEF Publish, GapInv, GapTypes
    <3>2. place' \in [Posts -> Places] /\ (\A q \in Queue' : q \in Queue)
      BY <2>3, <3>1 DEF Publish, Queue, Places
    <3>3. Paced' \subseteq Paced
      BY <3>1, <3>2 DEF Paced
    <3>4. GapTypes'
      BY <3>1, <3>2 DEF GapInv, GapTypes, AreJobs
    <3>. QED BY <3>1, <3>3, <3>4 DEF GapInv, SlotsApart, SlotApart
  <2>4. CASE UNCHANGED vars
    <3>1. Paced' = Paced /\ UNCHANGED vars
      BY <2>4 DEF vars, Paced, Queue
    <3>. QED BY <3>1 DEF vars, GapInv, GapTypes, AreJobs, SlotsApart, SlotApart
  <2>. QED BY <2>1, <2>2, <2>3, <2>4 DEF Next
<1>. QED BY <1>1, <1>2, PTL DEF Spec, GapInv

-----------------------------------------------------------------------------
(* SourceQueue: the places of one source's posts, and who has which.       *)

QueueStates == {"free", "alert", "stray", "queue", "worker", "over", "lost"} \cup Orders

\* Of the places before one that is being waited for, none is still to come.
Passed == {"grace", "fast", "over", "lost"}

PlaceTypes ==
    /\ MaxPlace \in Nat /\ taken \in 0 .. MaxPlace
    /\ at \in [Slots -> QueueStates] /\ waiting \in Seq(Slots)
    /\ worker \in [pc : {"none", "get", "wait", "job"}, place : 0 .. MaxPlace]

\* The queue holds the places that wait, each once, and in their order but for those
\* whose handler was held up.
InQueue ==
    /\ \A i \in Slots : at[i] = "free" <=> i > taken
    /\ \A k \in 1 .. Len(waiting) : at[waiting[k]] = "queue"
    /\ \A i \in Slots : at[i] = "queue" => \E k \in 1 .. Len(waiting) : waiting[k] = i
    /\ \A k, l \in 1 .. Len(waiting) : k < l =>
         /\ waiting[k] # waiting[l]
         /\ waiting[k] < waiting[l] \/ waiting[k] \in alerted \/ waiting[l] \in alerted
    /\ \A i \in Slots : at[i] \in {"alert", "stray"} => i \in alerted

\* The worker has one place at a time; a post in strict order is the one it waits for.
AtWorker ==
    /\ worker.pc = "wait" => worker.place \in Slots /\ at[worker.place] = "worker"
    /\ \A i \in Slots : /\ at[i] = "worker" => worker.pc = "wait" /\ worker.place = i
                        /\ at[i] = "strict" => worker.pc = "job" /\ worker.place = i
    /\ \A i, j \in Slots \ alerted : (i < j /\ at[j] = "worker") => at[i] \in Passed

OrderInv == PlaceTypes /\ InQueue /\ AtWorker /\ OrderKept

\* A post takes the next place.
LEMMA PlaceTaken ==
    ASSUME OrderInv, NEW messages, NEW complete, TakePlace(taken + 1, messages, complete)
    PROVE  /\ OrderInv' /\ taken' = taken + 1 /\ taken' \in Slots
           /\ at'[taken'] \in {"queue", "alert"}
           /\ \A i \in Slots : i # taken' => at'[i] = at[i]
<1> DEFINE n == taken + 1
<1>0. /\ PlaceTypes /\ InQueue /\ AtWorker /\ OrderKept
      /\ n \in Slots /\ taken' = n /\ n \in Int /\ taken \in Int
      /\ at' = [at EXCEPT ![n] = "queue"] \/ at' = [at EXCEPT ![n] = "alert"]
      /\ alerted \subseteq alerted'
  BY DEF OrderInv, TakePlace, Enqueue, PlaceTypes
<1>1. /\ at' \in [Slots -> QueueStates] /\ at'[n] \in {"queue", "alert"}
      /\ \A i \in Slots : i # n => at'[i] = at[i]
  BY <1>0 DEF PlaceTypes, QueueStates
<1>2. /\ worker' \in [pc : {"none", "get", "wait", "job"}, place : 0 .. MaxPlace]
      /\ (worker' = worker \/ (worker.pc = "none" /\ worker'.pc = "get"))
  BY <1>0 DEF TakePlace, PlaceTypes
<1>3. /\ waiting' \in Seq(Slots)
      /\ \/ at'[n] = "queue" /\ waiting' = Append(waiting, n) /\ alerted' = alerted
         \/ at'[n] = "alert" /\ waiting' = waiting /\ alerted' = alerted \cup {n}
  <2>1. CASE at' = [at EXCEPT ![n] = "queue"] /\ waiting' = Append(waiting, n) /\ alerted' = alerted
    BY <1>0, <2>1 DEF PlaceTypes
  <2>2. CASE at' = [at EXCEPT ![n] = "alert"] /\ waiting' = waiting /\ alerted' = alerted \cup {n}
    BY <1>0, <2>2 DEF PlaceTypes
  <2>. QED BY <2>1, <2>2 DEF TakePlace, Enqueue
<1>4. PlaceTypes'
  BY <1>0, <1>1, <1>2, <1>3 DEF PlaceTypes, Slots
<1>5. at[n] = "free" /\ \A i \in Slots : i > n => at[i] = "free"
  BY <1>0 DEF InQueue, Slots, PlaceTypes
<1>6. InQueue'
  <2>1. \A i \in Slots : at'[i] = "free" <=> i > n
    BY <1>0, <1>1 DEF InQueue, Slots, PlaceTypes
  <2>2. \A i \in Slots : at'[i] \in {"alert", "stray"} => i \in alerted'
    BY <1>0, <1>1, <1>3 DEF InQueue
  <2>3. CASE at'[n] = "alert" /\ waiting' = waiting /\ alerted' = alerted \cup {n}
    <3>1. \A k \in 1 .. Len(waiting) : waiting[k] # n /\ waiting[k] \in Slots
      BY <1>0, <1>5 DEF InQueue, PlaceTypes
    <3>. QED BY <1>0, <1>1, <2>1, <2>2, <2>3, <3>1 DEF InQueue
  <2>4. CASE at'[n] = "queue" /\ waiting' = Append(waiting, n) /\ alerted' = alerted
    <3>1. /\ Len(waiting') = Len(waiting) + 1 /\ Len(waiting) \in Nat /\ waiting'[Len(waiting) + 1] = n
          /\ \A k \in 1 .. Len(waiting) : waiting'[k] = waiting[k] /\ waiting[k] \in Slots
      BY <1>0, <2>4 DEF PlaceTypes
    <3>2. \A k \in 1 .. Len(waiting) : waiting[k] # n /\ waiting[k] < n
      <4>1. ASSUME NEW k \in 1 .. Len(waiting) PROVE waiting[k] # n /\ waiting[k] < n
        <5>1. waiting[k] \in Slots /\ at[waiting[k]] = "queue"
          BY <1>0, <3>1 DEF InQueue
        <5>. QED BY <1>0, <1>5, <5>1 DEF Slots, PlaceTypes
      <4>. QED BY <4>1
    <3>3. \A k \in 1 .. Len(waiting') : at'[waiting'[k]] = "queue"
      BY <1>0, <1>1, <2>4, <3>1, <3>2 DEF InQueue
    <3>4. \A i \in Slots : at'[i] = "queue" => \E k \in 1 .. Len(waiting') : waiting'[k] = i
      <4> SUFFICES ASSUME NEW i \in Slots, at'[i] = "queue"
                   PROVE  \E k \in 1 .. Len(waiting') : waiting'[k] = i
        OBVIOUS
      <4>1. CASE i = n
        BY <3>1, <4>1
      <4>2. CASE i # n
        <5>1. PICK k \in 1 .. Len(waiting) : waiting[k] = i
          BY <1>0, <1>1, <4>2 DEF InQueue
        <5>. QED BY <3>1, <5>1
      <4>. QED BY <4>1, <4>2
    <3>5. \A k, l \in 1 .. Len(waiting') : k < l =>
            /\ waiting'[k] # waiting'[l]
            /\ waiting'[k] < waiting'[l] \/ waiting'[k] \in alerted' \/ waiting'[l] \in alerted'
      <4> SUFFICES ASSUME NEW k \in 1 .. Len(waiting'), NEW l \in 1 .. Len(waiting'), k < l
                   PROVE  /\ waiting'[k] # waiting'[l]
                          /\ waiting'[k] < waiting'[l] \/ waiting'[k] \in alerted' \/ waiting'[l] \in alerted'
        OBVIOUS
      <4>1. k \in 1 .. Len(waiting) /\ (l \in 1 .. Len(waiting) \/ l = Len(waiting) + 1)
        BY <3>1
      <4>. QED BY <1>0, <2>4, <3>1, <3>2, <4>1 DEF InQueue
    <3>. QED BY <1>0, <2>1, <2>2, <3>3, <3>4, <3>5 DEF InQueue
  <2>. QED BY <1>3, <2>3, <2>4
<1>7. AtWorker'
  <2>1. \A i \in Slots : at'[i] \in {"worker", "strict"} => at'[i] = at[i] /\ i # n
    BY <1>1
  <2>2. worker.pc \in {"wait", "job"} => worker' = worker
    BY <1>2
  <2>3. ASSUME NEW i \in Slots \ alerted', NEW j \in Slots \ alerted', i < j, at'[j] = "worker"
        PROVE  at'[i] \in Passed
    <3>1. at[j] = "worker" /\ j # n /\ i \in Slots \ alerted /\ j \in Slots \ alerted
      BY <1>0, <2>1, <2>3
    <3>2. at[i] \in Passed
      BY <1>0, <2>3, <3>1 DEF AtWorker
    <3>. QED BY <1>1, <1>5, <3>1, <3>2 DEF Passed
  <2>4. worker'.pc = "wait" => worker'.place \in Slots /\ at'[worker'.place] = "worker"
    BY <1>0, <1>1, <1>2, <1>5 DEF AtWorker
  <2>. QED BY <1>0, <2>1, <2>2, <2>3, <2>4 DEF AtWorker
<1>8. OrderKept'
  <2> SUFFICES ASSUME NEW i \in Slots \ alerted', NEW j \in Slots \ alerted', i < j,
                      at'[j] \in Orders \cup {"over"}
               PROVE  at'[i] \in {"grace", "fast", "over", "lost"}
    BY DEF OrderKept
  <2>1. at[j] = at'[j] /\ j # n
    BY <1>1 DEF Orders
  <2>2. at[i] \in {"grace", "fast", "over", "lost"}
    BY <1>0, <2>1 DEF OrderKept
  <2>. QED BY <1>1, <1>5, <2>2
<1>. QED BY <1>0, <1>1, <1>4, <1>6, <1>7, <1>8 DEF OrderInv

\* What changes none of this.
LEMMA OrderSame ==
    ASSUME OrderInv, UNCHANGED <<taken, at, waiting, worker, alerted>>
    PROVE  OrderInv'
BY DEF OrderInv, PlaceTypes, InQueue, AtWorker, OrderKept

\* The three handlers of updates.
LEMMA HearKeepsOrder ==
    ASSUME OrderInv, HearAlbum \/ \E m \in Updates : HearText(m) \/ HearPart(m)
    PROVE  OrderInv'
<1>1. ASSUME NEW messages, NEW complete, TakeAlbumPlace(messages, complete)
      PROVE  OrderInv'
  BY <1>1, PlaceTaken DEF TakeAlbumPlace
<1>2. CASE HearAlbum
  BY <1>1, <1>2, OrderSame DEF HearAlbum, FillAlbum
<1>3. ASSUME NEW m \in Updates, HearText(m)
      PROVE  OrderInv'
  BY <1>3, PlaceTaken DEF HearText
<1>4. ASSUME NEW m \in Updates, HearPart(m)
      PROVE  OrderInv'
  BY <1>1, <1>4, OrderSame DEF HearPart, AddPart
<1>. QED BY <1>2, <1>3, <1>4

\* The alert was sent.
LEMMA AlertKeepsOrder ==
    ASSUME OrderInv, NEW n \in Slots, AlertEnds(n)
    PROVE  OrderInv'
<1>0. /\ PlaceTypes /\ InQueue /\ AtWorker /\ OrderKept
      /\ n \in alerted /\ at[n] \in {"alert", "stray"} /\ n <= taken
      /\ UNCHANGED <<taken, worker, alerted>>
      /\ at' = [at EXCEPT ![n] = IF at[n] = "alert" THEN "queue" ELSE "lost"]
      /\ waiting' = IF at[n] = "alert" THEN Append(waiting, n) ELSE waiting
  BY DEF OrderInv, AlertEnds, InQueue, PlaceTypes, Slots
<1>1. /\ at' \in [Slots -> QueueStates] /\ at'[n] \in {"queue", "lost"}
      /\ \A i \in Slots : i # n => at'[i] = at[i]
  BY <1>0 DEF PlaceTypes, QueueStates
<1>2. PlaceTypes'
  BY <1>0, <1>1 DEF PlaceTypes
<1>3. InQueue'
  <2>1. /\ \A i \in Slots : at'[i] = "free" <=> i > taken
        /\ \A i \in Slots : at'[i] \in {"alert", "stray"} => i \in alerted
    BY <1>0, <1>1 DEF InQueue, Slots, PlaceTypes
  <2>2. \A k \in 1 .. Len(waiting) : waiting[k] # n /\ waiting[k] \in Slots
    BY <1>0 DEF InQueue, PlaceTypes
  <2>3. CASE at[n] = "stray"
    <3>1. waiting' = waiting /\ at'[n] = "lost"
      BY <1>0, <2>3 DEF PlaceTypes
    <3>. QED BY <1>0, <1>1, <2>1, <2>2, <3>1 DEF InQueue
  <2>4. CASE at[n] = "alert"
    <3>0. waiting' = Append(waiting, n) /\ at'[n] = "queue"
      BY <1>0, <2>4 DEF PlaceTypes
    <3>1. /\ Len(waiting') = Len(waiting) + 1 /\ Len(waiting) \in Nat /\ waiting'[Len(waiting) + 1] = n
          /\ \A k \in 1 .. Len(waiting) : waiting'[k] = waiting[k] /\ waiting[k] \in Slots
      BY <1>0, <3>0 DEF PlaceTypes
    <3>3. \A k \in 1 .. Len(waiting') : at'[waiting'[k]] = "queue"
      BY <1>0, <1>1, <2>2, <3>0, <3>1 DEF InQueue
    <3>4. \A i \in Slots : at'[i] = "queue" => \E k \in 1 .. Len(waiting') : waiting'[k] = i
      <4> SUFFICES ASSUME NEW i \in Slots, at'[i] = "queue"
                   PROVE  \E k \in 1 .. Len(waiting') : waiting'[k] = i
        OBVIOUS
      <4>1. CASE i = n
        BY <3>1, <4>1
      <4>2. CASE i # n
        <5>1. PICK k \in 1 .. Len(waiting) : waiting[k] = i
          BY <1>0, <1>1, <4>2 DEF InQueue
        <5>. QED BY <3>1, <5>1
      <4>. QED BY <4>1, <4>2
    <3>5. \A k, l \in 1 .. Len(waiting') : k < l =>
            /\ waiting'[k] # waiting'[l]
            /\ waiting'[k] < waiting'[l] \/ waiting'[k] \in alerted \/ waiting'[l] \in alerted
      <4> SUFFICES ASSUME NEW k \in 1 .. Len(waiting'), NEW l \in 1 .. Len(waiting'), k < l
                   PROVE  /\ waiting'[k] # waiting'[l]
                          /\ waiting'[k] < waiting'[l] \/ waiting'[k] \in alerted \/ waiting'[l] \in alerted
        OBVIOUS
      <4>1. k \in 1 .. Len(waiting) /\ (l \in 1 .. Len(waiting) \/ l = Len(waiting) + 1)
        BY <3>1
      <4>. QED BY <1>0, <2>2, <3>1, <4>1 DEF InQueue
    <3>. QED BY <1>0, <2>1, <3>3, <3>4, <3>5 DEF InQueue
  <2>. QED BY <1>0, <2>3, <2>4
<1>4. AtWorker'
  BY <1>0, <1>1 DEF AtWorker
<1>5. OrderKept'
  BY <1>0, <1>1 DEF OrderKept
<1>. QED BY <1>2, <1>3, <1>4, <1>5 DEF OrderInv

\* The worker takes the place that waits longest.
LEMMA GetKeepsOrder ==
    ASSUME OrderInv, WorkerGets
    PROVE  OrderInv'
<1> DEFINE n == Head(waiting)
<1>0. /\ PlaceTypes /\ InQueue /\ AtWorker /\ OrderKept
      /\ worker.pc = "get" /\ waiting # <<>> /\ UNCHANGED <<taken, alerted>>
      /\ worker' = [pc |-> "wait", place |-> n]
      /\ waiting' = Tail(waiting) /\ at' = [at EXCEPT ![n] = "worker"]
  BY DEF OrderInv, WorkerGets
<1>1. /\ Len(waiting) \in Nat \ {0} /\ n = waiting[1] /\ n \in Slots /\ waiting' \in Seq(Slots)
      /\ Len(waiting') = Len(waiting) - 1
      /\ \A k \in 1 .. Len(waiting') : waiting'[k] = waiting[k + 1] /\ k + 1 \in 1 .. Len(waiting)
      /\ \A k \in 1 .. Len(waiting) : waiting[k] \in Slots
  BY <1>0 DEF PlaceTypes
<1>2. at[n] = "queue" /\ n <= taken
  <2>1. at[n] = "queue"
    BY <1>0, <1>1 DEF InQueue
  <2>. QED BY <1>0, <1>1, <2>1 DEF InQueue, PlaceTypes, Slots
<1>3. /\ at' \in [Slots -> QueueStates] /\ at'[n] = "worker"
      /\ \A i \in Slots : i # n => at'[i] = at[i]
  BY <1>0, <1>1 DEF PlaceTypes, QueueStates
<1>4. worker'.pc = "wait" /\ worker'.place = n
      /\ worker' \in [pc : {"none", "get", "wait", "job"}, place : 0 .. MaxPlace]
  BY <1>0, <1>1 DEF PlaceTypes, Slots
<1>5. PlaceTypes'
  BY <1>0, <1>1, <1>3, <1>4 DEF PlaceTypes
<1>6. InQueue'
  <2>1. /\ \A i \in Slots : at'[i] = "free" <=> i > taken
        /\ \A i \in Slots : at'[i] \in {"alert", "stray"} => i \in alerted
    BY <1>0, <1>1, <1>2, <1>3 DEF InQueue, Slots, PlaceTypes
  <2>2. ASSUME NEW k \in 1 .. Len(waiting') PROVE at'[waiting'[k]] = "queue"
    <3>1. k + 1 \in 1 .. Len(waiting) /\ 1 < k + 1 /\ 1 \in 1 .. Len(waiting)
      BY <1>1
    <3>2. waiting[k + 1] # n
      BY <1>0, <1>1, <3>1 DEF InQueue
    <3>. QED BY <1>0, <1>1, <1>3, <3>1, <3>2 DEF InQueue
  <2>3. ASSUME NEW i \in Slots, at'[i] = "queue"
        PROVE  \E k \in 1 .. Len(waiting') : waiting'[k] = i
    <3>1. i # n /\ at[i] = "queue"
      BY <1>3, <2>3
    <3>2. PICK k \in 1 .. Len(waiting) : waiting[k] = i
      BY <1>0, <3>1 DEF InQueue
    <3>3. k # 1
      BY <1>1, <3>1, <3>2
    <3>4. k - 1 \in 1 .. Len(waiting') /\ (k - 1) + 1 = k
      BY <1>1, <3>3
    <3>5. waiting'[k - 1] = i
      BY <1>1, <3>2, <3>4
    <3>. QED BY <3>4, <3>5
  <2>4. ASSUME NEW k \in 1 .. Len(waiting'), NEW l \in 1 .. Len(waiting'), k < l
        PROVE  /\ waiting'[k] # waiting'[l]
               /\ waiting'[k] < waiting'[l] \/ waiting'[k] \in alerted \/ waiting'[l] \in alerted
    <3>1. /\ waiting'[k] = waiting[k + 1] /\ k + 1 \in 1 .. Len(waiting)
          /\ waiting'[l] = waiting[l + 1] /\ l + 1 \in 1 .. Len(waiting) /\ k + 1 < l + 1
      BY <1>1, <2>4
    <3>. QED BY <1>0, <3>1 DEF InQueue
  <2>. QED BY <1>0, <2>1, <2>2, <2>3, <2>4 DEF InQueue
\* A smaller place that is still to come would be before it in the queue.
<1>7. ASSUME NEW i \in Slots \ alerted, n \notin alerted, i < n
      PROVE  at[i] \in Passed
  <2>1. i <= taken /\ at[i] # "free"
    BY <1>0, <1>1, <1>2, <1>7 DEF InQueue, Slots, PlaceTypes
  <2>2. at[i] \notin {"alert", "stray", "worker", "strict"}
    BY <1>0, <1>7 DEF InQueue, AtWorker
  <2>3. at[i] # "queue"
    <3> SUFFICES ASSUME at[i] = "queue" PROVE FALSE
      OBVIOUS
    <3>1. PICK k \in 1 .. Len(waiting) : waiting[k] = i
      BY <1>0 DEF InQueue
    <3>2. k # 1 /\ 1 < k /\ 1 \in 1 .. Len(waiting)
      BY <1>1, <1>7, <3>1 DEF Slots
    <3>3. waiting[1] < waiting[k] \/ waiting[1] \in alerted \/ waiting[k] \in alerted
      BY <1>0, <3>2 DEF InQueue
    <3>. QED BY <1>1, <1>7, <3>1, <3>3 DEF Slots
  <2>. QED BY <1>0, <2>1, <2>2, <2>3 DEF PlaceTypes, QueueStates, Orders, Passed
<1>8. AtWorker'
  <2>1. \A i \in Slots : at[i] \notin {"worker", "strict"}
    BY <1>0 DEF AtWorker
  <2>2. ASSUME NEW i \in Slots \ alerted, NEW j \in Slots \ alerted, i < j, at'[j] = "worker"
        PROVE  at'[i] \in Passed
    <3>1. j = n /\ i # n
      BY <1>3, <2>1, <2>2 DEF Slots
    <3>. QED BY <1>3, <1>7, <2>2, <3>1
  <2>. QED BY <1>0, <1>1, <1>3, <1>4, <2>1, <2>2 DEF AtWorker
<1>9. OrderKept'
  <2> SUFFICES ASSUME NEW i \in Slots \ alerted, NEW j \in Slots \ alerted, i < j,
                      at'[j] \in Orders \cup {"over"}
               PROVE  at'[i] \in {"grace", "fast", "over", "lost"}
    BY <1>0 DEF OrderKept
  <2>1. at[j] = at'[j] /\ j # n
    BY <1>3 DEF Orders
  <2>2. at[i] \in {"grace", "fast", "over", "lost"}
    BY <1>0, <2>1 DEF OrderKept
  <2>. QED BY <1>2, <1>3, <2>2
<1>. QED BY <1>5, <1>6, <1>8, <1>9 DEF OrderInv

\* The worker is done with the place it has, or lets it be for good.
LEMMA HandKeepsOrder ==
    ASSUME OrderInv, NEW order \in Orders, WorkerStarts(order) \/ WaitTimesOut(order)
    PROVE  OrderInv'
<1> DEFINE n == worker.place
<1>0. /\ PlaceTypes /\ InQueue /\ AtWorker /\ OrderKept
      /\ worker.pc = "wait" /\ UNCHANGED <<taken, waiting, alerted>>
      /\ at' = [at EXCEPT ![n] = order]
      /\ worker' = [worker EXCEPT !.pc = IF order = "fast" THEN "get" ELSE "job"]
  BY DEF OrderInv, WorkerStarts, WaitTimesOut, HandOver
<1>1. n \in Slots /\ at[n] = "worker" /\ n <= taken
  <2>1. n \in Slots /\ at[n] = "worker"
    BY <1>0 DEF AtWorker
  <2>. QED BY <1>0, <2>1 DEF InQueue, PlaceTypes, Slots
<1>2. /\ at' \in [Slots -> QueueStates] /\ at'[n] = order
      /\ \A i \in Slots : i # n => at'[i] = at[i]
  BY <1>0, <1>1 DEF PlaceTypes, QueueStates
<1>3. /\ worker' \in [pc : {"none", "get", "wait", "job"}, place : 0 .. MaxPlace]
      /\ worker'.pc # "wait" /\ worker'.place = n /\ (order = "strict" => worker'.pc = "job")
  <2>1. CASE order = "fast"
    BY <1>0, <2>1 DEF PlaceTypes
  <2>2. CASE order # "fast"
    BY <1>0, <2>2 DEF PlaceTypes
  <2>. QED BY <2>1, <2>2
<1>4. PlaceTypes'
  BY <1>0, <1>2, <1>3 DEF PlaceTypes
<1>5. InQueue'
  <2>1. order \notin {"free", "queue", "alert", "stray"}
    BY DEF Orders
  <2>2. \A k \in 1 .. Len(waiting) : waiting[k] \in Slots /\ waiting[k] # n
    BY <1>0, <1>1 DEF InQueue, PlaceTypes
  <2>3. \A i \in Slots : at'[i] = "free" <=> i > taken
    BY <1>0, <1>1, <1>2, <2>1 DEF InQueue, Slots, PlaceTypes
  <2>. QED BY <1>0, <1>2, <2>1, <2>2, <2>3 DEF InQueue
<1>6. \A i \in Slots : i # n => at'[i] \notin {"worker", "strict"}
  BY <1>0, <1>2 DEF AtWorker
<1>7. AtWorker'
  BY <1>0, <1>2, <1>3, <1>6 DEF AtWorker, Orders
<1>8. OrderKept'
  <2> SUFFICES ASSUME NEW i \in Slots \ alerted, NEW j \in Slots \ alerted, i < j,
                      at'[j] \in Orders \cup {"over"}
               PROVE  at'[i] \in {"grace", "fast", "over", "lost"}
    BY <1>0 DEF OrderKept
  <2>1. CASE j = n
    <3>1. at[i] \in Passed /\ i # n
      BY <1>0, <1>1, <2>1 DEF AtWorker, Slots
    <3>. QED BY <1>2, <3>1 DEF Passed
  <2>2. CASE j # n
    <3>1. at[i] \in {"grace", "fast", "over", "lost"}
      BY <1>0, <1>2, <2>2 DEF OrderKept
    <3>. QED BY <1>1, <1>2, <3>1
  <2>. QED BY <2>1, <2>2
<1>. QED BY <1>4, <1>5, <1>7, <1>8 DEF OrderInv

\* process ends, or has taken as long as the worker waits for it.
LEMMA EndKeepsOrder ==
    ASSUME OrderInv, GraceEnds \/ \E i \in Slots : ProcessEnds(i)
    PROVE  OrderInv'
<1>0. PlaceTypes /\ InQueue /\ AtWorker /\ OrderKept
  BY DEF OrderInv
<1>1. CASE GraceEnds
  <2>1. /\ UNCHANGED <<taken, at, waiting, alerted>> /\ worker.pc = "job"
        /\ at[worker.place] = "grace" /\ worker' = [worker EXCEPT !.pc = "get"]
    BY <1>1 DEF GraceEnds
  <2>2. worker' \in [pc : {"none", "get", "wait", "job"}, place : 0 .. MaxPlace] /\ worker'.pc = "get"
    BY <1>0, <2>1 DEF PlaceTypes
  <2>3. \A i \in Slots : at[i] \notin {"worker", "strict"}
    BY <1>0, <2>1 DEF AtWorker
  <2>. QED BY <1>0, <2>1, <2>2, <2>3 DEF OrderInv, PlaceTypes, InQueue, AtWorker, OrderKept
<1>2. ASSUME NEW n \in Slots, ProcessEnds(n)
      PROVE  OrderInv'
  <2>1. /\ UNCHANGED <<taken, waiting, alerted>> /\ at[n] \in Orders
        /\ at' = [at EXCEPT ![n] = "over"]
        /\ worker' = IF worker = [pc |-> "job", place |-> n] THEN [worker EXCEPT !.pc = "get"]
                                                             ELSE worker
    BY <1>2 DEF ProcessEnds
  <2>2. /\ at' \in [Slots -> QueueStates] /\ at'[n] = "over"
        /\ \A i \in Slots : i # n => at'[i] = at[i]
    BY <1>0, <2>1 DEF PlaceTypes, QueueStates
  <2>3. /\ worker' \in [pc : {"none", "get", "wait", "job"}, place : 0 .. MaxPlace]
        /\ worker' = worker \/ (worker.pc = "job" /\ worker.place = n /\ worker'.pc = "get")
    BY <1>0, <2>1 DEF PlaceTypes
  <2>4. PlaceTypes'
    BY <1>0, <2>1, <2>2, <2>3 DEF PlaceTypes
  <2>5. InQueue'
    <3>1. \A k \in 1 .. Len(waiting) : waiting[k] \in Slots /\ waiting[k] # n
      BY <1>0, <2>1 DEF InQueue, PlaceTypes, Orders
    <3>2. \A i \in Slots : at'[i] = "free" <=> i > taken
      BY <1>0, <2>1, <2>2 DEF InQueue, Slots, PlaceTypes, Orders
    <3>. QED BY <1>0, <2>1, <2>2, <3>1, <3>2 DEF InQueue
  <2>6. AtWorker'
    <3>1. worker'.pc = "wait" => worker'.place \in Slots /\ at'[worker'.place] = "worker"
      BY <1>0, <2>1, <2>2, <2>3 DEF AtWorker, Orders
    <3>2. ASSUME NEW i \in Slots
          PROVE  /\ at'[i] = "worker" => worker'.pc = "wait" /\ worker'.place = i
                 /\ at'[i] = "strict" => worker'.pc = "job" /\ worker'.place = i
      BY <1>0, <2>1, <2>2, <2>3 DEF AtWorker
    <3>3. ASSUME NEW i \in Slots \ alerted, NEW j \in Slots \ alerted, i < j, at'[j] = "worker"
          PROVE  at'[i] \in Passed
      <4>1. at[i] \in Passed
        BY <1>0, <2>2, <3>3 DEF AtWorker
      <4>. QED BY <2>2, <4>1 DEF Passed
    <3>. QED BY <2>1, <3>1, <3>2, <3>3 DEF AtWorker
  <2>7. OrderKept'
    <3> SUFFICES ASSUME NEW i \in Slots \ alerted, NEW j \in Slots \ alerted, i < j,
                        at'[j] \in Orders \cup {"over"}
                 PROVE  at'[i] \in {"grace", "fast", "over", "lost"}
      BY <2>1 DEF OrderKept
    <3>1. at[j] \in Orders \cup {"over"}
      BY <2>1, <2>2
    <3>2. at[i] \in {"grace", "fast", "over", "lost"}
      BY <1>0, <3>1 DEF OrderKept
    <3>. QED BY <2>2, <3>2
  <2>. QED BY <2>4, <2>5, <2>6, <2>7 DEF OrderInv
<1>. QED BY <1>1, <1>2

\* stop_user: nothing waits any more, and what had not been started never is.
LEMMA StopKeepsOrder ==
    ASSUME OrderInv, StopUser
    PROVE  OrderInv'
<1>0. /\ PlaceTypes /\ InQueue /\ AtWorker /\ OrderKept
      /\ UNCHANGED <<taken, alerted>> /\ waiting' = <<>> /\ worker' = NoWorker
      /\ at' = [i \in Slots |-> CASE at[i] \in {"queue", "worker", "strict"} -> "lost"
                                   [] at[i] = "alert" -> "stray"
                                   [] OTHER -> at[i]]
  BY DEF OrderInv, StopUser
<1>1. ASSUME NEW i \in Slots
      PROVE  /\ at'[i] \in QueueStates /\ at'[i] \notin {"queue", "worker", "strict", "alert"}
             /\ at'[i] = "free" <=> at[i] = "free"
             /\ at'[i] = "stray" => at[i] \in {"alert", "stray"}
             /\ at'[i] \in Orders \cup {"over"} => at[i] = at'[i]
             /\ at[i] \in {"grace", "fast", "over", "lost"} => at'[i] = at[i]
  BY <1>0 DEF PlaceTypes, QueueStates, Orders
<1>2. /\ at' \in [Slots -> QueueStates] /\ waiting' \in Seq(Slots) /\ Len(waiting') = 0
      /\ worker'.pc = "none"
      /\ worker' \in [pc : {"none", "get", "wait", "job"}, place : 0 .. MaxPlace]
  BY <1>0, <1>1 DEF NoWorker, PlaceTypes
<1>3. PlaceTypes'
  BY <1>0, <1>2 DEF PlaceTypes
<1>4. InQueue'
  BY <1>0, <1>1, <1>2 DEF InQueue
<1>5. AtWorker'
  BY <1>0, <1>1, <1>2 DEF AtWorker
<1>6. OrderKept'
  <2> SUFFICES ASSUME NEW i \in Slots \ alerted, NEW j \in Slots \ alerted, i < j,
                      at'[j] \in Orders \cup {"over"}
               PROVE  at'[i] \in {"grace", "fast", "over", "lost"}
    BY <1>0 DEF OrderKept
  <2>1. at[i] \in {"grace", "fast", "over", "lost"}
    BY <1>0, <1>1 DEF OrderKept
  <2>. QED BY <1>1, <2>1
<1>. QED BY <1>3, <1>4, <1>5, <1>6 DEF OrderInv

\* Every step.
LEMMA OrderStep ==
    ASSUME OrderInv, [QueueNext]_queueVars
    PROVE  OrderInv'
<1>1. CASE UNCHANGED queueVars
  BY <1>1, OrderSame DEF queueVars, places
<1>2. ASSUME NEW i \in Slots, TimerFires(i) \/ TimerDies(i)
      PROVE  OrderInv'
  BY <1>2, OrderSame DEF TimerFires, TimerDies, places
<1>. QED BY <1>1, <1>2, HearKeepsOrder, AlertKeepsOrder, GetKeepsOrder, HandKeepsOrder,
            EndKeepsOrder, StopKeepsOrder DEF QueueNext, QueueStep, Serve

\* An empty queue is in order.
LEMMA OrderBegins == QueueInit => OrderInv
<1> SUFFICES ASSUME QueueInit PROVE OrderInv
  OBVIOUS
<1>1. PlaceTypes /\ \A i \in Slots : at[i] = "free" /\ i > taken
  BY QueueAssumption DEF QueueInit, PlaceTypes, NoWorker, Slots, QueueStates
<1>2. Len(waiting) = 0 /\ worker.pc = "none"
  BY DEF QueueInit, NoWorker
<1>. QED BY <1>1, <1>2 DEF OrderInv, InQueue, AtWorker, OrderKept, Orders

(* What came is handed over, and once.  The four parts hold as long as the  *)
(* user was not stopped.                                                   *)

PieceTypes ==
    /\ holds \in [Slots -> SUBSET Updates] /\ ready \in [Slots -> BOOLEAN]
    /\ albumAt \in 0 .. MaxPlace /\ ticking \subseteq Slots
    /\ passed \in [Updates -> Nat] /\ heard \subseteq Updates /\ whole \in BOOLEAN
    /\ early \in BOOLEAN

\* The album has a place that was not started before it was complete, and a timer as
\* soon as that place is in the queue.
AlbumKnown ==
    /\ dying = {} /\ ticking \subseteq {albumAt}
    /\ \A i \in Slots :
         /\ at[i] \notin {"stray", "lost"}
         /\ at[i] = "free" => holds[i] = {}
         /\ i = albumAt => /\ at[i] # "free" /\ holds[i] \subseteq Parts
                           /\ i \in ticking <=> at[i] # "alert"
                           /\ ready[i] => whole
                           /\ ~ready[i] => at[i] \in {"alert", "queue", "worker"}
         /\ (at[i] = "alert" /\ holds[i] \subseteq Parts) => i = albumAt

AllThere == \A m \in Came : OnItsWay(m) \/ passed[m] > 0

Started == Orders \cup {"over"}

\* Until a timer is early: a message has one place, and was handed over with it; the
\* parts of the album are nowhere but in its place, or it is over with them.
OnePlace ==
    /\ \A i, j \in Slots : i # j => holds[i] \cap holds[j] = {}
    /\ \A i \in Slots : holds[i] \subseteq Came
    /\ \A m \in Updates : /\ passed[m] <= 1
                          /\ passed[m] = 1 => \E i \in Slots : m \in holds[i] /\ at[i] \in Started
    /\ \/ \A i \in Slots : i # albumAt => holds[i] \cap Parts = {}
       \/ albumAt = 0 /\ whole /\ Parts \subseteq heard

Kept == PieceTypes /\ AlbumKnown /\ AllThere /\ (~early => OnePlace)

HandInv == OrderInv /\ stops \in Nat /\ (stops = 0 => Kept)

\* A place that is taken holds what was heard, and nothing else changes.
LEMMA PlaceHolds ==
    ASSUME OrderInv, PieceTypes, NEW messages, messages \subseteq Updates, NEW complete \in BOOLEAN,
           TakePlace(taken + 1, messages, complete)
    PROVE  /\ taken' = taken + 1 /\ taken' \in Slots /\ at[taken'] = "free"
           /\ at'[taken'] \in {"queue", "alert"} /\ holds'[taken'] = messages
           /\ ready'[taken'] = complete
           /\ \A i \in Slots : i # taken' => /\ at'[i] = at[i] /\ holds'[i] = holds[i]
                                            /\ ready'[i] = ready[i]
           /\ holds' \in [Slots -> SUBSET Updates] /\ ready' \in [Slots -> BOOLEAN]
<1>1. /\ taken' = taken + 1 /\ taken' \in Slots
      /\ at'[taken'] \in {"queue", "alert"}
      /\ \A i \in Slots : i # taken' => at'[i] = at[i]
  BY PlaceTaken
<1>2. holds' = [holds EXCEPT ![taken'] = messages] /\ ready' = [ready EXCEPT ![taken'] = complete]
  BY DEF TakePlace
<1>3. at[taken'] = "free"
  BY <1>1 DEF OrderInv, InQueue, PlaceTypes, Slots
<1>. QED BY <1>1, <1>2, <1>3 DEF PieceTypes

\* What was on its way still is, where no place is left and none holds less.
LEMMA StaysThere ==
    ASSUME AllThere, Came' = Came \/ \A m \in Came' \ Came : OnItsWay(m)', passed' = passed,
           \A i \in Slots : /\ holds[i] \subseteq holds'[i]
                            /\ at[i] \in {"alert", "queue", "worker"}
                                 => at'[i] \in {"alert", "queue", "worker"}
    PROVE  AllThere'
<1> SUFFICES ASSUME NEW m \in Came' PROVE OnItsWay(m)' \/ passed'[m] > 0
  BY DEF AllThere
<1>1. CASE m \in Came
  BY <1>1 DEF AllThere, OnItsWay
<1>2. CASE m \notin Came
  BY <1>2
<1>. QED BY <1>1, <1>2

\* A post of one message comes.
LEMMA TextIsKept ==
    ASSUME OrderInv, Kept, NEW m \in Updates, HearText(m)
    PROVE  Kept'
<1> DEFINE n == taken'
<1>0. /\ PieceTypes /\ AlbumKnown /\ AllThere /\ (~early => OnePlace)
      /\ m \in Texts \ heard /\ heard' = heard \cup {m} /\ TakePlace(taken + 1, {m}, TRUE)
      /\ UNCHANGED <<albumAt, ticking, dying, whole, passed, early>> /\ m \notin Parts
  BY QueueAssumption DEF Kept, HearText, albums
<1>1. /\ n \in Slots /\ at[n] = "free"
      /\ at'[n] \in {"queue", "alert"} /\ holds'[n] = {m} /\ ready'[n] = TRUE
      /\ \A i \in Slots : i # n => /\ at'[i] = at[i] /\ holds'[i] = holds[i]
                                  /\ ready'[i] = ready[i]
      /\ holds' \in [Slots -> SUBSET Updates] /\ ready' \in [Slots -> BOOLEAN]
  BY <1>0, PlaceHolds
<1> HIDE DEF n
<1>2. PieceTypes'
  BY <1>0, <1>1 DEF PieceTypes
<1>3. AlbumKnown'
  BY <1>0, <1>1 DEF AlbumKnown
<1>4. AllThere'
  <2>1. holds[n] = {}
    BY <1>0, <1>1 DEF AlbumKnown
  <2>2. \A i \in Slots : /\ holds[i] \subseteq holds'[i]
                         /\ at[i] \in {"alert", "queue", "worker"}
                              => at'[i] \in {"alert", "queue", "worker"}
    BY <1>0, <1>1, <2>1
  <2>3. OnItsWay(m)' /\ Came' = Came \cup {m}
    BY <1>0, <1>1 DEF OnItsWay, Came
  <2>. QED BY <1>0, <2>2, <2>3, StaysThere
<1>5. ~early' => OnePlace'
  <2> SUFFICES ASSUME ~early PROVE OnePlace'
    BY <1>0
  <2>0. OnePlace /\ m \notin Came /\ Came' = Came \cup {m}
    BY <1>0 DEF Came
  <2>1. \A i \in Slots : m \notin holds[i] /\ holds'[i] \subseteq Came'
    BY <1>0, <1>1, <2>0 DEF OnePlace
  <2>2. \A i, j \in Slots : i # j => holds'[i] \cap holds'[j] = {}
    BY <1>1, <2>0, <2>1 DEF OnePlace
  <2>3. ASSUME NEW p \in Updates
        PROVE  /\ passed'[p] <= 1
               /\ passed'[p] = 1 => \E i \in Slots : p \in holds'[i] /\ at'[i] \in Started
    <3>1. at[n] \notin Started
      BY <1>1 DEF Started, Orders
    <3>. QED BY <1>0, <1>1, <2>0, <3>1 DEF OnePlace
  <2>4. \/ \A i \in Slots : i # albumAt' => holds'[i] \cap Parts = {}
        \/ albumAt' = 0 /\ whole' /\ Parts \subseteq heard'
    BY <1>0, <1>1, <2>0 DEF OnePlace
  <2>. QED BY <2>1, <2>2, <2>3, <2>4 DEF OnePlace
<1>. QED BY <1>2, <1>3, <1>4, <1>5 DEF Kept

\* The first that is heard of an album, a part or its event.
LEMMA AlbumTakesPlace ==
    ASSUME OrderInv, Kept, NEW messages, messages \subseteq Parts, NEW complete \in BOOLEAN,
           TakeAlbumPlace(messages, complete), UNCHANGED <<passed, early>>,
           heard \subseteq heard', heard' \subseteq Updates, whole' \in BOOLEAN, whole => whole',
           complete => whole', Came' = Came \cup messages, ~whole \/ ~(Parts \subseteq heard)
    PROVE  Kept'
<1> DEFINE n == taken'
<1>0. /\ PieceTypes /\ AlbumKnown /\ AllThere /\ (~early => OnePlace)
      /\ albumAt = 0 /\ TakePlace(taken + 1, messages, complete) /\ albumAt' = n
      /\ dying' = dying /\ messages \subseteq Updates
      /\ at'[n] = "queue" => ticking' = ticking \cup {n}
      /\ at'[n] # "queue" => ticking' = ticking
  BY DEF Kept, TakeAlbumPlace, StartTimer, Updates
<1>1. /\ n \in Slots /\ at[n] = "free"
      /\ at'[n] \in {"queue", "alert"} /\ holds'[n] = messages /\ ready'[n] = complete
      /\ \A i \in Slots : i # n => /\ at'[i] = at[i] /\ holds'[i] = holds[i]
                                  /\ ready'[i] = ready[i]
      /\ holds' \in [Slots -> SUBSET Updates] /\ ready' \in [Slots -> BOOLEAN]
  BY <1>0, PlaceHolds
<1> HIDE DEF n
<1>2. ticking = {} /\ 0 \notin Slots /\ n \in 0 .. MaxPlace /\ n # 0
  BY <1>0, <1>1 DEF PieceTypes, AlbumKnown, Slots
<1>3. PieceTypes'
  BY <1>0, <1>1, <1>2 DEF PieceTypes
<1>4. AlbumKnown'
  <2>1. ticking' = IF at'[n] = "alert" THEN {} ELSE {n}
    BY <1>0, <1>1, <1>2
  <2>2. \A i \in Slots : i # n => at[i] # "alert" \/ ~(holds[i] \subseteq Parts)
    BY <1>0, <1>2 DEF AlbumKnown
  <2>. QED BY <1>0, <1>1, <1>2, <2>1, <2>2 DEF AlbumKnown
<1>5. holds[n] = {}
  BY <1>0, <1>1 DEF AlbumKnown
<1>6. AllThere'
  <2>1. \A i \in Slots : /\ holds[i] \subseteq holds'[i]
                         /\ at[i] \in {"alert", "queue", "worker"}
                              => at'[i] \in {"alert", "queue", "worker"}
    BY <1>1, <1>5
  <2>2. \A p \in messages : OnItsWay(p)'
    BY <1>1 DEF OnItsWay
  <2>. QED BY <1>0, <2>1, <2>2, StaysThere
<1>7. ~early' => OnePlace'
  <2> SUFFICES ASSUME ~early PROVE OnePlace'
    OBVIOUS
  <2>0. OnePlace /\ \A i \in Slots : holds[i] \cap Parts = {}
    BY <1>0, <1>2 DEF OnePlace
  <2>1. \A i \in Slots : holds'[i] \subseteq Came'
    BY <1>1, <2>0 DEF OnePlace
  <2>2. \A i, j \in Slots : i # j => holds'[i] \cap holds'[j] = {}
    BY <1>1, <2>0 DEF OnePlace
  <2>3. ASSUME NEW p \in Updates
        PROVE  /\ passed'[p] <= 1
               /\ passed'[p] = 1 => \E i \in Slots : p \in holds'[i] /\ at'[i] \in Started
    <3>1. at[n] \notin Started
      BY <1>1 DEF Started, Orders
    <3>. QED BY <1>1, <2>0, <3>1 DEF OnePlace
  <2>4. \A i \in Slots : i # albumAt' => holds'[i] \cap Parts = {}
    BY <1>0, <1>1, <2>0
  <2>. QED BY <2>1, <2>2, <2>3, <2>4 DEF OnePlace
<1>. QED BY <1>3, <1>4, <1>6, <1>7 DEF Kept

\* What comes of an album that has a place: its place was not started, unless its
\* event had come.
LEMMA AlbumIsFilled ==
    ASSUME OrderInv, Kept, albumAt # 0, NEW more, more \subseteq Parts,
           UNCHANGED <<at, albumAt, ticking, dying, passed, early>>,
           heard \subseteq heard', heard' \subseteq Updates, whole' \in BOOLEAN, whole => whole',
           ready' \in [Slots -> BOOLEAN], holds' \in [Slots -> SUBSET Updates],
           \A i \in Slots : i # albumAt => holds'[i] = holds[i] /\ ready'[i] = ready[i],
           ready[albumAt] => /\ holds'[albumAt] = holds[albumAt] /\ ready'[albumAt]
                             /\ Came' = Came,
           ~ready[albumAt] => /\ holds'[albumAt] = holds[albumAt] \cup more
                              /\ ready'[albumAt] => whole'
                              /\ Came' = Came \cup more
    PROVE  Kept'
<1> DEFINE n == albumAt
<1>0. PieceTypes /\ AlbumKnown /\ AllThere /\ (~early => OnePlace) /\ n \in Slots
  BY DEF Kept, PieceTypes, Slots
<1>1. PieceTypes'
  BY <1>0 DEF PieceTypes
<1>2. AlbumKnown'
  <2>1. ASSUME NEW i \in Slots, i # n
        PROVE  /\ at'[i] \notin {"stray", "lost"} /\ (at'[i] = "free" => holds'[i] = {})
               /\ (at'[i] = "alert" /\ holds'[i] \subseteq Parts) => i = albumAt'
    BY <1>0, <2>1 DEF AlbumKnown
  <2>2. /\ at'[n] \notin {"stray", "lost", "free"} /\ holds'[n] \subseteq Parts
        /\ n \in ticking' <=> at'[n] # "alert"
    BY <1>0 DEF AlbumKnown
  <2>3. /\ ready'[n] => whole'
        /\ ~ready'[n] => at'[n] \in {"alert", "queue", "worker"}
    BY <1>0 DEF AlbumKnown
  <2>. QED BY <1>0, <2>1, <2>2, <2>3 DEF AlbumKnown
<1>3. \A i \in Slots : holds[i] \subseteq holds'[i]
  BY <1>0
<1>4. AllThere'
  <2>1. CASE ready[n]
    BY <1>0, <1>3, <2>1, StaysThere
  <2>2. CASE ~ready[n]
    <3>1. at'[n] \in {"alert", "queue", "worker"}
      BY <1>0, <2>2 DEF AlbumKnown
    <3>2. \A p \in more : OnItsWay(p)'
      BY <1>0, <2>2, <3>1 DEF OnItsWay
    <3>3. \A p \in Came' \ Came : OnItsWay(p)'
      BY <2>2, <3>2
    <3>. QED BY <1>0, <1>3, <3>3, StaysThere
  <2>. QED BY <2>1, <2>2
<1>5. ~early' => OnePlace'
  <2> SUFFICES ASSUME ~early PROVE OnePlace'
    OBVIOUS
  <2>0. /\ OnePlace /\ n # 0 /\ \A i \in Slots : i # n => holds[i] \cap Parts = {}
        /\ holds'[n] \subseteq holds[n] \cup more
    BY <1>0 DEF OnePlace
  <2>1. \A i \in Slots : holds'[i] \subseteq Came'
    BY <1>0, <2>0 DEF OnePlace
  <2>2. ASSUME NEW i \in Slots, NEW j \in Slots, i # j
        PROVE  holds'[i] \cap holds'[j] = {}
    <3>1. holds[i] \cap holds[j] = {}
      BY <2>0, <2>2 DEF OnePlace
    <3>2. CASE i = n
      BY <2>0, <2>2, <3>1, <3>2
    <3>3. CASE j = n
      BY <2>0, <2>2, <3>1, <3>3
    <3>. QED BY <3>1, <3>2, <3>3
  <2>3. ASSUME NEW p \in Updates
        PROVE  /\ passed'[p] <= 1
               /\ passed'[p] = 1 => \E i \in Slots : p \in holds'[i] /\ at'[i] \in Started
    BY <1>3, <2>0 DEF OnePlace
  <2>. QED BY <2>0, <2>1, <2>2, <2>3 DEF OnePlace
<1>. QED BY <1>1, <1>2, <1>4, <1>5 DEF Kept

\* Whatever is heard.
LEMMA HearingKeeps ==
    ASSUME OrderInv, Kept, HearAlbum \/ \E m \in Updates : HearText(m) \/ HearPart(m)
    PROVE  Kept'
<1>0. PieceTypes /\ AlbumKnown /\ (albumAt # 0 => albumAt \in Slots)
  BY DEF Kept, PieceTypes, Slots
<1>1. ASSUME NEW m \in Updates, HearPart(m)
      PROVE  Kept'
  <2>1. /\ m \in Parts \ heard /\ heard' = heard \cup {m} /\ UNCHANGED <<whole, passed, early>>
        /\ heard' \subseteq Updates /\ whole' \in BOOLEAN
    BY <1>0, <1>1 DEF HearPart, PieceTypes
  <2>2. Came' = Came \cup {m} /\ (whole => Came' = Came)
    BY <2>1 DEF Came
  <2>3. CASE TakeAlbumPlace({m}, FALSE)
    BY <2>1, <2>2, <2>3, AlbumTakesPlace
  <2>4. CASE AddPart(m)
    <3>1. /\ albumAt # 0 /\ UNCHANGED <<at, ready, albumAt, ticking, dying>>
          /\ holds' = [holds EXCEPT ![albumAt] = IF ready[albumAt] THEN holds[albumAt]
                                                                   ELSE holds[albumAt] \cup {m}]
      BY <2>4 DEF AddPart, albums
    <3>2. /\ holds' \in [Slots -> SUBSET Updates] /\ ready' \in [Slots -> BOOLEAN]
          /\ \A i \in Slots : i # albumAt => holds'[i] = holds[i] /\ ready'[i] = ready[i]
          /\ holds'[albumAt] = IF ready[albumAt] THEN holds[albumAt] ELSE holds[albumAt] \cup {m}
      BY <1>0, <3>1 DEF PieceTypes
    <3>3. ready[albumAt] => whole
      BY <1>0, <3>1 DEF AlbumKnown
    <3>4. ready[albumAt] => /\ holds'[albumAt] = holds[albumAt] /\ ready'[albumAt]
                            /\ Came' = Came
      BY <2>2, <3>1, <3>2, <3>3
    <3>5. ~ready[albumAt] => /\ holds'[albumAt] = holds[albumAt] \cup {m}
                             /\ ready'[albumAt] => whole'
                             /\ Came' = Came \cup {m}
      BY <2>2, <3>1, <3>2
    <3>6. {m} \subseteq Parts /\ heard \subseteq heard' /\ (whole => whole')
      BY <2>1
    <3>. QED BY <2>1, <3>1, <3>2, <3>4, <3>5, <3>6, AlbumIsFilled
  <2>. QED BY <1>1, <2>3, <2>4 DEF HearPart
<1>2. CASE HearAlbum
  <2>1. ~whole /\ whole' = TRUE /\ UNCHANGED <<heard, passed, early>> /\ heard' \subseteq Updates
    BY <1>0, <1>2 DEF HearAlbum, PieceTypes
  <2>2. Came' = Came \cup Parts
    BY <2>1 DEF Came
  <2>3. CASE TakeAlbumPlace(Parts, TRUE)
    BY <2>1, <2>2, <2>3, AlbumTakesPlace
  <2>4. CASE FillAlbum
    <3>1. /\ albumAt # 0 /\ UNCHANGED <<at, albumAt, ticking, dying>>
          /\ holds' = [holds EXCEPT ![albumAt] = Parts] /\ ready' = [ready EXCEPT ![albumAt] = TRUE]
      BY <2>4 DEF FillAlbum, albums
    <3>2. /\ holds' \in [Slots -> SUBSET Updates] /\ ready' \in [Slots -> BOOLEAN]
          /\ \A i \in Slots : i # albumAt => holds'[i] = holds[i] /\ ready'[i] = ready[i]
          /\ holds'[albumAt] = Parts
      BY <1>0, <3>1 DEF PieceTypes, Updates
    <3>3. ~ready[albumAt] /\ holds[albumAt] \subseteq Parts
      BY <1>0, <2>1, <3>1 DEF AlbumKnown
    <3>4. holds'[albumAt] = holds[albumAt] \cup Parts
      BY <3>2, <3>3
    <3>. QED BY <2>1, <2>2, <3>1, <3>2, <3>3, <3>4, AlbumIsFilled
  <2>. QED BY <1>2, <2>3, <2>4 DEF HearAlbum
<1>. QED BY <1>1, <1>2, TextIsKept

\* A place goes one step on its way, from the alert to the queue or to the worker.
LEMMA OnWayKeeps ==
    ASSUME OrderInv, Kept, WorkerGets \/ \E i \in Slots : AlertEnds(i)
    PROVE  Kept'
<1>0. PieceTypes /\ AlbumKnown /\ AllThere /\ (~early => OnePlace)
  BY DEF Kept
<1>1. ASSUME NEW n \in Slots, at[n] \in {"alert", "queue"}, at'[n] \in {"queue", "worker"},
             \A i \in Slots : i # n => at'[i] = at[i],
             UNCHANGED <<holds, ready, albumAt, dying, heard, whole, passed, early>>,
             ticking' \subseteq Slots,
             IF at[n] = "alert" /\ holds[n] \subseteq Parts THEN ticking' = ticking \cup {n}
                                                            ELSE ticking' = ticking
      PROVE  Kept'
  <2>1. PieceTypes'
    BY <1>0, <1>1 DEF PieceTypes
  <2>2. AlbumKnown'
    <3>1. CASE at[n] = "alert" /\ holds[n] \subseteq Parts
      <4>1. n = albumAt /\ ticking' = {n}
        BY <1>0, <1>1, <3>1 DEF AlbumKnown
      <4>. QED BY <1>0, <1>1, <4>1 DEF AlbumKnown
    <3>2. CASE ~(at[n] = "alert" /\ holds[n] \subseteq Parts)
      BY <1>0, <1>1, <3>2 DEF AlbumKnown
    <3>. QED BY <3>1, <3>2
  <2>3. AllThere'
    <3>1. Came' = Came
      BY <1>1 DEF Came
    <3>. QED BY <1>0, <1>1, <3>1, StaysThere
  <2>4. ~early' => OnePlace'
    <3>1. Came' = Came /\ at[n] \notin Started
      BY <1>1 DEF Came, Started, Orders
    <3>. QED BY <1>0, <1>1, <3>1 DEF OnePlace
  <2>. QED BY <2>1, <2>2, <2>3, <2>4 DEF Kept
<1>2. ASSUME NEW n \in Slots, AlertEnds(n)
      PROVE  Kept'
  <2>1. at[n] = "alert" /\ at' = [at EXCEPT ![n] = "queue"]
    BY <1>0, <1>2 DEF AlertEnds, AlbumKnown
  <2>2. at'[n] = "queue" /\ \A i \in Slots : i # n => at'[i] = at[i]
    BY <2>1 DEF OrderInv, PlaceTypes
  <2>3. /\ UNCHANGED <<holds, ready, albumAt, dying, heard, whole, passed, early>>
        /\ IF holds[n] \subseteq Parts THEN ticking' = ticking \cup {n} ELSE ticking' = ticking
    BY <1>2 DEF AlertEnds, StartTimer
  <2>4. ticking' \subseteq Slots
    BY <1>0, <2>3 DEF PieceTypes
  <2>. QED BY <1>1, <2>1, <2>2, <2>3, <2>4
<1>3. CASE WorkerGets
  <2>1. /\ waiting # <<>> /\ at' = [at EXCEPT ![Head(waiting)] = "worker"]
        /\ UNCHANGED <<holds, ready, albumAt, dying, heard, whole, passed, early, ticking>>
    BY <1>3 DEF WorkerGets, albums
  <2>2. Head(waiting) \in Slots /\ at[Head(waiting)] = "queue"
    <3>1. Head(waiting) = waiting[1] /\ 1 \in 1 .. Len(waiting) /\ waiting \in Seq(Slots)
      BY <2>1 DEF OrderInv, PlaceTypes
    <3>. QED BY <3>1 DEF OrderInv, InQueue
  <2>3. at'[Head(waiting)] = "worker" /\ \A i \in Slots : i # Head(waiting) => at'[i] = at[i]
    BY <2>1, <2>2 DEF OrderInv, PlaceTypes
  <2>4. ticking' \subseteq Slots
    BY <1>0, <2>1 DEF PieceTypes
  <2>. QED BY <1>1, <2>1, <2>2, <2>3, <2>4
<1>. QED BY <1>2, <1>3

\* The worker hands a place over: all it holds, which no other place held.
LEMMA HandOverKeeps ==
    ASSUME OrderInv, Kept, NEW order \in Orders, WorkerStarts(order) \/ WaitTimesOut(order)
    PROVE  Kept'
<1> DEFINE n == worker.place
<1>0. /\ PieceTypes /\ AlbumKnown /\ AllThere /\ (~early => OnePlace)
      /\ n \in Slots /\ at[n] = "worker"
  BY DEF Kept, WorkerStarts, WaitTimesOut, OrderInv, AtWorker
<1>1. /\ at' = [at EXCEPT ![n] = order]
      /\ passed' = [m \in Updates |-> passed[m] + IF m \in holds[n] THEN 1 ELSE 0]
      /\ UNCHANGED <<holds, ready, albumAt, ticking, dying, heard, whole, early>>
      /\ ready[n] \/ n \notin ticking
  BY DEF WorkerStarts, WaitTimesOut, HandOver, albums
<1>2. at'[n] = order /\ (\A i \in Slots : i # n => at'[i] = at[i])
  BY <1>0, <1>1 DEF OrderInv, PlaceTypes
<1>3. /\ passed' \in [Updates -> Nat]
      /\ \A m \in Updates : passed'[m] = IF m \in holds[n] THEN passed[m] + 1 ELSE passed[m]
  BY <1>0, <1>1 DEF PieceTypes
<1> HIDE DEF n
<1>4. PieceTypes'
  BY <1>0, <1>1, <1>3 DEF PieceTypes
<1>5. AlbumKnown'
  <2>1. n = albumAt => ready[n]
    BY <1>0, <1>1 DEF AlbumKnown
  <2>. QED BY <1>0, <1>1, <1>2, <2>1 DEF AlbumKnown, Orders
<1>6. Came' = Came /\ Came \subseteq Updates
  BY <1>0, <1>1 DEF Came, PieceTypes, Updates
<1>7. AllThere'
  <2> SUFFICES ASSUME NEW m \in Came PROVE OnItsWay(m)' \/ passed'[m] > 0
    BY <1>6 DEF AllThere
  <2>1. m \in Updates /\ passed[m] \in Nat /\ (OnItsWay(m) \/ passed[m] > 0)
    BY <1>0, <1>6 DEF AllThere, PieceTypes
  <2>2. CASE m \in holds[n]
    BY <1>3, <2>1, <2>2
  <2>3. CASE m \notin holds[n]
    BY <1>1, <1>2, <1>3, <2>1, <2>3 DEF OnItsWay
  <2>. QED BY <2>2, <2>3
<1>8. ~early' => OnePlace'
  <2> SUFFICES ASSUME ~early PROVE OnePlace'
    BY <1>1
  <2>0. OnePlace /\ order \in Started /\ at[n] \notin Started
    BY <1>0 DEF Started, Orders
  <2>1. ASSUME NEW m \in Updates
        PROVE  /\ passed'[m] <= 1
               /\ passed'[m] = 1 => \E i \in Slots : m \in holds'[i] /\ at'[i] \in Started
    <3>1. CASE m \in holds[n]
      <4>1. passed[m] # 1
        BY <1>0, <2>0, <3>1 DEF OnePlace
      <4>2. passed[m] \in Nat /\ passed[m] <= 1
        BY <1>0, <2>0 DEF OnePlace, PieceTypes
      <4>. QED BY <1>0, <1>1, <1>2, <1>3, <2>0, <3>1, <4>1, <4>2
    <3>2. CASE m \notin holds[n]
      BY <1>1, <1>2, <1>3, <2>0, <3>2 DEF OnePlace
    <3>. QED BY <3>1, <3>2
  <2>. QED BY <1>1, <1>6, <2>0, <2>1 DEF OnePlace
<1>. QED BY <1>4, <1>5, <1>7, <1>8 DEF Kept

\* process ends, or the worker does not wait for it any longer.
LEMMA EndKeeps ==
    ASSUME OrderInv, Kept, GraceEnds \/ \E i \in Slots : ProcessEnds(i)
    PROVE  Kept'
<1>0. PieceTypes /\ AlbumKnown /\ AllThere /\ (~early => OnePlace)
  BY DEF Kept
<1>1. CASE GraceEnds
  BY <1>1 DEF GraceEnds, albums, Kept, PieceTypes, AlbumKnown, AllThere, OnItsWay, Came, OnePlace
<1>2. ASSUME NEW n \in Slots, ProcessEnds(n)
      PROVE  Kept'
  <2>1. /\ at[n] \in Orders /\ at' = [at EXCEPT ![n] = "over"]
        /\ UNCHANGED <<holds, ready, albumAt, ticking, dying, heard, whole, passed, early>>
    BY <1>2 DEF ProcessEnds, albums
  <2>2. at'[n] = "over" /\ (\A i \in Slots : i # n => at'[i] = at[i]) /\ Came' = Came
    BY <2>1 DEF OrderInv, PlaceTypes, Came
  <2>3. PieceTypes'
    BY <1>0, <2>1 DEF PieceTypes
  <2>4. AlbumKnown'
    BY <1>0, <2>1, <2>2 DEF AlbumKnown, Orders
  <2>5. AllThere'
    BY <1>0, <2>1, <2>2, StaysThere DEF Orders
  <2>6. ~early' => OnePlace'
    BY <1>0, <2>1, <2>2 DEF OnePlace, Started
  <2>. QED BY <2>3, <2>4, <2>5, <2>6 DEF Kept
<1>. QED BY <1>1, <1>2

\* The timer lets the album go with what it has.
LEMMA TimerKeeps ==
    ASSUME OrderInv, Kept, NEW n \in Slots, TimerFires(n) \/ TimerDies(n)
    PROVE  Kept'
<1>0. PieceTypes /\ AlbumKnown /\ AllThere /\ (~early => OnePlace)
  BY DEF Kept
<1>1. TimerFires(n)
  BY <1>0 DEF TimerDies, AlbumKnown
<1>2. /\ n \in ticking /\ n = albumAt /\ at[n] # "alert" /\ albumAt' = 0 /\ ticking' = {}
      /\ early' = (early \/ ~whole \/ Parts \ heard # {})
      /\ ready' = [j \in Slots |-> ready[j] \/ j = albumAt]
      /\ UNCHANGED <<at, holds, dying, heard, whole, passed>>
  BY <1>0, <1>1 DEF TimerFires, Forget, AlbumKnown
<1>3. PieceTypes'
  <2>1. ready' \in [Slots -> BOOLEAN]
    <3>1. \A j \in Slots : (ready[j] \/ j = albumAt) \in BOOLEAN
      OBVIOUS
    <3>. QED BY <1>2, <3>1
  <2>2. early' \in BOOLEAN
    <3>1. (early \/ ~whole \/ Parts \ heard # {}) \in BOOLEAN
      OBVIOUS
    <3>. QED BY <1>2, <3>1
  <2>3. albumAt' \in 0 .. MaxPlace
    BY <1>0, <1>2, QueueAssumption
  <2>. QED BY <1>0, <1>2, <2>1, <2>2, <2>3 DEF PieceTypes
<1>4. AlbumKnown'
  <2>1. \A i \in Slots : i # 0
    BY DEF Slots
  <2>2. \A i \in Slots : ~(at[i] = "alert" /\ holds[i] \subseteq Parts)
    BY <1>0, <1>2 DEF AlbumKnown
  <2>. QED BY <1>0, <1>2, <2>1, <2>2 DEF AlbumKnown
<1>5. AllThere'
  BY <1>0, <1>2 DEF AllThere, OnItsWay, Came
<1>6. ~early' => OnePlace'
  BY <1>0, <1>2 DEF OnePlace, Came
<1>. QED BY <1>3, <1>4, <1>5, <1>6 DEF Kept

\* Every step.
LEMMA HandStep ==
    ASSUME HandInv, [QueueNext]_queueVars
    PROVE  HandInv'
<1>0. OrderInv /\ OrderInv' /\ stops \in Nat
  BY OrderStep DEF HandInv
<1>1. CASE StopUser
  <2>1. stops' = stops + 1
    BY <1>1 DEF StopUser
  <2>. QED BY <1>0, <2>1 DEF HandInv
<1>2. CASE UNCHANGED queueVars
  <2>1. UNCHANGED <<at, holds, ready, albumAt, ticking, dying, heard, whole, passed, early, stops>>
    BY <1>2 DEF queueVars, places, albums
  <2>2. Kept => Kept'
    BY <2>1 DEF Kept, PieceTypes, AlbumKnown, AllThere, OnItsWay, Came, OnePlace
  <2>. QED BY <1>0, <2>1, <2>2 DEF HandInv
<1>3. ASSUME QueueNext, ~StopUser
      PROVE  stops' = stops /\ (Kept => Kept')
  <2>1. CASE HearAlbum \/ \E m \in Updates : HearText(m) \/ HearPart(m)
    BY <1>0, <2>1, HearingKeeps DEF HearAlbum, HearText, HearPart
  <2>2. CASE WorkerGets \/ \E i \in Slots : AlertEnds(i)
    BY <1>0, <2>2, OnWayKeeps DEF WorkerGets, AlertEnds
  <2>3. ASSUME NEW order \in Orders, WorkerStarts(order) \/ WaitTimesOut(order)
        PROVE  stops' = stops /\ (Kept => Kept')
    BY <1>0, <2>3, HandOverKeeps DEF WorkerStarts, WaitTimesOut, HandOver
  <2>4. CASE GraceEnds \/ \E i \in Slots : ProcessEnds(i)
    BY <1>0, <2>4, EndKeeps DEF GraceEnds, ProcessEnds
  <2>5. ASSUME NEW n \in Slots, TimerFires(n) \/ TimerDies(n)
        PROVE  stops' = stops /\ (Kept => Kept')
    BY <1>0, <2>5, TimerKeeps DEF TimerFires, TimerDies
  <2>. QED BY <1>3, <2>1, <2>2, <2>3, <2>4, <2>5 DEF QueueNext, QueueStep, Serve
<1>. QED BY <1>0, <1>1, <1>2, <1>3 DEF HandInv

\* Nothing came yet.
LEMMA HandBegins == QueueInit => HandInv
<1> SUFFICES ASSUME QueueInit PROVE HandInv
  OBVIOUS
<1>1. PieceTypes
  <2>1. holds \in [Slots -> SUBSET Updates] /\ ready \in [Slots -> BOOLEAN]
    BY DEF QueueInit
  <2>2. albumAt \in 0 .. MaxPlace /\ passed \in [Updates -> Nat]
    BY QueueAssumption DEF QueueInit
  <2>. QED BY <2>1, <2>2 DEF QueueInit, PieceTypes
<1>2. AlbumKnown
  BY DEF QueueInit, AlbumKnown, Slots
<1>3. Came = {}
  BY DEF QueueInit, Came
<1>4. AllThere
  BY <1>3 DEF AllThere
<1>5. OnePlace
  <2>1. \A i \in Slots : holds[i] = {}
    BY DEF QueueInit
  <2>2. \A m \in Updates : passed[m] = 0
    BY DEF QueueInit
  <2>. QED BY <2>1, <2>2 DEF OnePlace
<1>. QED BY <1>1, <1>2, <1>4, <1>5, OrderBegins DEF HandInv, Kept, QueueInit

\* The posts of a source are handed over in the order they were first heard of, a
\* post in strict order is over before the next is started, and every update is
\* handed over once or is on its way, however the parts of an album, its event, its
\* timer and the alert of a long queue fall (copier.py, _enqueue, _album_release and
\* _worker).
THEOREM HandedOverInOrder == QueueInit /\ [][QueueNext]_queueVars => []InOrderOnce
<1>1. HandInv => InOrderOnce
  <2> SUFFICES ASSUME HandInv, stops = 0, NEW m \in Came
               PROVE  (OnItsWay(m) \/ passed[m] > 0) /\ (passed[m] > 1 => early)
    BY DEF HandInv, OrderInv, InOrderOnce, HandedOver
  <2>1. Kept /\ m \in Updates
    BY DEF HandInv, Kept, PieceTypes, Came, Updates
  <2>2. OnItsWay(m) \/ passed[m] > 0
    BY <2>1 DEF Kept, AllThere
  <2>3. ~early => passed[m] <= 1 /\ passed[m] \in Nat
    BY <2>1 DEF Kept, OnePlace, PieceTypes
  <2>. QED BY <2>2, <2>3
<1>. QED BY <1>1, HandBegins, HandStep, PTL

-----------------------------------------------------------------------------
(* Entitlement and History: the quota and the credits.                     *)

\* The steps at which a spender has been granted a part of the quota.
Granted == {"granted", "return", "back"}

\* The quota a spender holds.
HeldQuota(c) == IF s[c].pc \in Granted THEN s[c].quota ELSE 0
AllQuota == SumFunction([c \in Spenders |-> HeldQuota(c)])

\* What was read is still so, and what is left of the quota is still left, unless an
\* overlap was met.
Undisturbed ==
    \A c \in Spenders :
        /\ s[c].pc \in {"pay", "refund"} => s[c].old = credits
        /\ s[c].pc \in {"update", "back"} => s[c].old = usage.used
        /\ s[c].pc \in {"credits", "pay", "take", "insert", "update"} =>
               usage.used + s[c].quota <= Limit

\* With or without overlaps.
Sound ==
    /\ ~usage.row => usage.used = 0
    /\ \A c \in Spenders :
        /\ s[c].pc = "pay" => s[c].old >= s[c].credit
        /\ s[c].pc \in {"update", "return", "back"} => usage.row
        /\ s[c].pc = "granted" /\ s[c].quota > 0 => usage.row

AccountInv ==
    /\ EntitlementTypeOK /\ Sound
    /\ ~overlap => Undisturbed /\ Accounted /\ AllQuota <= usage.used

SpenderSteps == {"idle", "credits", "pay", "take", "insert", "update", "granted",
                 "return", "back", "recredit", "refund"}
SpenderType == [pc : SpenderSteps, quota : 0 .. Limit, credit : Nat, old : Nat]

\* The sum of a function is the total over its domain.
LEMMA SumIsTotal ==
    ASSUME NEW f
    PROVE  SumFunction(f) = Total(f, DOMAIN f)
  BY DEF SumFunction, SumFunctionOnSet, FoldFunctionOnSet, Total, MapThenSumSet

\* A function of the spenders changes at one of them.
LEMMA SumChanges ==
    ASSUME NEW c \in Spenders, NEW f \in [Spenders -> Int], NEW g \in [Spenders -> Int],
           \A d \in Spenders \ {c} : g[d] = f[d]
    PROVE  SumFunction(g) = SumFunction(f) - f[c] + g[c]
<1>1. Total(g, Spenders) = Total(f, Spenders) - f[c] + g[c]
  BY EntitlementAssumption, TotalChanges
<1>2. SumFunction(f) = Total(f, Spenders) /\ SumFunction(g) = Total(g, Spenders)
  BY SumIsTotal
<1> QED
  BY <1>1, <1>2

\* Sums of natural numbers.
LEMMA SumIsNat ==
    ASSUME NEW f \in [Spenders -> Nat]
    PROVE  SumFunction(f) \in Nat
  BY EntitlementAssumption, SumIsTotal, TotalIsNat

\* What one spender holds.
LEMMA HeldIsNat ==
    ASSUME EntitlementTypeOK, NEW c \in Spenders
    PROVE  Held(c) \in Nat /\ HeldQuota(c) \in Nat /\ s[c] \in SpenderType
<1>1. s[c] \in SpenderType
  BY DEF EntitlementTypeOK, SpenderType, SpenderSteps
<1>2. s[c].quota \in Nat /\ s[c].credit \in Nat
  BY <1>1, EntitlementAssumption DEF SpenderType
<1> QED
  BY <1>1, <1>2 DEF Held, HeldQuota, Granted

\* What all of them hold changes by what one of them takes or leaves.
LEMMA HeldChanges ==
    ASSUME EntitlementTypeOK, EntitlementTypeOK', NEW c \in Spenders,
           \A d \in Spenders \ {c} : s'[d] = s[d]
    PROVE  /\ AllHeld' = AllHeld - Held(c) + Held(c)'
           /\ AllQuota' = AllQuota - HeldQuota(c) + HeldQuota(c)'
           /\ AllHeld \in Nat /\ AllQuota \in Nat
<1> DEFINE f == [d \in Spenders |-> Held(d)]
           g == [d \in Spenders |-> Held(d)']
           fq == [d \in Spenders |-> HeldQuota(d)]
           gq == [d \in Spenders |-> HeldQuota(d)']
<1>1. f \in [Spenders -> Nat] /\ fq \in [Spenders -> Nat]
  BY HeldIsNat
<1>2. \A d \in Spenders : Held(d)' \in Nat /\ HeldQuota(d)' \in Nat
  <2> SUFFICES ASSUME NEW d \in Spenders PROVE Held(d)' \in Nat /\ HeldQuota(d)' \in Nat
    OBVIOUS
  <2>1. s'[d] \in SpenderType
    BY DEF EntitlementTypeOK, SpenderType, SpenderSteps
  <2>2. s'[d].quota \in Nat /\ s'[d].credit \in Nat
    BY <2>1, EntitlementAssumption DEF SpenderType
  <2> QED
    BY <2>1, <2>2 DEF Held, HeldQuota, Granted
<1>3. g \in [Spenders -> Nat] /\ gq \in [Spenders -> Nat]
  BY <1>2
<1>4. \A d \in Spenders \ {c} : g[d] = f[d] /\ gq[d] = fq[d]
  BY DEF Held, HeldQuota
<1>5. AllHeld = SumFunction(f) /\ AllHeld' = SumFunction(g)
      /\ AllQuota = SumFunction(fq) /\ AllQuota' = SumFunction(gq)
  BY DEF AllHeld, AllQuota
<1>6. f[c] = Held(c) /\ g[c] = Held(c)' /\ fq[c] = HeldQuota(c) /\ gq[c] = HeldQuota(c)'
  OBVIOUS
<1> HIDE DEF f, g, fq, gq
<1>7. SumFunction(g) = SumFunction(f) - f[c] + g[c]
  BY <1>1, <1>3, <1>4, SumChanges
<1>8. SumFunction(gq) = SumFunction(fq) - fq[c] + gq[c]
  BY <1>1, <1>3, <1>4, SumChanges
<1>9. SumFunction(f) \in Nat /\ SumFunction(fq) \in Nat
  BY <1>1, SumIsNat
<1> QED
  BY <1>5, <1>6, <1>7, <1>8, <1>9

\* A spender goes on to a step, with a counter it has read or without.
LEMMA Moves ==
    ASSUME s \in [Spenders -> SpenderType], NEW c \in Spenders, NEW step \in SpenderSteps,
           NEW n \in Nat, ReadOld(c, step, n) \/ (Move(c, step) /\ n = s[c].old)
    PROVE  /\ s' \in [Spenders -> SpenderType]
           /\ s'[c].pc = step /\ s'[c].quota = s[c].quota /\ s'[c].credit = s[c].credit
           /\ s'[c].old = n
           /\ \A d \in Spenders \ {c} : s'[d] = s[d]
<1>1. s[c] \in SpenderType
  OBVIOUS
<1>2. [s[c] EXCEPT !.pc = step, !.old = n] \in SpenderType
      /\ [s[c] EXCEPT !.pc = step] \in SpenderType
  BY <1>1 DEF SpenderType
<1>3. CASE ReadOld(c, step, n)
  <2>1. s' = [s EXCEPT ![c] = [s[c] EXCEPT !.pc = step, !.old = n]]
    BY <1>1, <1>3 DEF ReadOld, SpenderType
  <2> QED
    BY <1>1, <1>2, <2>1 DEF SpenderType
<1>4. CASE Move(c, step) /\ n = s[c].old
  <2>1. s' = [s EXCEPT ![c] = [s[c] EXCEPT !.pc = step]]
    BY <1>4 DEF Move
  <2> QED
    BY <1>1, <1>2, <1>4, <2>1 DEF SpenderType
<1> QED
  BY <1>3, <1>4

\* A step of one spender keeps the accounts, if what it adds to the counters is what it
\* adds to the units it holds or has used.
LEMMA Balance ==
    ASSUME AccountInv, NEW c \in Spenders, EntitlementTypeOK', Sound',
           \A d \in Spenders \ {c} : s'[d] = s[d],
           ~overlap' =>
               /\ ~overlap /\ Undisturbed'
               /\ usage'.used - credits' - spent' - Held(c)'
                      = usage.used - credits - spent - Held(c)
               /\ usage'.used - HeldQuota(c)' >= usage.used - HeldQuota(c)
               /\ usage'.used <= Limit
    PROVE  AccountInv'
<1>1. SUFFICES ASSUME ~overlap' PROVE Accounted' /\ (AllQuota <= usage.used)'
  BY DEF AccountInv
<1>2. /\ AllHeld' = AllHeld - Held(c) + Held(c)'
      /\ AllQuota' = AllQuota - HeldQuota(c) + HeldQuota(c)'
      /\ AllHeld \in Nat /\ AllQuota \in Nat
  BY HeldChanges DEF AccountInv
<1>3. /\ Held(c) \in Nat /\ HeldQuota(c) \in Nat
      /\ usage.used \in Nat /\ credits \in Nat /\ spent \in Nat
  BY HeldIsNat DEF AccountInv, EntitlementTypeOK
<1>4. Held(c)' \in Nat /\ HeldQuota(c)' \in Nat
  <2>1. s'[c] \in SpenderType
    BY DEF EntitlementTypeOK, SpenderType, SpenderSteps
  <2>2. s'[c].quota \in Nat /\ s'[c].credit \in Nat
    BY <2>1, EntitlementAssumption DEF SpenderType
  <2> QED
    BY <2>1, <2>2 DEF Held, HeldQuota, Granted
<1>5. usage'.used \in Nat /\ credits' \in Nat /\ spent' \in Nat
  BY DEF EntitlementTypeOK
<1>6. usage.used + (Credit - credits) = spent + AllHeld /\ AllQuota <= usage.used
  BY <1>1 DEF AccountInv, Accounted
<1>7. usage'.used + (Credit - credits') = spent' + AllHeld'
  BY <1>1, <1>2, <1>3, <1>4, <1>5, <1>6, EntitlementAssumption
<1>8. AllQuota' <= usage'.used
  BY <1>1, <1>2, <1>3, <1>4, <1>5, <1>6
<1> QED
  BY <1>1, <1>7, <1>8 DEF Accounted

\* The accounts are kept by every step of a reservation ...
LEMMA ReservingKeeps ==
    ASSUME AccountInv, NEW c \in Spenders, Reserving(c)
    PROVE  AccountInv'
<1>0. /\ s \in [Spenders -> SpenderType] /\ s[c] \in SpenderType
      /\ usage.used \in Nat /\ usage.row \in BOOLEAN /\ credits \in Nat /\ Limit \in Nat
      /\ usage \in [row : BOOLEAN, used : Nat] /\ spent \in Nat /\ overlap \in BOOLEAN
      /\ s[c].quota \in Nat /\ s[c].quota <= Limit /\ s[c].credit \in Nat /\ s[c].old \in Nat
  BY EntitlementAssumption DEF AccountInv, EntitlementTypeOK, SpenderType, SpenderSteps
<1>t. ASSUME s' \in [Spenders -> SpenderType], usage' \in [row : BOOLEAN, used : Nat],
             credits' \in Nat, spent' \in Nat, overlap' \in BOOLEAN
      PROVE  EntitlementTypeOK'
  BY <1>t DEF EntitlementTypeOK, SpenderType, SpenderSteps
<1>1. ASSUME NEW n \in Amounts, Reserve(c, n) PROVE AccountInv'
  <2> DEFINE quota == Least(n, Left)
  <2>1. n \in Nat /\ quota \in 0 .. Limit /\ quota <= n
        /\ (usage.used <= Limit => usage.used + quota <= Limit)
    BY <1>0, EntitlementAssumption DEF Least, Left, AtLeastZero
  <2>2. s' = [s EXCEPT ![c] = [pc |-> IF n > quota THEN "credits" ELSE "take",
                               quota |-> quota, credit |-> n - quota, old |-> 0]]
        /\ s[c].pc = "idle" /\ UNCHANGED <<usage, credits, overlap, spent>>
    BY <1>1 DEF Reserve, Does
  <2> HIDE DEF quota
  <2>3. /\ s'[c].pc \in {"credits", "take"} /\ s'[c].quota = quota
        /\ s'[c].pc = "take" => s'[c].credit = 0
        /\ \A d \in Spenders \ {c} : s'[d] = s[d]
    BY <1>0, <2>1, <2>2
  <2>4. s' \in [Spenders -> SpenderType]
    BY <1>0, <2>1, <2>2 DEF SpenderType, SpenderSteps
  <2>5. EntitlementTypeOK'
    BY <1>0, <1>t, <2>2, <2>4
  <2>6. Sound'
    BY <2>2, <2>3 DEF AccountInv, Sound
  <2>7. Held(c) = 0 /\ Held(c)' = 0 /\ HeldQuota(c) = 0 /\ HeldQuota(c)' = 0
    BY <2>2, <2>3 DEF Held, HeldQuota, Granted
  <2>8. ASSUME ~overlap' PROVE Undisturbed' /\ usage.used <= Limit
    BY <2>1, <2>2, <2>3, <2>8 DEF AccountInv, Accounted, Undisturbed
  <2> QED
    BY <1>0, <2>2, <2>3, <2>5, <2>6, <2>7, <2>8, Balance
<1>2. ASSUME Consume(c) PROVE AccountInv'
  <2>1. CASE credits < s[c].credit
    <3>1. s' = [s EXCEPT ![c] = Idle] /\ UNCHANGED <<usage, credits, overlap, spent>>
          /\ s[c].pc = "credits"
      BY <1>2, <2>1 DEF Consume, Does
    <3>2. Idle \in SpenderType /\ Idle.pc = "idle"
      BY EntitlementAssumption DEF Idle, SpenderType, SpenderSteps
    <3>3. s'[c].pc = "idle" /\ \A d \in Spenders \ {c} : s'[d] = s[d]
      BY <1>0, <3>1, <3>2
    <3>4. EntitlementTypeOK'
      BY <1>0, <1>t, <3>1, <3>2
    <3>5. Sound'
      BY <3>1, <3>3 DEF AccountInv, Sound
    <3>6. Held(c) = 0 /\ Held(c)' = 0 /\ HeldQuota(c) = 0 /\ HeldQuota(c)' = 0
      BY <3>1, <3>3 DEF Held, HeldQuota, Granted
    <3>7. ASSUME ~overlap' PROVE Undisturbed' /\ usage.used <= Limit
      BY <3>1, <3>3, <3>7 DEF AccountInv, Accounted, Undisturbed
    <3> QED
      BY <1>0, <3>1, <3>3, <3>4, <3>5, <3>6, <3>7, Balance
  <2>2. CASE ~(credits < s[c].credit)
    <3>1. ReadOld(c, "pay", credits) /\ UNCHANGED <<usage, credits, overlap, spent>>
          /\ s[c].pc = "credits"
      BY <1>2, <2>2 DEF Consume, Does
    <3>2. /\ s' \in [Spenders -> SpenderType]
          /\ s'[c].pc = "pay" /\ s'[c].quota = s[c].quota /\ s'[c].credit = s[c].credit
          /\ s'[c].old = credits /\ \A d \in Spenders \ {c} : s'[d] = s[d]
      BY <1>0, <3>1, Moves, "pay" \in SpenderSteps DEF SpenderSteps
    <3>4. EntitlementTypeOK'
      BY <1>0, <1>t, <3>1, <3>2
    <3>5. Sound'
      BY <1>0, <2>2, <3>1, <3>2 DEF AccountInv, Sound
    <3>6. Held(c) = 0 /\ Held(c)' = 0 /\ HeldQuota(c) = 0 /\ HeldQuota(c)' = 0
      BY <3>1, <3>2 DEF Held, HeldQuota, Granted
    <3>7. ASSUME ~overlap' PROVE Undisturbed' /\ usage.used <= Limit
      BY <3>1, <3>2, <3>7 DEF AccountInv, Accounted, Undisturbed
    <3> QED
      BY <1>0, <3>1, <3>2, <3>4, <3>5, <3>6, <3>7, Balance
  <2> QED
    BY <2>1, <2>2
<1>3. ASSUME ConsumeWrite(c) PROVE AccountInv'
  <2> DEFINE step == IF s[c].quota > 0 THEN "take" ELSE "granted"
  <2>1. /\ s[c].pc = "pay" /\ credits' = s[c].old - s[c].credit /\ Overlaps(c, OnCredits)
        /\ Move(c, step) /\ UNCHANGED <<usage, spent>>
    BY <1>3 DEF ConsumeWrite, Does
  <2>2. /\ s' \in [Spenders -> SpenderType]
        /\ s'[c].pc = step /\ s'[c].quota = s[c].quota /\ s'[c].credit = s[c].credit
        /\ \A d \in Spenders \ {c} : s'[d] = s[d]
    BY <1>0, <2>1, Moves, step \in SpenderSteps DEF SpenderSteps
  <2>3. credits' \in Nat /\ overlap' \in BOOLEAN
    BY <1>0, <2>1 DEF AccountInv, Sound, Overlaps
  <2>4. EntitlementTypeOK'
    BY <1>0, <1>t, <2>1, <2>2, <2>3
  <2>5. Sound'
    BY <1>0, <2>1, <2>2 DEF AccountInv, Sound
  <2>6. Held(c) = 0 /\ Held(c)' = s[c].credit /\ HeldQuota(c) = 0 /\ HeldQuota(c)' = 0
    BY <1>0, <2>1, <2>2 DEF Held, HeldQuota, Granted
  <2>7. ASSUME ~overlap'
        PROVE  ~overlap /\ Undisturbed' /\ usage.used <= Limit /\ s[c].old = credits
    <3>1. ~overlap /\ \A d \in Spenders \ {c} : s[d].pc \notin OnCredits
      BY <2>1, <2>7 DEF Overlaps
    <3> QED
      BY <2>1, <2>2, <3>1 DEF AccountInv, Accounted, Undisturbed, OnCredits
  <2> QED
    BY <1>0, <2>1, <2>2, <2>3, <2>4, <2>5, <2>6, <2>7, Balance
<1>4. ASSUME TakeRead(c) PROVE AccountInv'
  <2> DEFINE step == IF usage.row THEN "update" ELSE "insert"
  <2>1. s[c].pc = "take" /\ ReadOld(c, step, usage.used)
        /\ UNCHANGED <<usage, credits, overlap, spent>>
    BY <1>4 DEF TakeRead, Does
  <2>2. /\ s' \in [Spenders -> SpenderType]
        /\ s'[c].pc = step /\ s'[c].quota = s[c].quota /\ s'[c].credit = s[c].credit
        /\ s'[c].old = usage.used /\ \A d \in Spenders \ {c} : s'[d] = s[d]
    BY <1>0, <2>1, Moves, step \in SpenderSteps DEF SpenderSteps
  <2>3. EntitlementTypeOK'
    BY <1>0, <1>t, <2>1, <2>2
  <2>4. Sound'
    BY <1>0, <2>1, <2>2 DEF AccountInv, Sound
  <2>5. Held(c) = s[c].credit /\ Held(c)' = s[c].credit /\ HeldQuota(c) = 0 /\ HeldQuota(c)' = 0
    BY <1>0, <2>1, <2>2 DEF Held, HeldQuota, Granted
  <2>6. ASSUME ~overlap' PROVE Undisturbed' /\ usage.used <= Limit
    BY <2>1, <2>2, <2>6 DEF AccountInv, Accounted, Undisturbed
  <2> QED
    BY <1>0, <2>1, <2>2, <2>3, <2>4, <2>5, <2>6, Balance
<1>5. ASSUME TakeInsert(c) PROVE AccountInv'
  <2>1. CASE usage.row
    <3>1. s[c].pc = "insert" /\ ReadOld(c, "update", usage.used)
          /\ UNCHANGED <<usage, credits, overlap, spent>>
      BY <1>5, <2>1 DEF TakeInsert, Does
    <3>2. /\ s' \in [Spenders -> SpenderType]
          /\ s'[c].pc = "update" /\ s'[c].quota = s[c].quota /\ s'[c].credit = s[c].credit
          /\ s'[c].old = usage.used /\ \A d \in Spenders \ {c} : s'[d] = s[d]
      BY <1>0, <3>1, Moves, "update" \in SpenderSteps DEF SpenderSteps
    <3>3. EntitlementTypeOK'
      BY <1>0, <1>t, <3>1, <3>2
    <3>4. Sound'
      BY <1>0, <2>1, <3>1, <3>2 DEF AccountInv, Sound
    <3>5. Held(c) = s[c].credit /\ Held(c)' = s[c].credit
          /\ HeldQuota(c) = 0 /\ HeldQuota(c)' = 0
      BY <1>0, <3>1, <3>2 DEF Held, HeldQuota, Granted
    <3>6. ASSUME ~overlap' PROVE Undisturbed' /\ usage.used <= Limit
      BY <3>1, <3>2, <3>6 DEF AccountInv, Accounted, Undisturbed
    <3> QED
      BY <1>0, <3>1, <3>2, <3>3, <3>4, <3>5, <3>6, Balance
  <2>2. CASE ~usage.row
    <3>1. /\ s[c].pc = "insert" /\ Move(c, "granted") /\ UNCHANGED <<credits, spent>>
          /\ usage' = [row |-> TRUE, used |-> s[c].quota] /\ Overlaps(c, OnUsage)
      BY <1>5, <2>2 DEF TakeInsert, Does
    <3>2. /\ s' \in [Spenders -> SpenderType]
          /\ s'[c].pc = "granted" /\ s'[c].quota = s[c].quota /\ s'[c].credit = s[c].credit
          /\ \A d \in Spenders \ {c} : s'[d] = s[d]
      BY <1>0, <3>1, Moves, "granted" \in SpenderSteps DEF SpenderSteps
    <3>3. usage' \in [row : BOOLEAN, used : Nat] /\ overlap' \in BOOLEAN
      BY <1>0, <3>1 DEF Overlaps
    <3>4. EntitlementTypeOK'
      BY <1>0, <1>t, <3>1, <3>2, <3>3
    <3>5. Sound'
      BY <1>0, <2>2, <3>1, <3>2 DEF AccountInv, Sound
    <3>6. /\ Held(c) = s[c].credit /\ Held(c)' = s[c].quota + s[c].credit
          /\ HeldQuota(c) = 0 /\ HeldQuota(c)' = s[c].quota
      BY <1>0, <3>1, <3>2 DEF Held, HeldQuota, Granted
    <3>7. usage.used = 0 /\ usage'.used = s[c].quota
      BY <2>2, <3>1 DEF AccountInv, Sound
    <3>8. ASSUME ~overlap' PROVE ~overlap /\ Undisturbed'
      <4>1. ~overlap /\ \A d \in Spenders \ {c} : s[d].pc \notin OnUsage
        BY <3>1, <3>8 DEF Overlaps
      <4> QED
        BY <3>1, <3>2, <4>1 DEF AccountInv, Undisturbed, OnUsage
    <3> QED
      BY <1>0, <3>1, <3>2, <3>3, <3>4, <3>5, <3>6, <3>7, <3>8, Balance
  <2> QED
    BY <2>1, <2>2
<1>6. ASSUME TakeUpdate(c) PROVE AccountInv'
  <2>1. /\ s[c].pc = "update" /\ Move(c, "granted") /\ UNCHANGED <<credits, spent>>
        /\ usage' = [usage EXCEPT !.used = s[c].old + s[c].quota] /\ Overlaps(c, OnUsage)
    BY <1>6 DEF TakeUpdate, Does
  <2>2. /\ s' \in [Spenders -> SpenderType]
        /\ s'[c].pc = "granted" /\ s'[c].quota = s[c].quota /\ s'[c].credit = s[c].credit
        /\ \A d \in Spenders \ {c} : s'[d] = s[d]
    BY <1>0, <2>1, Moves, "granted" \in SpenderSteps DEF SpenderSteps
  <2>3. /\ usage' \in [row : BOOLEAN, used : Nat] /\ overlap' \in BOOLEAN
        /\ usage'.row = usage.row /\ usage'.used = s[c].old + s[c].quota
    BY <1>0, <2>1 DEF Overlaps
  <2>4. EntitlementTypeOK'
    BY <1>0, <1>t, <2>1, <2>2, <2>3
  <2>5. Sound'
    BY <1>0, <2>1, <2>2, <2>3 DEF AccountInv, Sound
  <2>6. /\ Held(c) = s[c].credit /\ Held(c)' = s[c].quota + s[c].credit
        /\ HeldQuota(c) = 0 /\ HeldQuota(c)' = s[c].quota
    BY <1>0, <2>1, <2>2 DEF Held, HeldQuota, Granted
  <2>7. ASSUME ~overlap'
        PROVE  ~overlap /\ Undisturbed' /\ s[c].old = usage.used
               /\ usage.used + s[c].quota <= Limit
    <3>1. ~overlap /\ \A d \in Spenders \ {c} : s[d].pc \notin OnUsage
      BY <2>1, <2>7 DEF Overlaps
    <3> QED
      BY <2>1, <2>2, <3>1 DEF AccountInv, Undisturbed, OnUsage
  <2> QED
    BY <1>0, <2>1, <2>2, <2>3, <2>4, <2>5, <2>6, <2>7, Balance
<1> QED
  BY <1>1, <1>2, <1>3, <1>4, <1>5, <1>6 DEF Reserving

\* ... by what comes of it, used or given back ...
LEMMA ReturningKeeps ==
    ASSUME AccountInv, NEW c \in Spenders, Use(c) \/ Release(c) \/ Returning(c)
    PROVE  AccountInv'
<1>0. /\ s \in [Spenders -> SpenderType] /\ s[c] \in SpenderType
      /\ usage.used \in Nat /\ usage.row \in BOOLEAN /\ credits \in Nat /\ Limit \in Nat
      /\ usage \in [row : BOOLEAN, used : Nat] /\ spent \in Nat /\ overlap \in BOOLEAN
      /\ s[c].quota \in Nat /\ s[c].quota <= Limit /\ s[c].credit \in Nat /\ s[c].old \in Nat
  BY EntitlementAssumption DEF AccountInv, EntitlementTypeOK, SpenderType, SpenderSteps
<1>t. ASSUME s' \in [Spenders -> SpenderType], usage' \in [row : BOOLEAN, used : Nat],
             credits' \in Nat, spent' \in Nat, overlap' \in BOOLEAN
      PROVE  EntitlementTypeOK'
  BY <1>t DEF EntitlementTypeOK, SpenderType, SpenderSteps
<1>i. Idle \in SpenderType /\ Idle.pc = "idle"
  BY EntitlementAssumption DEF Idle, SpenderType, SpenderSteps
<1>1. ASSUME Use(c) PROVE AccountInv'
  <2>1. /\ s[c].pc = "granted" /\ spent' = spent + s[c].quota + s[c].credit
        /\ s' = [s EXCEPT ![c] = Idle] /\ UNCHANGED <<usage, credits, overlap>>
    BY <1>1 DEF Use, Does
  <2>2. s'[c].pc = "idle" /\ \A d \in Spenders \ {c} : s'[d] = s[d]
    BY <1>0, <1>i, <2>1
  <2>3. EntitlementTypeOK'
    BY <1>0, <1>t, <1>i, <2>1
  <2>4. Sound'
    BY <2>1, <2>2 DEF AccountInv, Sound
  <2>5. /\ Held(c) = s[c].quota + s[c].credit /\ Held(c)' = 0
        /\ HeldQuota(c) = s[c].quota /\ HeldQuota(c)' = 0
    BY <1>0, <2>1, <2>2 DEF Held, HeldQuota, Granted
  <2>6. ASSUME ~overlap' PROVE Undisturbed' /\ usage.used <= Limit
    BY <2>1, <2>2, <2>6 DEF AccountInv, Accounted, Undisturbed
  <2> QED
    BY <1>0, <2>1, <2>2, <2>3, <2>4, <2>5, <2>6, Balance
<1>2. ASSUME Release(c) PROVE AccountInv'
  <2> DEFINE step == IF s[c].quota > 0 THEN "return" ELSE "recredit"
  <2>1. s[c].pc = "granted" /\ Move(c, step) /\ UNCHANGED <<usage, credits, overlap, spent>>
    BY <1>2 DEF Release, Does
  <2>2. /\ s' \in [Spenders -> SpenderType]
        /\ s'[c].pc = step /\ s'[c].quota = s[c].quota /\ s'[c].credit = s[c].credit
        /\ \A d \in Spenders \ {c} : s'[d] = s[d]
    BY <1>0, <2>1, Moves, step \in SpenderSteps DEF SpenderSteps
  <2>3. EntitlementTypeOK'
    BY <1>0, <1>t, <2>1, <2>2
  <2>4. Sound'
    BY <2>1, <2>2 DEF AccountInv, Sound
  <2>5. /\ Held(c) = s[c].quota + s[c].credit /\ Held(c)' = s[c].quota + s[c].credit
        /\ HeldQuota(c) = s[c].quota /\ HeldQuota(c)' = s[c].quota
    BY <1>0, <2>1, <2>2 DEF Held, HeldQuota, Granted
  <2>6. ASSUME ~overlap' PROVE Undisturbed' /\ usage.used <= Limit
    BY <2>1, <2>2, <2>6 DEF AccountInv, Accounted, Undisturbed
  <2> QED
    BY <1>0, <2>1, <2>2, <2>3, <2>4, <2>5, <2>6, Balance
<1>3. ASSUME ReturnRead(c) PROVE AccountInv'
  <2>1. s[c].pc = "return" /\ ReadOld(c, "back", usage.used)
        /\ UNCHANGED <<usage, credits, overlap, spent>>
    BY <1>3 DEF ReturnRead, Does
  <2>2. /\ s' \in [Spenders -> SpenderType]
        /\ s'[c].pc = "back" /\ s'[c].quota = s[c].quota /\ s'[c].credit = s[c].credit
        /\ s'[c].old = usage.used /\ \A d \in Spenders \ {c} : s'[d] = s[d]
    BY <1>0, <2>1, Moves, "back" \in SpenderSteps DEF SpenderSteps
  <2>3. EntitlementTypeOK'
    BY <1>0, <1>t, <2>1, <2>2
  <2>4. Sound'
    BY <2>1, <2>2 DEF AccountInv, Sound
  <2>5. /\ Held(c) = s[c].quota + s[c].credit /\ Held(c)' = s[c].quota + s[c].credit
        /\ HeldQuota(c) = s[c].quota /\ HeldQuota(c)' = s[c].quota
    BY <1>0, <2>1, <2>2 DEF Held, HeldQuota, Granted
  <2>6. ASSUME ~overlap' PROVE Undisturbed' /\ usage.used <= Limit
    BY <2>1, <2>2, <2>6 DEF AccountInv, Accounted, Undisturbed
  <2> QED
    BY <1>0, <2>1, <2>2, <2>3, <2>4, <2>5, <2>6, Balance
<1>4. ASSUME ReturnWrite(c) PROVE AccountInv'
  <2>1. /\ s[c].pc = "back" /\ Overlaps(c, OnUsage) /\ UNCHANGED <<credits, spent>>
        /\ usage' = [usage EXCEPT !.used = AtLeastZero(s[c].old - s[c].quota)]
        /\ s' = [s EXCEPT ![c] = Unreturned(c)]
    BY <1>4 DEF ReturnWrite, Does
  <2>2. /\ Unreturned(c) \in SpenderType
        /\ \/ Unreturned(c).pc = "recredit" /\ Unreturned(c).credit = s[c].credit
           \/ Unreturned(c).pc = "idle" /\ s[c].credit = 0
    <3>1. 0 \in 0 .. Limit /\ "recredit" \in SpenderSteps
      BY <1>0 DEF SpenderSteps
    <3>2. /\ [s[c] EXCEPT !.pc = "recredit", !.quota = 0] \in SpenderType
          /\ [s[c] EXCEPT !.pc = "recredit", !.quota = 0].pc = "recredit"
          /\ [s[c] EXCEPT !.pc = "recredit", !.quota = 0].credit = s[c].credit
      BY <1>0, <3>1 DEF SpenderType
    <3>3. CASE s[c].credit > 0
      BY <3>2, <3>3 DEF Unreturned
    <3>4. CASE ~(s[c].credit > 0)
      BY <1>0, <1>i, <3>4 DEF Unreturned
    <3> QED
      BY <3>3, <3>4
  <2>3. /\ s'[c] = Unreturned(c) /\ s' \in [Spenders -> SpenderType]
        /\ \A d \in Spenders \ {c} : s'[d] = s[d]
    BY <1>0, <2>1, <2>2
  <2>4. /\ usage' \in [row : BOOLEAN, used : Nat] /\ overlap' \in BOOLEAN
        /\ usage'.row = usage.row /\ usage'.used = AtLeastZero(s[c].old - s[c].quota)
    BY <1>0, <2>1 DEF Overlaps, AtLeastZero
  <2>5. EntitlementTypeOK'
    BY <1>0, <1>t, <2>1, <2>3, <2>4
  <2>6. Sound'
    BY <2>1, <2>2, <2>3, <2>4 DEF AccountInv, Sound
  <2>7. /\ Held(c) = s[c].quota + s[c].credit /\ Held(c)' = s[c].credit
        /\ HeldQuota(c) = s[c].quota /\ HeldQuota(c)' = 0
    BY <1>0, <2>1, <2>2, <2>3 DEF Held, HeldQuota, Granted
  <2>8. ASSUME ~overlap'
        PROVE  ~overlap /\ Undisturbed' /\ usage'.used = usage.used - s[c].quota
               /\ usage.used <= Limit
    <3>1. ~overlap /\ \A d \in Spenders \ {c} : s[d].pc \notin OnUsage
      BY <2>1, <2>8 DEF Overlaps
    <3>2. s[c].old = usage.used /\ AllQuota <= usage.used /\ usage.used <= Limit
      BY <2>1, <3>1 DEF AccountInv, Undisturbed, Accounted
    <3>3. AllQuota' = AllQuota - s[c].quota /\ AllQuota \in Nat /\ AllQuota' \in Nat
      <4>1. AllQuota' = AllQuota - HeldQuota(c) + HeldQuota(c)' /\ AllQuota \in Nat
        BY <2>3, <2>5, HeldChanges DEF AccountInv
      <4>2. AllQuota' \in Nat
        <5> DEFINE gq == [d \in Spenders |-> HeldQuota(d)']
        <5>1. \A d \in Spenders : HeldQuota(d)' \in Nat
          <6> SUFFICES ASSUME NEW d \in Spenders PROVE HeldQuota(d)' \in Nat
            OBVIOUS
          <6>1. s'[d] \in SpenderType
            BY <2>3
          <6>2. s'[d].quota \in Nat
            BY <6>1, EntitlementAssumption DEF SpenderType
          <6> QED
            BY <6>2 DEF HeldQuota
        <5>2. gq \in [Spenders -> Nat] /\ AllQuota' = SumFunction(gq)
          BY <5>1 DEF AllQuota
        <5> QED
          BY <5>2, SumIsNat
      <4> QED
        BY <1>0, <2>7, <4>1, <4>2
    <3>4. usage'.used = usage.used - s[c].quota
      BY <1>0, <2>4, <3>2, <3>3 DEF AtLeastZero
    <3>5. Undisturbed'
      BY <2>1, <2>2, <2>3, <3>1 DEF AccountInv, Undisturbed, OnUsage
    <3> QED
      BY <3>1, <3>2, <3>4, <3>5
  <2> QED
    BY <1>0, <2>1, <2>3, <2>4, <2>5, <2>6, <2>7, <2>8, Balance
<1>5. ASSUME RecreditRead(c) PROVE AccountInv'
  <2>1. s[c].pc = "recredit" /\ ReadOld(c, "refund", credits)
        /\ UNCHANGED <<usage, credits, overlap, spent>>
    BY <1>5 DEF RecreditRead, Does
  <2>2. /\ s' \in [Spenders -> SpenderType]
        /\ s'[c].pc = "refund" /\ s'[c].quota = s[c].quota /\ s'[c].credit = s[c].credit
        /\ s'[c].old = credits /\ \A d \in Spenders \ {c} : s'[d] = s[d]
    BY <1>0, <2>1, Moves, "refund" \in SpenderSteps DEF SpenderSteps
  <2>3. EntitlementTypeOK'
    BY <1>0, <1>t, <2>1, <2>2
  <2>4. Sound'
    BY <2>1, <2>2 DEF AccountInv, Sound
  <2>5. Held(c) = s[c].credit /\ Held(c)' = s[c].credit /\ HeldQuota(c) = 0 /\ HeldQuota(c)' = 0
    BY <1>0, <2>1, <2>2 DEF Held, HeldQuota, Granted
  <2>6. ASSUME ~overlap' PROVE Undisturbed' /\ usage.used <= Limit
    BY <2>1, <2>2, <2>6 DEF AccountInv, Accounted, Undisturbed
  <2> QED
    BY <1>0, <2>1, <2>2, <2>3, <2>4, <2>5, <2>6, Balance
<1>6. ASSUME RecreditWrite(c) PROVE AccountInv'
  <2>1. /\ s[c].pc = "refund" /\ credits' = s[c].old + s[c].credit /\ Overlaps(c, OnCredits)
        /\ s' = [s EXCEPT ![c] = Idle] /\ UNCHANGED <<usage, spent>>
    BY <1>6 DEF RecreditWrite, Does
  <2>2. s'[c].pc = "idle" /\ \A d \in Spenders \ {c} : s'[d] = s[d]
    BY <1>0, <1>i, <2>1
  <2>3. credits' \in Nat /\ overlap' \in BOOLEAN
    BY <1>0, <2>1 DEF Overlaps
  <2>4. EntitlementTypeOK'
    BY <1>0, <1>t, <1>i, <2>1, <2>3
  <2>5. Sound'
    BY <2>1, <2>2 DEF AccountInv, Sound
  <2>6. Held(c) = s[c].credit /\ Held(c)' = 0 /\ HeldQuota(c) = 0 /\ HeldQuota(c)' = 0
    BY <1>0, <2>1, <2>2 DEF Held, HeldQuota, Granted
  <2>7. ASSUME ~overlap'
        PROVE  ~overlap /\ Undisturbed' /\ usage.used <= Limit /\ s[c].old = credits
    <3>1. ~overlap /\ \A d \in Spenders \ {c} : s[d].pc \notin OnCredits
      BY <2>1, <2>7 DEF Overlaps
    <3> QED
      BY <2>1, <2>2, <3>1 DEF AccountInv, Accounted, Undisturbed, OnCredits
  <2> QED
    BY <1>0, <2>1, <2>2, <2>3, <2>4, <2>5, <2>6, <2>7, Balance
<1> QED
  BY <1>1, <1>2, <1>3, <1>4, <1>5, <1>6 DEF Returning

\* ... and when nothing happens to them.
LEMMA UntouchedKeeps ==
    ASSUME AccountInv, UNCHANGED ledger
    PROVE  AccountInv'
<1>1. \A c \in Spenders : Held(c)' = Held(c) /\ HeldQuota(c)' = HeldQuota(c)
  BY DEF Held, HeldQuota, ledger
<1>2. AllHeld' = AllHeld /\ AllQuota' = AllQuota
  BY <1>1 DEF AllHeld, AllQuota
<1> QED
  BY <1>2 DEF AccountInv, EntitlementTypeOK, Sound, Undisturbed, Accounted, ledger

\* A kill swallows what was held: the ghost counts it as spent.
LEMMA KillKeeps ==
    ASSUME AccountInv, s' = [c \in Spenders |-> Idle], spent' = spent + AllHeld,
           UNCHANGED <<usage, credits, overlap>>
    PROVE  AccountInv'
<1>i. Idle \in SpenderType /\ Idle.pc = "idle"
  BY EntitlementAssumption DEF Idle, SpenderType, SpenderSteps
<1>1. \A c \in Spenders : s'[c].pc = "idle"
  BY <1>i
<1>2. \A c \in Spenders : Held(c)' = 0 /\ HeldQuota(c)' = 0
  BY <1>1 DEF Held, HeldQuota, Granted
<1>3. AllHeld' = 0 /\ AllQuota' = 0
  <2> DEFINE g == [c \in Spenders |-> Held(c)']
             gq == [c \in Spenders |-> HeldQuota(c)']
  <2>1. AllHeld' = SumFunction(g) /\ AllQuota' = SumFunction(gq)
    BY DEF AllHeld, AllQuota
  <2>2. DOMAIN g = Spenders /\ DOMAIN gq = Spenders
        /\ \A c \in Spenders : g[c] = 0 /\ gq[c] = 0
    BY <1>2
  <2> HIDE DEF g, gq
  <2>3. SumFunction(g) = Total(g, Spenders) /\ SumFunction(gq) = Total(gq, Spenders)
    BY <2>2, SumIsTotal
  <2>4. Total(g, Spenders) = 0 /\ Total(gq, Spenders) = 0
    BY <2>2, EntitlementAssumption, TotalOfZeros
  <2> QED
    BY <2>1, <2>3, <2>4
<1>4. AllHeld \in Nat
  <2> DEFINE f == [c \in Spenders |-> Held(c)]
  <2>1. f \in [Spenders -> Nat] /\ AllHeld = SumFunction(f)
    BY HeldIsNat DEF AccountInv, AllHeld
  <2> QED
    BY <2>1, SumIsNat
<1>5. EntitlementTypeOK'
  BY <1>i, <1>4 DEF AccountInv, EntitlementTypeOK, SpenderType, SpenderSteps
<1>6. Sound'
  BY <1>1 DEF AccountInv, Sound
<1>7. ASSUME ~overlap' PROVE Undisturbed' /\ Accounted' /\ (AllQuota <= usage.used)'
  <2>1. Undisturbed'
    BY <1>1 DEF Undisturbed
  <2>2. /\ usage.used + (Credit - credits) = spent + AllHeld /\ usage.used <= Limit
        /\ usage.used \in Nat /\ credits \in Nat /\ spent \in Nat
    BY <1>7 DEF AccountInv, Accounted, EntitlementTypeOK
  <2> QED
    BY <1>3, <1>4, <2>1, <2>2, EntitlementAssumption DEF Accounted
<1> QED
  BY <1>5, <1>6, <1>7 DEF AccountInv

\* At the start nothing is used, held or spent.
LEMMA AccountsBegin == EntitlementInit => AccountInv
<1> SUFFICES ASSUME EntitlementInit PROVE AccountInv
  OBVIOUS
<1>i. Idle \in SpenderType /\ Idle.pc = "idle"
  BY EntitlementAssumption DEF Idle, SpenderType, SpenderSteps
<1>1. \A c \in Spenders : s[c].pc = "idle"
  BY <1>i DEF EntitlementInit
<1>2. \A c \in Spenders : Held(c) = 0 /\ HeldQuota(c) = 0
  BY <1>1 DEF Held, HeldQuota, Granted
<1>3. AllHeld = 0 /\ AllQuota = 0
  <2> DEFINE f == [c \in Spenders |-> Held(c)]
             fq == [c \in Spenders |-> HeldQuota(c)]
  <2>1. AllHeld = SumFunction(f) /\ AllQuota = SumFunction(fq)
    BY DEF AllHeld, AllQuota
  <2>2. DOMAIN f = Spenders /\ DOMAIN fq = Spenders
        /\ \A c \in Spenders : f[c] = 0 /\ fq[c] = 0
    BY <1>2
  <2> HIDE DEF f, fq
  <2>3. SumFunction(f) = Total(f, Spenders) /\ SumFunction(fq) = Total(fq, Spenders)
    BY <2>2, SumIsTotal
  <2>4. Total(f, Spenders) = 0 /\ Total(fq, Spenders) = 0
    BY <2>2, EntitlementAssumption, TotalOfZeros
  <2> QED
    BY <2>1, <2>3, <2>4
<1>4. EntitlementTypeOK
  BY <1>i, EntitlementAssumption DEF EntitlementInit, EntitlementTypeOK, SpenderType, SpenderSteps
<1>5. Sound /\ Undisturbed
  BY <1>1 DEF EntitlementInit, Sound, Undisturbed
<1>6. Accounted /\ AllQuota <= usage.used
  BY <1>3, EntitlementAssumption DEF EntitlementInit, Accounted
<1> QED
  BY <1>4, <1>5, <1>6 DEF AccountInv

\* The customer's units add up whoever spends them (reserve and release of
\* entitlement.py), but for spenders that overlap on a counter.
THEOREM UnitsAccounted == EntitlementSpec => []Accounted
<1>1. ASSUME AccountInv,
             [\E c \in Spenders : Reserving(c) \/ Use(c) \/ Release(c) \/ Returning(c)]_ledger
      PROVE  AccountInv'
  BY <1>1, ReservingKeeps, ReturningKeeps, UntouchedKeeps
<1>2. AccountInv => Accounted
  BY DEF AccountInv, Accounted
<1> QED
  BY <1>1, <1>2, AccountsBegin, PTL DEF EntitlementSpec

\* They do when old posts are copied with them (got_count and the jobs of history.py):
\* a job keeps what it reserved, and one that is cancelled, fails or is killed gives
\* nothing back, so that the units of what it did not send stay counted as used.
THEOREM HistoryAccounted == HistorySpec => []Accounted
<1>1. ASSUME AccountInv, [HistoryNext]_history PROVE AccountInv'
  <2>1. ASSUME NEW c \in Spenders, Reserving(c) PROVE AccountInv'
    BY <1>1, <2>1, ReservingKeeps
  <2>2. ASSUME NEW c \in Spenders, Start(c) PROVE AccountInv'
    <3>1. Use(c) \/ Release(c)
      BY <2>2 DEF Start
    <3> QED
      BY <1>1, <3>1, ReturningKeeps
  <2>3. ASSUME NEW c \in Spenders, Returning(c) PROVE AccountInv'
    BY <1>1, <2>3, ReturningKeeps
  <2>4. CASE JobStep \/ Cancel
    <3>1. UNCHANGED ledger
      BY <2>4 DEF JobStep, Collect, CollectFails, CopyGroup, Finish, Cancel
    <3> QED
      BY <1>1, <3>1, UntouchedKeeps
  <2>5. CASE Kill
    BY <1>1, <2>5, KillKeeps DEF Kill
  <2>6. CASE UNCHANGED history
    BY <1>1, <2>6, UntouchedKeeps DEF history
  <2> QED
    BY <1>1, <2>1, <2>2, <2>3, <2>4, <2>5, <2>6 DEF HistoryNext
<1>2. AccountInv => Accounted
  BY DEF AccountInv, Accounted
<1>3. HistoryInit => AccountInv
  BY AccountsBegin DEF HistoryInit
<1> QED
  BY <1>1, <1>2, <1>3, PTL DEF HistorySpec
=============================================================================
