----------------------------- MODULE TaskTable -----------------------------
(***************************************************************************)
(* A copying task between its row and its snapshot (services/cache.py).    *)
(* Handlers of the bot and of the mini app switch the task, change one of  *)
(* its settings, delete it and make the next one; whoever copies asks      *)
(* get_task, which keeps a snapshot until a handler invalidates it.        *)
(*                                                                         *)
(* SQLite gives the id of the last row deleted to the next one inserted:   *)
(* one id is modelled, and made tells the tasks that bear it apart.        *)
(***************************************************************************)
EXTENDS Integers, FiniteSets

CONSTANTS
    Editors,   \* coroutines of handlers that change the task
    Readers,   \* coroutines that call cache.get_task
    Flags,     \* settings with two values
    NoSnapshot,\* no snapshot is kept
    MaxMade    \* bound: tasks that bear the id, one after the other

ASSUME MadeAssumption == MaxMade \in Nat \ {0}

VARIABLES
    row,       \* tasks: exists, enabled, settings (the flags that are set)
    cache,     \* cache._tasks
    edit,      \* where each editor stands, and the settings it read
    fill,      \* where each reader stands in get_task, and what it read
    unsaid,    \* ghost: a change was made, or overtook a fill, without invalidation
    meant,     \* ghost: the flags as the last change of each meant them
    mixed      \* ghost: flags that two editors changed at the same time

table == <<row, cache, edit, fill, unsaid, meant, mixed>>

Row(on, cfg, made) == [exists |-> TRUE, on |-> on, cfg |-> cfg, made |-> made]
Snapshots == [exists : {TRUE}, on : BOOLEAN, cfg : SUBSET Flags, made : 1 .. MaxMade]
Ready == [pc |-> "idle", cfg |-> {}, flag |-> "none", met |-> FALSE]
Asking == [pc |-> "idle", copy |-> NoSnapshot, late |-> FALSE]

TableInit ==
    /\ row = Row(TRUE, {}, 1)
    /\ cache = NoSnapshot
    /\ edit = [e \in Editors |-> Ready]
    /\ fill = [r \in Readers |-> Asking]
    /\ unsaid = FALSE /\ meant = {} /\ mixed = {}

-----------------------------------------------------------------------------
Editing(e, step) == edit[e].pc = step
Toggled(f, S) == IF f \in S THEN S \ {f} ELSE S \cup {f}

\* e commits a change of the row, and goes on to invalidate the snapshot or not.
\* The fills and the other editors at work have read the row as it was.
Write(e, new, step) ==
    /\ row' = new
    /\ edit' = [d \in Editors |->
                  IF d = e THEN [Ready EXCEPT !.pc = step]
                  ELSE [edit[d] EXCEPT !.met = @ \/ (edit[d].pc = "save"
                                                       /\ [new EXCEPT !.on = row.on] # row)]]
    /\ fill' = [r \in Readers |-> [fill[r] EXCEPT !.late = @ \/ fill[r].pc = "store"]]

\* A handler that leaves the snapshot as it is.
Silently == unsaid' = (unsaid \/ cache # NoSnapshot)

\* After its commit a handler drops the snapshot, or leaves it.
Unsaid == "idle"
Said == "invalidate"

\* cb_toggle
SwitchInBot(e) ==
    /\ Editing(e, "idle") /\ row.exists
    /\ Write(e, [row EXCEPT !.on = ~@], Said)
    /\ UNCHANGED <<cache, unsaid, meant, mixed>>

\* The mini app's toggle, the panel's and the watchdog's: no invalidation.
SwitchInApp(e) ==
    /\ Editing(e, "idle") /\ row.exists
    /\ Write(e, [row EXCEPT !.on = ~@], Unsaid) /\ Silently
    /\ UNCHANGED <<cache, meant, mixed>>

\* cb_flag, got_value or the app's task_settings: all settings are read ...
FromSnapshot == IF cache = NoSnapshot THEN row.cfg ELSE cache.cfg
Current == row.cfg
ReadSettings(e, f) ==
    /\ Editing(e, "idle") /\ row.exists
    /\ edit' = [edit EXCEPT ![e] = [pc |-> "save", cfg |-> Current, flag |-> f, met |-> FALSE]]
    /\ UNCHANGED <<row, cache, fill, unsaid, meant, mixed>>

\* ... and written back with one of them changed, to the row there is by then.
SaveSettings(e) ==
    LET f == edit[e].flag
        new == Toggled(f, edit[e].cfg)
    IN  /\ Editing(e, "save")
        /\ IF row.exists
           THEN /\ Write(e, [row EXCEPT !.cfg = new], "invalidate")
                /\ meant' = IF f \in new THEN meant \cup {f} ELSE meant \ {f}
                /\ mixed' = IF edit[e].met THEN Flags \ {f} ELSE mixed \ {f}
           ELSE /\ edit' = [edit EXCEPT ![e] = Ready]
                /\ UNCHANGED <<row, fill, meant, mixed>>
        /\ UNCHANGED <<cache, unsaid>>

Invalidate(e) ==
    /\ Editing(e, "invalidate")
    /\ cache' = NoSnapshot
    /\ unsaid' = FALSE
    /\ edit' = [edit EXCEPT ![e] = Ready]
    /\ UNCHANGED <<row, fill, meant, mixed>>

\* delete_task_confirmed; the app's task_delete does not invalidate.
DeleteInBot(e) ==
    /\ Editing(e, "idle") /\ row.exists
    /\ Write(e, [row EXCEPT !.exists = FALSE], Said)
    /\ UNCHANGED <<cache, unsaid, meant, mixed>>

DeleteInApp(e) ==
    /\ Editing(e, "idle") /\ row.exists
    /\ Write(e, [row EXCEPT !.exists = FALSE], Unsaid) /\ Silently
    /\ UNCHANGED <<cache, meant, mixed>>

\* got_title or the app's task_create: nothing is said of the id's old snapshot.
Create(e) ==
    /\ Editing(e, "idle") /\ ~row.exists /\ row.made < MaxMade
    /\ Write(e, Row(TRUE, {}, row.made + 1), Unsaid) /\ Silently
    /\ meant' = {} /\ mixed' = {}
    /\ UNCHANGED cache

-----------------------------------------------------------------------------
(* cache.get_task                                                          *)

\* There is no snapshot: the row is read, if there is one.
Miss(r) ==
    /\ fill[r].pc = "idle" /\ cache = NoSnapshot
    /\ fill' = [fill EXCEPT ![r] = IF row.exists
                                   THEN [pc |-> "store", copy |-> row, late |-> FALSE]
                                   ELSE Asking]
    /\ UNCHANGED <<row, cache, edit, unsaid, meant, mixed>>

\* Its rules and destinations were read too: the snapshot is kept, whatever
\* was committed or invalidated meanwhile.
Store(r) ==
    /\ fill[r].pc = "store"
    /\ cache' = fill[r].copy
    /\ unsaid' = fill[r].late
    /\ fill' = [fill EXCEPT ![r] = Asking]
    /\ UNCHANGED <<row, edit, meant, mixed>>

EditNext(e) ==
    \/ SwitchInBot(e) \/ SwitchInApp(e) \/ Invalidate(e)
    \/ DeleteInBot(e) \/ DeleteInApp(e) \/ Create(e)
SettingsNext(e) == SaveSettings(e) \/ \E f \in Flags : ReadSettings(e, f)
AskNext(r) == Miss(r) \/ Store(r)

TableNext ==
    \/ \E e \in Editors : EditNext(e) \/ SettingsNext(e)
    \/ \E r \in Readers : AskNext(r)

TableSpec == TableInit /\ [][TableNext]_table

-----------------------------------------------------------------------------
TableTypeOK ==
    /\ row \in [exists : BOOLEAN, on : BOOLEAN, cfg : SUBSET Flags, made : 1 .. MaxMade]
    /\ cache \in Snapshots \cup {NoSnapshot}
    /\ edit \in [Editors -> [pc : {"idle", "save", "invalidate"}, cfg : SUBSET Flags,
                             flag : Flags \cup {"none"}, met : BOOLEAN]]
    /\ fill \in [Readers -> [pc : {"idle", "store"}, copy : Snapshots \cup {NoSnapshot},
                             late : BOOLEAN]]
    /\ unsaid \in BOOLEAN
    /\ meant \subseteq Flags /\ mixed \subseteq Flags

\* The snapshot is the row of the task that bears the id now, but for a change
\* whose handler is about to invalidate it, one that never does (the app's
\* switch and deletion) and one that came while get_task was reading.
SnapshotFollows ==
    cache = NoSnapshot \/ cache = row \/ unsaid \/ \E e \in Editors : Editing(e, "invalidate")

\* A setting is as its last change meant it, although every change writes all
\* of them: only editors that overlap undo each other's.
SettingsKept ==
    row.exists => \A f \in Flags \ mixed : f \in row.cfg <=> f \in meant
=============================================================================
