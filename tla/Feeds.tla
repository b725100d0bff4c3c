------------------------------- MODULE Feeds -------------------------------
(***************************************************************************)
(* A task that copies an RSS feed (services/feedworker.py): every few      *)
(* minutes its worker reads the feed, marks everything as seen the first   *)
(* time, and from then on publishes the newest items it has not seen.      *)
(* The task lives in TaskTable: its owner may switch or delete it and make *)
(* another one at any moment, and the worker goes by get_task's snapshot.  *)
(*                                                                         *)
(* Items are numbered as the site publishes them; the feed shows the last  *)
(* Window. A task has channels of its own, so posted is kept for each task. *)
(***************************************************************************)
EXTENDS TaskTable, FiniteSetsExt

CONSTANTS
    Owner,     \* the editor who changes the feed's task
    Worker,    \* the reader that feedworker is
    Channels,  \* the task's destinations
    Refused,   \* items that the task's filters refuse
    Window,    \* feeds.MAX_ITEMS: how many items a feed shows
    PerCheck,  \* MAX_PER_CHECK
    MaxItem,   \* bound: items the site publishes
    MaxTrouble \* bound: failures, lost answers and crashes

ASSUME FeedAssumption ==
    /\ Owner \in Editors /\ Worker \in Readers
    /\ {Window, PerCheck, MaxItem} \subseteq Nat \ {0} /\ MaxTrouble \in Nat
    /\ Refused \subseteq 1 .. MaxItem

VARIABLES
    top,       \* the newest item of the site
    before,    \* ghost: the newest item when each task was created
    seen,      \* message_map: the items with a row under the task's id
    posted,    \* how often each item stands in each channel of each task
    w,         \* the worker: step, snapshot, items read, items and channels left
    unrec,     \* ghost: how often each item arrived there, and its row was never written
    crossed,   \* ghost: tasks whose rows were deleted or written under a check of another's
    trouble

feedVars == <<top, before, seen, posted, w, unrec, crossed, trouble>>
Items == 1 .. MaxItem
InFeed == {i \in Items : i <= top /\ i > top - Window}
Sleeping == [pc |-> "sleep", snap |-> NoSnapshot, items |-> {}, left |-> {}, to |-> {},
             chan |-> "none", made |-> 0]

FeedInit ==
    /\ TableInit
    /\ top \in 1 .. MaxItem
    /\ before = [m \in 1 .. MaxMade |-> top]
    /\ seen = {} /\ w = Sleeping
    /\ posted = [m \in 1 .. MaxMade |-> [i \in Items |-> [d \in Channels |-> 0]]]
    /\ unrec = posted /\ crossed = {} /\ trouble = 0

-----------------------------------------------------------------------------
At(step) == w.pc = step
Goto(step) == w' = [w EXCEPT !.pc = step]
Troubled == trouble < MaxTrouble /\ trouble' = trouble + 1

\* The item being published: a check goes from the oldest to the newest.
Item == Min(w.left)

\* _due_tasks
Wake ==
    /\ At("sleep") /\ row.exists /\ row.on
    /\ Goto("ask")
    /\ UNCHANGED <<table, top, before, seen, posted, unrec, crossed, trouble>>

\* The snapshot the worker goes by: a task it shows switched off is passed over.
TakeTask(snap) ==
    w' = IF snap.on THEN [w EXCEPT !.pc = "fetch", !.snap = snap] ELSE Sleeping

AskKept ==
    /\ At("ask") /\ fill[Worker].pc = "idle" /\ cache # NoSnapshot
    /\ TakeTask(cache)
    /\ UNCHANGED <<table, top, before, seen, posted, unrec, crossed, trouble>>

AskRow ==
    /\ At("ask") /\ Miss(Worker)
    /\ w' = IF row.exists THEN w ELSE Sleeping
    /\ UNCHANGED <<top, before, seen, posted, unrec, crossed, trouble>>

AskStored ==
    /\ At("ask") /\ Store(Worker)
    /\ TakeTask(fill[Worker].copy)
    /\ UNCHANGED <<top, before, seen, posted, unrec, crossed, trouble>>

\* check_task: the feed is read, or the check ends with an exception that run_once logs.
Fetch ==
    /\ At("fetch")
    /\ w' = [w EXCEPT !.pc = "first", !.items = InFeed, !.made = row.made]
    /\ UNCHANGED <<table, top, before, seen, posted, unrec, crossed, trouble>>

CheckFails ==
    /\ w.pc \in {"fetch", "first", "mark", "keys", "next"} /\ Troubled
    /\ w' = Sleeping
    /\ UNCHANGED <<table, top, before, seen, posted, unrec, crossed>>

\* _first_run
FirstRun ==
    /\ At("first")
    /\ Goto(IF seen = {} THEN "mark" ELSE "keys")
    /\ UNCHANGED <<table, top, before, seen, posted, unrec, crossed, trouble>>

\* Rows are written for the task's id: for another task if it was replaced,
\* and the foreign key refuses them if it was deleted.
Record(S) ==
    /\ seen' = IF row.exists THEN seen \cup S ELSE seen
    /\ crossed' = IF row.exists /\ row.made # w.made 
                THEN crossed \cup {row.made, w.snap.made} ELSE crossed

\* The items of a first reading that are marked: all of them.
NewestOnly(S) == {i \in S : Cardinality({j \in S : j > i}) < PerCheck}
Marked(S) == S

\* _mark_all_seen: one commit.
MarkAll ==
    /\ At("mark")
    /\ Record(Marked(w.items))
    /\ w' = Sleeping
    /\ UNCHANGED <<table, top, before, posted, unrec, trouble>>

\* seen_keys, and the newest items among the fresh ones
Fresh(S) == NewestOnly(S \ seen)
SeenKeys ==
    /\ At("keys")
    /\ w' = [w EXCEPT !.pc = "next", !.left = Fresh(w.items)]
    /\ UNCHANGED <<table, top, before, seen, posted, unrec, crossed, trouble>>

CheckEnds ==
    /\ At("next") /\ w.left = {}
    /\ w' = Sleeping
    /\ UNCHANGED <<table, top, before, seen, posted, unrec, crossed, trouble>>

\* publish: refused by a filter, or there is no plan or no account.
PassOver ==
    /\ At("next") /\ w.left # {}
    /\ IF Item \in Refused THEN trouble' = trouble ELSE Troubled
    /\ w' = [w EXCEPT !.left = @ \ {Item}]
    /\ UNCHANGED <<table, top, before, seen, posted, unrec, crossed>>

\* An item is not marked before it was sent somewhere ...
MarkedFirst == Record({Item})
Unmarked == UNCHANGED <<seen, crossed>>
PublishItem ==
    /\ At("next") /\ w.left # {} /\ Item \notin Refused
    /\ w' = [w EXCEPT !.pc = "send", !.to = Channels]
    /\ Unmarked
    /\ UNCHANGED <<table, top, before, posted, unrec, trouble>>

SendItem(d) ==
    /\ At("send") /\ d \in w.to
    /\ posted' = [posted EXCEPT ![w.snap.made][Item][d] = @ + 1]
    /\ w' = [w EXCEPT !.pc = "remember", !.to = @ \ {d}, !.chan = d]
    /\ UNCHANGED <<table, top, before, seen, unrec, crossed, trouble>>

\* A passing failure leaves the channel out, a fatal one ends the check.
SendFails(d) ==
    /\ At("send") /\ d \in w.to /\ Troubled
    /\ \/ w' = [w EXCEPT !.to = @ \ {d}]
       \/ w' = Sleeping
    /\ UNCHANGED <<table, top, before, seen, posted, unrec, crossed>>

\* The message arrived and its answer did not: the same except takes it for a failure.
AnswerLost(d) ==
    /\ At("send") /\ d \in w.to /\ Troubled
    /\ posted' = [posted EXCEPT ![w.snap.made][Item][d] = @ + 1]
    /\ unrec' = [unrec EXCEPT ![w.snap.made][Item][d] = @ + 1]
    /\ w' = [w EXCEPT !.to = @ \ {d}]
    /\ UNCHANGED <<table, top, before, seen, crossed>>

SentOnce == {Item}
Remember ==
    /\ At("remember")
    /\ Record(SentOnce)
    /\ w' = IF row.exists THEN [w EXCEPT !.pc = "send"] ELSE Sleeping
    /\ UNCHANGED <<table, top, before, posted, unrec, trouble>>

\* The row of a sent item cannot be written: the check ends with the exception.
LostRow == [unrec EXCEPT ![w.snap.made][Item][w.chan] = @ + 1]
RememberFails ==
    /\ At("remember") /\ Troubled
    /\ unrec' = LostRow
    /\ w' = Sleeping
    /\ UNCHANGED <<table, top, before, seen, posted, crossed>>

NextItem ==
    /\ At("send") /\ w.to = {}
    /\ w' = [w EXCEPT !.pc = "next", !.left = @ \ {Item}]
    /\ UNCHANGED <<table, top, before, seen, posted, unrec, crossed, trouble>>

FeedWork ==
    \/ Wake \/ AskKept \/ AskRow \/ AskStored \/ Fetch \/ CheckFails \/ FirstRun \/ MarkAll
    \/ SeenKeys \/ CheckEnds \/ PassOver \/ PublishItem \/ Remember \/ RememberFails \/ NextItem
    \/ \E d \in Channels : SendItem(d) \/ SendFails(d) \/ AnswerLost(d)

-----------------------------------------------------------------------------
(* What goes on around it                                                  *)

NewItem ==
    /\ top < MaxItem
    /\ top' = top + 1
    /\ UNCHANGED <<table, before, seen, posted, w, unrec, crossed, trouble>>

\* Deleting the task deletes its rows; a new one begins with what the site shows.
OwnerEdits ==
    /\ EditNext(Owner)
    /\ seen' = IF row'.exists THEN seen ELSE {}
    /\ before' = IF row'.made > row.made THEN [before EXCEPT ![row'.made] = top] ELSE before
    /\ crossed' = IF row.exists /\ ~row'.exists /\ At("keys") THEN crossed \cup {w.snap.made}
                                                             ELSE crossed
    /\ UNCHANGED <<top, posted, w, unrec, trouble>>

Crash ==
    /\ Troubled
    /\ cache' = NoSnapshot /\ unsaid' = FALSE
    /\ edit' = [e \in Editors |-> Ready] /\ fill' = [r \in Readers |-> Asking]
    /\ w' = Sleeping
    /\ unrec' = IF At("remember") THEN LostRow ELSE unrec
    /\ UNCHANGED <<row, meant, mixed, top, before, seen, posted, crossed>>

FeedNext == FeedWork \/ NewItem \/ OwnerEdits \/ Crash
FeedSpec ==
    /\ FeedInit /\ [][FeedNext]_<<table, feedVars>>
    /\ WF_<<table, feedVars>>(FeedWork)

-----------------------------------------------------------------------------
FeedTypeOK ==
    /\ TableTypeOK
    /\ top \in Items /\ before \in [1 .. MaxMade -> Items] /\ seen \subseteq Items
    /\ w.pc \in {"sleep", "ask", "fetch", "first", "mark", "keys", "next", "send", "remember"}
    /\ w.items \subseteq Items /\ w.left \subseteq w.items /\ w.to \subseteq Channels
    /\ w.pc \in {"send", "remember"} => w.left # {} /\ w.snap # NoSnapshot
    /\ trouble \in 0 .. MaxTrouble

\* A channel never shows an item that the site already showed when its task was made,
\* and any other item once, and once more each time it arrived there without its row being
\* written (the answer was lost, the row failed, or the process died between the two);
\* except when a check of a deleted task writes its rows under the id of the next one.
FeedOnce ==
    \A m \in (1 .. MaxMade) \ crossed, i \in Items, d \in Channels :
        posted[m][i][d] <= IF i <= before[m] THEN 0 ELSE 1 + unrec[m][i][d]

\* An item that came after the first reading is published in the task's channels,
\* unless the task is stopped first, the feed drops the item, a snapshot that nobody
\* invalidated stands in for the task, or as many newer items as a check takes are all
\* refused: they stay unseen, and every check takes them again.  (The first item was
\* always there.)
Offered(i) == row.exists /\ row.on /\ i \in InFeed
Stale(snap) == snap # NoSnapshot /\ (~snap.on \/ snap.made # row.made)
Crowded(i) == Cardinality({j \in (Refused \cap InFeed) \ seen : j > i}) >= PerCheck
NewItemGoesOut ==
    \A i \in (2 .. MaxItem) \ Refused :
        Offered(i) /\ seen # {} /\ i \notin seen
            ~> \/ \E d \in Channels : posted[row.made][i][d] > 0
               \/ ~Offered(i) \/ Stale(cache) \/ Stale(w.snap) \/ Crowded(i)
=============================================================================
