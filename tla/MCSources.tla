----------------------------- MODULE MCSources -----------------------------
(* An instance for TLC of components that share no state: TaskTable, Feeds   *)
(* (on top of it), History, GapQueue, SourceQueue and EditSync.  part says   *)
(* which of them a behaviour is about, so that their state spaces add up and *)
(* do not multiply.                                                          *)
EXTENDS Feeds, History, MCGapQueue, SourceQueue, EditSync

VARIABLE part

gap == vars
sources == <<table, feedVars, history, gap, queueVars, syncVars, part>>

\* The clock of a feed, the hours of a gap and the mode of a task start at one
\* point where they are not what a behaviour is about.
SourcesInit ==
    /\ FeedInit /\ HistoryInit /\ Init /\ QueueInit /\ SyncInit
    /\ part \in {"table", "feeds", "history", "gap", "queue", "edits"}
    /\ part # "feeds" => top = 1
    /\ part # "gap" => opens = Night
    /\ part # "edits" => simple

SourcesNext ==
    \/ part = "table" /\ TableNext /\ UNCHANGED <<feedVars, history, gap, queueVars, syncVars, part>>
    \/ part = "feeds" /\ FeedNext /\ UNCHANGED <<history, gap, queueVars, syncVars, part>>
    \/ part = "history" /\ HistoryNext /\ UNCHANGED <<table, feedVars, gap, queueVars, syncVars, part>>
    \/ part = "gap" /\ Next /\ UNCHANGED <<table, feedVars, history, queueVars, syncVars, part>>
    \/ part = "queue" /\ QueueNext /\ UNCHANGED <<table, feedVars, history, gap, syncVars, part>>
    \/ part = "edits" /\ SyncNext /\ UNCHANGED <<table, feedVars, history, gap, queueVars, part>>

\* What goes on by itself: the worker of the feeds, what serves the queue, or the poller
\* and the handlers of edits.
SourcesWork ==
    \/ part = "feeds" /\ FeedWork /\ UNCHANGED <<history, gap, queueVars, syncVars, part>>
    \/ part = "queue" /\ QueueStep /\ UNCHANGED <<table, feedVars, history, gap, syncVars, part>>
    \/ part = "edits" /\ SyncWork /\ UNCHANGED <<table, feedVars, history, gap, queueVars, part>>

SourcesSpec == SourcesInit /\ [][SourcesNext]_sources /\ WF_sources(SourcesWork)

\* NewItemGoesOut, where the worker of the feeds is at work.
NewItemServed == part = "feeds" => NewItemGoesOut

\* The six type invariants.
SourcesTypeOK == TableTypeOK /\ FeedTypeOK /\ HistoryTypeOK /\ TypeOK /\ QueueTypeOK /\ SyncTypeOK
=============================================================================
