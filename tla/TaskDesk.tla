------------------------------ MODULE TaskDesk ------------------------------
(* How one customer makes and changes tasks: the dialogues of the bot        *)
(* (handlers/tasks.py, simple_task.py, destinations.py, chatpicker.py) beside *)
(* the handlers of the mini app (web/miniapp.py).  Every message and request  *)
(* has a coroutine of its own, also two of one customer; what a dialogue has  *)
(* learnt is kept in one dictionary per chat, and the checks of a handler lie *)
(* awaits before what it writes.                                             *)
EXTENDS Naturals, Sequences, FiniteSets

CONSTANTS
    Handlers,   \* coroutines of messages and requests; also their number at a time
    Sources,    \* references of source channels
    FeedUrls,   \* addresses of feeds
    Places,     \* references of destinations
    Offered,     \* those of both that the list of the account's channels offers
    ChatOf,     \* the channel a reference resolves to; two may be of one channel
    Null,
    TaskLimit,  \* plan.max_tasks
    ExtraLimit, \* the destinations of a task beyond its first
    FirstSource, FirstPlace, \* bound: of the task a customer may start with
    MaxMessages, \* bound: messages and requests of the customer
    Behind       \* bound: those behind a customer who starts with a task

\* Ids of channels are numbers and references are texts; a customer who starts with a
\* task copies from one channel into another.
ASSUME DeskAssumption ==
    /\ IsFiniteSet(Handlers) /\ Handlers # {}
    /\ TaskLimit \in Nat /\ ExtraLimit \in Nat
    /\ Null \notin Sources \cup FeedUrls \cup Places \cup {"rss"}
    /\ Sources \cap FeedUrls = {}
    /\ FirstSource \in Sources /\ FirstPlace \in Places

VARIABLES
    tasks,      \* rows of tasks by id, with their rows of destinations
    dialog,     \* the FSM state of the chat, and its data
    hand,       \* what every coroutine is doing
    births,     \* ghost: rows made so far, which tells a reused id
    messages    \* bound: messages and requests so far

desk == <<tasks, dialog, hand, births, messages>>

Refs == Sources \cup FeedUrls

\* No state and no data: state.clear().  mixed and asked are ghosts: an answer of the
\* dialogue replaced another, of itself or of an earlier dialogue; the tasks were
\* counted when it opened.
NoDialog == [at |-> "none", task |-> 0, kind |-> Null, src |-> Null, srcId |-> Null,
             dest |-> Null, destId |-> Null, mixed |-> FALSE, asked |-> FALSE]

Rest == [op |-> "rest"]

\* A row of tasks.  clean, asked, torn and born are ghosts: it was made from answers of
\* one dialogue and changed only by handlers that knew it; the tasks were counted before;
\* a destination was added to it while its destinations were changing or not resolved;
\* its number.
TaskRow(kind, mode, src, srcId, dest, destId, clean, asked) ==
    [kind |-> kind, mode |-> mode, src |-> src, srcId |-> srcId, dest |-> dest,
     destId |-> destId, extras |-> <<>>, clean |-> clean, asked |-> asked, torn |-> FALSE,
     born |-> births + 1]

KindOf(ref) == IF ref \in FeedUrls THEN "rss" ELSE "telegram"

\* SQLite's next id: that of a deleted last row is given again.
NewId == 1 + Cardinality(UNION {1 .. t : t \in DOMAIN tasks})

\* A customer starts without a task, or with one that works and some of the
\* messages behind him.
DeskInit ==
    /\ births = 1
    /\ dialog = NoDialog
    /\ hand = [h \in Handlers |-> Rest]
    /\ \/ tasks = <<>> /\ messages = 0
       \/ /\ tasks = <<[TaskRow("telegram", "full", FirstSource, ChatOf[FirstSource],
                               FirstPlace, ChatOf[FirstPlace], TRUE, TRUE) EXCEPT !.born = 1]>>
          /\ messages = Behind

Begin(h, does) ==
    /\ hand[h] = Rest
    /\ messages < MaxMessages
    /\ messages' = messages + 1
    /\ hand' = [hand EXCEPT ![h] = does]

Then(h, does) == hand' = [hand EXCEPT ![h] = does] /\ UNCHANGED messages

----------------------------------------------------------------------------
\* /newtask and the button of the simple mode, for a customer with a plan (without
\* one he is told so and nothing follows); the tasks are counted in a later session.
NewTask(h) ==
    /\ \E way \in {"source", "simple_source"} : Begin(h, [op |-> "open", way |-> way])
    /\ UNCHANGED <<tasks, dialog, births>>

\* There is room for one more task, as far as the rows say that are there.
TaskRoom == Cardinality(DOMAIN tasks) < TaskLimit

\* The state is set, and what an earlier dialogue has left in the data stays.
OpenTask(h) ==
    /\ hand[h].op = "open"
    /\ dialog' = IF TaskRoom
                 THEN [dialog EXCEPT !.at = hand[h].way, !.asked = TRUE,
                                     !.mixed = @ \/ dialog.src # Null \/ dialog.kind # Null]
                 ELSE dialog
    /\ Then(h, Rest)
    /\ UNCHANGED <<tasks, births>>

\* A message arrives; which handler takes it is decided by the state at that time.
Reply(h) ==
    /\ \/ /\ dialog.at = "source"
          /\ \E ref \in Refs : Begin(h, [op |-> "source", ref |-> ref])
       \/ /\ dialog.at = "simple_source"
          /\ \E ref \in Sources : Begin(h, [op |-> "simple_source", ref |-> ref])
       \/ /\ dialog.at \in {"dest", "simple_dest", "dest_add"}
          /\ \E ref \in Places : Begin(h, [op |-> dialog.at, ref |-> ref])
       \/ /\ dialog.at \in {"title", "simple_title"}
          /\ Begin(h, [op |-> dialog.at])
    /\ UNCHANGED <<tasks, dialog, births>>

\* A button of the list of channels, which no state guards: one of an older
\* dialogue works as well.
Picked(h) ==
    /\ \/ \E ref \in Sources \cap Offered : Begin(h, [op |-> "source", ref |-> ref])
       \/ \E ref \in Places \cap Offered : Begin(h, [op |-> "dest", ref |-> ref])
    /\ UNCHANGED <<tasks, dialog, births>>

Overwrites == dialog.mixed \/ dialog.src # Null \/ dialog.kind # Null

\* accept_source: the channel was found, or it was not and nothing changes.
AcceptSource(h) ==
    /\ hand[h].op = "source"
    /\ hand[h].ref \in Sources
    /\ \/ dialog' = [dialog EXCEPT !.src = hand[h].ref, !.at = "dest", !.mixed = Overwrites]
       \/ UNCHANGED dialog
    /\ Then(h, Rest)
    /\ UNCHANGED <<tasks, births>>

\* accept_feed_source: the feed was read, or it was not and nothing changes.
AcceptFeed(h) ==
    /\ hand[h].op = "source"
    /\ hand[h].ref \in FeedUrls
    /\ \/ dialog' = [dialog EXCEPT !.src = hand[h].ref, !.kind = "rss", !.at = "dest",
                                   !.mixed = Overwrites]
       \/ UNCHANGED dialog
    /\ Then(h, Rest)
    /\ UNCHANGED <<tasks, births>>

\* accept_dest.
AcceptDest(h) ==
    /\ hand[h].op = "dest"
    /\ \/ dialog' = [dialog EXCEPT !.dest = hand[h].ref, !.at = "title",
                                   !.mixed = @ \/ dialog.dest # Null]
       \/ UNCHANGED dialog
    /\ Then(h, Rest)
    /\ UNCHANGED <<tasks, births>>

\* The simple mode's own got_source: the pool has no account and the dialogue
\* ends, or the channel is not found, or its id is noted with its name.
SimpleSource(h) ==
    /\ hand[h].op = "simple_source"
    /\ \/ dialog' = NoDialog
       \/ UNCHANGED dialog
       \/ dialog' = [dialog EXCEPT !.src = hand[h].ref, !.srcId = ChatOf[hand[h].ref],
                                   !.at = "simple_dest", !.mixed = Overwrites]
    /\ Then(h, Rest)
    /\ UNCHANGED <<tasks, births>>

\* Its got_dest: the bot may not post there, or it may and the id is noted.
SimpleDest(h) ==
    /\ hand[h].op = "simple_dest"
    /\ \/ UNCHANGED dialog
       \/ dialog' = [dialog EXCEPT !.dest = hand[h].ref, !.destId = ChatOf[hand[h].ref],
                                   !.at = "simple_title",
                                   !.mixed = @ \/ dialog.dest # Null]
    /\ Then(h, Rest)
    /\ UNCHANGED <<tasks, births>>

\* got_title: the data are read, the state is cleared, and what is missing from
\* the data ends the handler with a KeyError.
Title(h) ==
    /\ hand[h].op \in {"title", "simple_title"}
    /\ dialog' = NoDialog
    /\ LET simple == hand[h].op = "simple_title"
           known == {dialog.src, dialog.dest} \cup
                    (IF simple THEN {dialog.srcId, dialog.destId} ELSE {})
           row == IF simple
                  THEN TaskRow("telegram", "simple", dialog.src, dialog.srcId,
                               dialog.dest, dialog.destId, ~dialog.mixed, dialog.asked)
                  ELSE TaskRow(IF dialog.kind = Null THEN "telegram" ELSE dialog.kind, "full",
                               dialog.src, Null, dialog.dest, Null, ~dialog.mixed,
                               dialog.asked)
       IN  Then(h, IF Null \in known THEN Rest ELSE [op |-> "insert", row |-> row])
    /\ UNCHANGED <<tasks, births>>

\* /cancel and /start.
Cancel ==
    /\ dialog # NoDialog
    /\ dialog' = NoDialog
    /\ UNCHANGED <<tasks, hand, births, messages>>

\* The row is inserted.  A task of the full mode has its channels looked up next:
\* the bot the destination, the mini app (web) the source too.
InsertTask(h) ==
    /\ hand[h].op = "insert"
    /\ tasks' = [t \in DOMAIN tasks \cup {NewId} |->
                  IF t \in DOMAIN tasks THEN tasks[t] ELSE [hand[h].row EXCEPT !.born = births + 1]]
    /\ births' = births + 1
    /\ Then(h, IF hand[h].row.mode = "simple" THEN Rest
               ELSE [op |-> "resolve", task |-> NewId, dest |-> hand[h].row.dest,
                     src |-> IF "web" \in DOMAIN hand[h] /\ hand[h].row.kind = "telegram"
                             THEN hand[h].row.src ELSE Null,
                     born |-> births + 1])
    /\ UNCHANGED <<dialog>>

\* What the account could resolve is written to the row with that id.
WriteIds(h) ==
    /\ hand[h].op = "resolve"
    /\ \E dest \in {ChatOf[hand[h].dest], Null},
          src \in IF hand[h].src = Null THEN {Null} ELSE {ChatOf[hand[h].src], Null} :
           tasks' = [t \in DOMAIN tasks |->
                        IF t # hand[h].task THEN tasks[t]
                        ELSE [tasks[t] EXCEPT !.destId = IF dest = Null THEN @ ELSE dest,
                                              !.srcId = IF src = Null THEN @ ELSE src,
                                              !.clean = @ /\ tasks[t].born = hand[h].born]]
    /\ Then(h, Rest)
    /\ UNCHANGED <<dialog, births>>

\* The mini app's form for a new task: plan, count, the feed if it is one.
WebTask(h) ==
    /\ \E src \in FeedUrls \cup (Sources \cap Offered), dest \in Places \cap Offered :
           Begin(h, [op |-> "web_count",
                     row |-> TaskRow(KindOf(src), "full", src, Null, dest, Null, TRUE, TRUE)])
    /\ UNCHANGED <<tasks, dialog, births>>

WebCount(h) ==
    /\ hand[h].op = "web_count"
    /\ \/ /\ TaskRoom
          /\ Then(h, [op |-> "insert", row |-> hand[h].row, web |-> TRUE])
       \/ /\ ~TaskRoom \/ hand[h].row.kind = "rss"
          /\ Then(h, Rest)
    /\ UNCHANGED <<tasks, dialog, births>>

\* A task is deleted, with its destinations, by the bot or by the mini app.
DeleteTask ==
    /\ messages < MaxMessages
    /\ messages' = messages + 1
    /\ \E t \in DOMAIN tasks : tasks' = [u \in DOMAIN tasks \ {t} |-> tasks[u]]
    /\ UNCHANGED <<dialog, hand, births>>

\* cb_upgrade resolves the source it has read and cb_downgrade asks whether the bot
\* may post; the row is read anew to be written.
ChangeMode(h) ==
    /\ \E t \in DOMAIN tasks, mode \in {"full", "simple"} :
           /\ tasks[t].mode # mode
           /\ mode = "simple" => tasks[t].src \in Sources
           /\ Begin(h, [op |-> "mode", mode |-> mode, task |-> t, src |-> tasks[t].src,
                        born |-> tasks[t].born])
    /\ UNCHANGED <<tasks, dialog, births>>

WriteMode(h) ==
    /\ hand[h].op = "mode"
    /\ \/ UNCHANGED tasks
       \/ /\ hand[h].mode = "full" => hand[h].src \in Sources
          /\ tasks' = [t \in DOMAIN tasks |->
                 IF t # hand[h].task THEN tasks[t]
                 ELSE [tasks[t] EXCEPT !.mode = hand[h].mode,
                                       !.srcId = IF hand[h].mode = "full"
                                                 THEN ChatOf[hand[h].src] ELSE @,
                                       !.clean = @ /\ tasks[t].born = hand[h].born]]
    /\ Then(h, Rest)
    /\ UNCHANGED <<dialog, births>>

----------------------------------------------------------------------------
\* "Add a destination": the count is read, and the state is set for the answer.
AskPlace(h) ==
    /\ \E t \in DOMAIN tasks : Begin(h, [op |-> "open_dest", task |-> t])
    /\ UNCHANGED <<tasks, dialog, births>>

Extras(t) == IF t \in DOMAIN tasks THEN tasks[t].extras ELSE <<>>

OpenPlace(h) ==
    /\ hand[h].op = "open_dest"
    /\ dialog' = IF Len(Extras(hand[h].task)) < ExtraLimit
                 THEN [dialog EXCEPT !.at = "dest_add", !.task = hand[h].task] ELSE dialog
    /\ Then(h, Rest)
    /\ UNCHANGED <<tasks, births>>

\* The answer: whose task it is is read from the data of the chat, then the row.
GotPlace(h) ==
    /\ hand[h].op = "dest_add"
    /\ IF dialog.task \in DOMAIN tasks
       THEN /\ Then(h, [op |-> "place", task |-> dialog.task, ref |-> hand[h].ref,
                        main |-> tasks[dialog.task], web |-> FALSE])
            /\ UNCHANGED dialog
       ELSE Then(h, Rest) /\ dialog' = NoDialog
    /\ UNCHANGED <<tasks, births>>

\* The mini app's form for one more destination.
WebPlace(h) ==
    /\ \E t \in DOMAIN tasks, ref \in Places :
           Begin(h, [op |-> "place", task |-> t, ref |-> ref, main |-> tasks[t], web |-> TRUE])
    /\ UNCHANGED <<tasks, dialog, births>>

TakenByName(main, extras, ref, chat) ==
    \/ ref = main.dest
    \/ \E i \in DOMAIN extras : extras[i].ref = ref

\* Is the place the first destination, as it was read, or one of the others?
Taken(main, extras, ref, chat) ==
    \/ chat = main.destId \/ ref = main.dest
    \/ \E i \in DOMAIN extras : extras[i].chat = chat \/ extras[i].ref = ref

\* The others are read; the mini app counts them here, the bot has counted them
\* when it asked.  The place resolves, or it does not, and the handler ends.
CheckPlace(h) ==
    /\ hand[h].op = "place"
    /\ LET others == Extras(hand[h].task)
       IN  \/ \E chat \in {ChatOf[hand[h].ref], Null} :
                 /\ ~Taken(hand[h].main, others, hand[h].ref, chat)
                 /\ hand[h].web => Len(others) < ExtraLimit
                 /\ Then(h, [op |-> "add", task |-> hand[h].task, ref |-> hand[h].ref,
                             chat |-> chat, main |-> hand[h].main, others |-> others,
                             web |-> hand[h].web])
           \/ Then(h, Rest)
    /\ UNCHANGED <<tasks, dialog, births>>

\* The row is inserted, unless the task is gone; the bot closes the dialogue.
AddPlace(h) ==
    /\ hand[h].op = "add"
    /\ tasks' = [t \in DOMAIN tasks |->
           IF t # hand[h].task THEN tasks[t]
           ELSE [tasks[t] EXCEPT
                    !.extras = Append(@, [ref |-> hand[h].ref, chat |-> hand[h].chat]),
                    !.torn = @ \/ Null \in {hand[h].chat, hand[h].main.destId}
                               \/ tasks[t].extras # hand[h].others
                               \/ tasks[t].born # hand[h].main.born]]
    /\ dialog' = IF hand[h].web \/ hand[h].task \notin DOMAIN tasks THEN dialog ELSE NoDialog
    /\ Then(h, Rest)
    /\ UNCHANGED <<births>>

\* One of the others is removed.
DropPlace ==
    /\ messages < MaxMessages
    /\ messages' = messages + 1
    /\ \E t \in DOMAIN tasks :
           \E i \in DOMAIN tasks[t].extras :
               tasks' = [tasks EXCEPT ![t].extras =
                            SubSeq(@, 1, i - 1) \o SubSeq(@, i + 1, Len(@))]
    /\ UNCHANGED <<dialog, hand, births>>

DeskNext ==
    \/ \E h \in Handlers :
          \/ NewTask(h) \/ OpenTask(h) \/ Reply(h) \/ Picked(h)
          \/ AcceptSource(h) \/ AcceptFeed(h) \/ AcceptDest(h)
          \/ SimpleSource(h) \/ SimpleDest(h) \/ Title(h)
          \/ InsertTask(h) \/ WriteIds(h) \/ WebTask(h) \/ WebCount(h)
          \/ ChangeMode(h) \/ WriteMode(h)
          \/ AskPlace(h) \/ OpenPlace(h) \/ GotPlace(h) \/ WebPlace(h)
          \/ CheckPlace(h) \/ AddPlace(h)
    \/ Cancel \/ DeleteTask \/ DropPlace

DeskSpec == DeskInit /\ [][DeskNext]_desk

----------------------------------------------------------------------------
\* The types of the variables.
DeskTypeOK ==
    /\ DOMAIN tasks \subseteq Nat
    /\ dialog.at \in {"none", "source", "dest", "title", "simple_source", "simple_dest",
                      "simple_title", "dest_add"}
    /\ births \in Nat /\ messages \in 0 .. MaxMessages

\* The plan's limits are asked about when a dialogue opens or a request comes in, and
\* not when the row is written: they are passed by what was open at that time, one
\* dialogue and the handlers at work, and by no more, however long the chat goes on.  A
\* dialogue that a button of an old list began asks about nothing, and is not meant here.
WithinPlan ==
    /\ Cardinality({t \in DOMAIN tasks : tasks[t].asked}) <= TaskLimit + Cardinality(Handlers)
    /\ \A t \in DOMAIN tasks : Len(tasks[t].extras) < ExtraLimit + 2 * Cardinality(Handlers)

\* No task publishes twice in one channel, under whatever name it was given, unless
\* a destination was added while another handler changed them or one was unresolved.
PlacesApart ==
    \A t \in DOMAIN tasks :
        LET at(i) == IF i = 0 THEN ChatOf[tasks[t].dest] ELSE ChatOf[tasks[t].extras[i].ref]
        IN  tasks[t].clean /\ ~tasks[t].torn =>
                \A i, j \in 0 .. Len(tasks[t].extras) : i # j => at(i) # at(j)

\* A task reads what its reference says and posts where its reference says: kind and ids
\* fit, unless its answers come from several dialogues or its id was given again while a
\* handler that knew the old task was at work.
IdsFit ==
    \A t \in DOMAIN tasks :
        tasks[t].clean =>
            /\ tasks[t].kind = KindOf(tasks[t].src)
            /\ tasks[t].srcId \in {Null, ChatOf[tasks[t].src]}
            /\ tasks[t].destId \in {Null, ChatOf[tasks[t].dest]}

\* What a refusal tells the customer (tasks.py:427, simple_task.py:210, miniapp.py:628):
\* so many tasks are the most he can have.  No run checks it, for the code does not keep
\* it, not even with one handler at a time: WithinPlan is what it keeps.
TasksInPlan == Cardinality(DOMAIN tasks) <= TaskLimit

\* What a task reads and where it posts are what its answers said, and there are no
\* more tasks and places than the plan and what was open at one time allow.
TasksFit == PlacesApart /\ IdsFit /\ WithinPlan
=============================================================================
