---------------------------- MODULE CopyDelivery ----------------------------
(***************************************************************************)
(* How one copy task delivers the posts of its source channel.             *)
(*                                                                         *)
(* Five kinds of coroutine hand posts to the same Copier.process:          *)
(*   live     the per-source worker fed by Telethon updates  (copier.py)   *)
(*   sweep    the safety net that re-reads the source        (sweeper.py)  *)
(*   release  the worker that publishes scheduled rows       (pending.py)  *)
(*   owner    a button handler: approve, reject, reject all  (approvals.py)*)
(*   retry    the worker of the retry queue                  (retry.py)    *)
(* They run on one event loop, so a step of this module is the code        *)
(* between two awaits that another coroutine could use.  A post stands for *)
(* a message or an album; the code knows it by its first message id.       *)
(* What is persisted: messageMap, retryQueue, pendingPosts, abandoned,     *)
(* enabled, open, units.  What a crash forgets: pc, job, inFlight, updates.*)
(***************************************************************************)
EXTENDS Integers, FiniteSets

CONSTANTS
    Posts,          \* ids of the posts of the source channel
    Dests,          \* destinations of the task
    MainDest,       \* targets[0], the destination whose loss pauses the task
    Workers,        \* the coroutines
    Role,           \* what each of them is
    ItemIds,        \* row ids of the retry queue
    Heard,          \* posts whose live update reaches us
    Approval,       \* cfg.approval: publish only what the owner accepts
    SkipDuplicates, \* cfg.skip_duplicates, for posts with a content hash
    Holds,          \* subset of HoldKinds: why a fresh post may be made to wait
    SlowGates,      \* TRUE when the gates may outlast IN_FLIGHT_WAIT
    Faults,         \* answers of Telegram, besides success, in this run
    MaxAttempts,    \* len(RETRY_BACKOFF)
    RetryCap,       \* MAX_RETRY_QUEUE
    Lookback,       \* LOOKBACK of the sweeper
    Quota,          \* message units the plan leaves for one post
    MaxCuts         \* bound: crashes, cancellations and lost acks per run

Roles == {"live", "sweep", "release", "owner", "retry"}
HoldKinds == {"hours", "engagement", "gap"}
FaultKinds == {"unwanted", "empty", "transient", "lostAck", "permanent",
               "forbidden", "flood", "fatal", "noclient", "noplan",
               "unreadable", "deleted", "filtered", "toggle"}

ASSUME PostsAssumption == Posts \subseteq Nat \ {0}
ASSUME RoleAssumption == Role \in [Workers -> Roles]
\* main.py starts one RetryWorker.
ASSUME RetryAssumption ==
    \A r, s \in Workers : Role[r] = "retry" /\ Role[s] = "retry" => r = s
ASSUME DestAssumption == MainDest \in Dests
\* The coroutines of one process, and the rows one run can write.
ASSUME FiniteAssumption == IsFiniteSet(Workers) /\ IsFiniteSet(ItemIds)
ASSUME BoundAssumption == /\ MaxAttempts \in Nat \ {0}
                          /\ RetryCap \in Nat
                          /\ Lookback \in Nat
                          /\ Quota \in Nat
                          /\ MaxCuts \in Nat
ASSUME SwitchAssumption == /\ Approval \in BOOLEAN
                           /\ SkipDuplicates \in BOOLEAN
                           /\ SlowGates \in BOOLEAN
                           /\ Holds \subseteq HoldKinds
                           /\ Faults \subseteq FaultKinds
                           /\ Heard \subseteq Posts

VARIABLES
    source,        \* state of each post in the source channel
    updates,       \* posts waiting in the in-memory queue of the live worker
    enabled,       \* task.enabled
    open,          \* destinations still enabled for the task
    inFlight,      \* Copier._in_flight
    pc,            \* where each coroutine stands
    job,           \* the locals of each coroutine
    messageMap,    \* MessageMap rows, one per delivered (post, destination)
    pendingPosts,  \* PendingPost row of each post: its reason, or "none"
    rowId,         \* the id of that row, or of the last one the post had
    retryQueue,    \* RetryItem rows
    abandoned,     \* AbandonedPost rows
    units,         \* message-quota units currently charged for each post
    copies,        \* Telegram: how often a destination shows the post
    approvedBy,    \* history: posts the owner pressed the tick for
    queuedOnce,    \* history: posts that ever had a retry row
    owed,          \* history: admitted pairs whose fate nothing has decided
    cuts           \* crashes, cancellations and lost acks so far

db == <<messageMap, pendingPosts, rowId, retryQueue, abandoned, enabled, open>>
vars == <<source, updates, inFlight, pc, job, units, copies, approvedBy,
          queuedOnce, owed, cuts, db>>

Pairs == Posts \X Dests
NoItem == [post |-> 0, dest |-> "none", attempts |-> 0]
Items == [post : Posts, dest : Dests, attempts : 0 .. MaxAttempts - 1]

\* The labels inside Copier.process: between taking _in_flight and leaving it.
Gates == {"gate", "approval", "gap", "admit", "isWaiting", "insert", "recheck"}
Delivering == {"deliver", "next", "sending", "record", "count", "enqueue"}
Flight == Gates \cup Delivering
Questions == {"askSent", "askRetry", "askHeld", "askDone"}
Labels == Flight \cup Questions
          \cup {"idle", "enter", "relRead", "relDrop", "relWait", "retRead",
                "retDone", "retFail", "exhausted", "rejMark", "rejDrop",
                "clearing", "marking"}

\* Ids of PendingPost rows.  SQLite gives a new row the id of a deleted one if
\* that was the last row, and a fresh id otherwise: two values tell these apart.
RowIds == {0, 1}

\* rows: what is left of the list a release walks over; row: the row in hand;
\* released: the queue that freed the post; item: the row being retried.
NoJob == [post |-> 0, released |-> "none", item |-> "none", want |-> "none",
          todo |-> {}, dest |-> "none", sent |-> FALSE, already |-> FALSE,
          queued |-> FALSE, unsendable |-> FALSE, failed |-> FALSE,
          unit |-> FALSE, batch |-> {}, rows |-> {}, row |-> 0]
Jobs == [post : Posts \cup {0}, released : {"none", "approval", "schedule"},
         item : ItemIds \cup {"none"}, want : HoldKinds \cup {"none", "approval"},
         todo : SUBSET Dests, dest : Dests \cup {"none"}, sent : BOOLEAN,
         already : BOOLEAN, queued : BOOLEAN, unsendable : BOOLEAN,
         failed : BOOLEAN, unit : BOOLEAN, batch : SUBSET Posts,
         rows : SUBSET (Posts \X RowIds), row : RowIds]

Init ==
    /\ source = [p \in Posts |-> "future"]
    /\ updates = {}
    /\ enabled = TRUE
    /\ open = Dests
    /\ inFlight = {}
    /\ pc = [r \in Workers |-> "idle"]
    /\ job = [r \in Workers |-> NoJob]
    /\ messageMap = {}
    /\ pendingPosts = [p \in Posts |-> "none"]
    /\ rowId = [p \in Posts |-> 0]
    /\ retryQueue = [i \in ItemIds |-> NoItem]
    /\ abandoned = {}
    /\ units = [p \in Posts |-> 0]
    /\ copies = [x \in Pairs |-> 0]
    /\ approvedBy = {}
    /\ queuedOnce = {}
    /\ owed = {}
    /\ cuts = 0

-----------------------------------------------------------------------------
(* What the tables say of a post.                                          *)

Sent(p) == \E d \in Dests : <<p, d>> \in messageMap          \* _already_sent
Waiting(p) == pendingPosts[p] # "none"                       \* is_waiting, _held
Queued(p) == \E i \in ItemIds : retryQueue[i].post = p       \* _waiting_retry
QueueLength == Cardinality({i \in ItemIds : retryQueue[i] # NoItem})
Present == {p \in Posts : source[p] = "present"}
AboveMark(p) == \A x \in messageMap : x[1] < p    \* _watermarks: per task, MAX(src_msg_id)
Retrying(r) == Role[r] = "retry"
Delivered(r) == job[r].sent \/ job[r].already
Post(r) == job[r].post
ItemDest(r) == retryQueue[job[r].item].dest

\* drop: the row the coroutine has in hand, if it is still there.
DropRow(r) ==
    pendingPosts' = IF rowId[Post(r)] = job[r].row
                    THEN [pendingPosts EXCEPT ![Post(r)] = "none"]
                    ELSE pendingPosts

\* hold: a row, unless the post has one.
InsertRow(p, reason) ==
    IF Waiting(p) THEN UNCHANGED <<pendingPosts, rowId>>
    ELSE /\ pendingPosts' = [pendingPosts EXCEPT ![p] = reason]
         /\ \E k \in RowIds : rowId' = [rowId EXCEPT ![p] = k]

\* A rule, not a failure, decides the fate of these pairs: no more owed.
Settle(p, ds) == owed' = owed \ ({p} \X ds)

Goto(r, label) == pc' = [pc EXCEPT ![r] = label]
Keep(r, j) == job' = [job EXCEPT ![r] = j]
Retire(r) == /\ Goto(r, "idle")
             /\ Keep(r, [NoJob EXCEPT !.batch = job[r].batch, !.rows = job[r].rows])

-----------------------------------------------------------------------------
(* The source channel and the owner's switch.                              *)

\* A post appears, newest id last.  Its update is queued for the live worker,
\* or never comes: then only the sweeper can find the post.
Publish(p) ==
    /\ source[p] = "future"
    /\ \A q \in Posts : q < p => source[q] # "future"
    /\ source' = [source EXCEPT ![p] = "present"]
    /\ updates' = IF p \in Heard THEN updates \cup {p} ELSE updates
    /\ UNCHANGED <<inFlight, pc, job, units, copies, approvedBy, queuedOnce,
                   owed, cuts, db>>

Delete(p) ==
    /\ "deleted" \in Faults
    /\ source[p] = "present"
    /\ source' = [source EXCEPT ![p] = "deleted"]
    /\ UNCHANGED <<updates, inFlight, pc, job, units, copies, approvedBy,
                   queuedOnce, owed, cuts, db>>

\* The owner switches the task off or on while coroutines are running.
Toggle ==
    /\ "toggle" \in Faults
    /\ enabled' = ~enabled
    /\ UNCHANGED <<source, updates, inFlight, pc, job, units, copies,
                   approvedBy, queuedOnce, owed, cuts, messageMap,
                   pendingPosts, rowId, retryQueue, abandoned, open>>

-----------------------------------------------------------------------------
(* Where posts come from: what each coroutine does before it calls process. *)

Begin(r, label, new) ==
    /\ pc[r] = "idle"
    /\ Goto(r, label)
    /\ Keep(r, new)

Start(r, label, new) == job[r] = NoJob /\ Begin(r, label, new)

LiveTake(r) ==
    /\ Role[r] = "live"
    /\ \E p \in updates : /\ Begin(r, "enter", [NoJob EXCEPT !.post = p])
                          /\ updates' = updates \ {p}
    /\ UNCHANGED <<source, inFlight, units, copies, approvedBy, queuedOnce,
                   owed, cuts, db>>

WithinReachStrict(p) == Cardinality({q \in Present : q > p}) < Lookback - 1
WithinReach(p) == Cardinality({q \in Present : q > p}) < Lookback

\* A round of the sweeper: the newest posts above the mark, read once.  A task
\* that never delivered anything has no mark and is left alone.
SweepRound(r) ==
    /\ Role[r] = "sweep"
    /\ enabled
    /\ messageMap # {}
    /\ LET fresh == {p \in Present : AboveMark(p) /\ WithinReach(p)}
       IN  /\ fresh # {}
           /\ job[r].batch = {}
           /\ Begin(r, "idle", [NoJob EXCEPT !.batch = fresh])
    /\ UNCHANGED <<source, updates, inFlight, units, copies, approvedBy,
                   queuedOnce, owed, cuts, db>>

\* The next post of the round, oldest first.
SweepTake(r) ==
    /\ Role[r] = "sweep"
    /\ \E p \in job[r].batch :
        /\ \A q \in job[r].batch : p <= q
        /\ Begin(r, "askSent",
                 [NoJob EXCEPT !.post = p, !.batch = job[r].batch \ {p}])
    /\ UNCHANGED <<source, updates, inFlight, units, copies, approvedBy,
                   queuedOnce, owed, cuts, db>>

\* Four questions, each its own database read; the state may move in between.
SweepSkips(r) ==
    \/ pc[r] = "askSent"  /\ Sent(Post(r))
    \/ pc[r] = "askRetry" /\ Queued(Post(r))
    \/ pc[r] = "askHeld"  /\ Waiting(Post(r))
    \/ pc[r] = "askDone"  /\ Post(r) \in abandoned

AfterQuestion == [askSent |-> "askRetry", askRetry |-> "askHeld",
                  askHeld |-> "askDone", askDone |-> "enter"]

SweepAsk(r) ==
    /\ pc[r] \in Questions
    /\ IF SweepSkips(r) THEN Retire(r)
       ELSE Goto(r, AfterQuestion[pc[r]]) /\ UNCHANGED job
    /\ UNCHANGED <<source, updates, inFlight, units, copies, approvedBy,
                   queuedOnce, owed, cuts, db>>

\* ReleaseWorker.run_once lists the due schedule rows; the owner's tick takes
\* one approval row, "approve all" the list of them.
Reason(r) == IF Role[r] = "owner" THEN "approval" ELSE "schedule"

ReleaseList(r) ==
    /\ Role[r] \in {"release", "owner"}
    /\ LET listed == {<<p, rowId[p]>> : p \in {q \in Posts : pendingPosts[q] = Reason(r)}}
       IN  \E some \in SUBSET listed :
            /\ some # {}
            /\ Role[r] = "owner" => some = listed \/ \E x \in listed : some = {x}
            /\ Start(r, "idle", [NoJob EXCEPT !.rows = some])
            /\ approvedBy' = IF Role[r] = "owner"
                             THEN approvedBy \cup {x[1] : x \in some} ELSE approvedBy
    /\ UNCHANGED <<source, updates, inFlight, units, copies, queuedOnce, owed,
                   cuts, db>>

\* The next of them is released, as it was when the list was read.
ReleaseTake(r) ==
    /\ Role[r] \in {"release", "owner"}
    /\ \E x \in job[r].rows :
        Begin(r, "relRead", [NoJob EXCEPT !.post = x[1], !.row = x[2],
                                          !.rows = job[r].rows \ {x},
                                          !.released = Reason(r)])
    /\ UNCHANGED <<source, updates, inFlight, units, copies, approvedBy,
                   queuedOnce, owed, cuts, db>>

\* release reads the task, then the post.  Switched off or deleted: the row
\* goes.  No reader, or the read fails: the row stays for another round.
ReleaseRead(r) ==
    /\ pc[r] = "relRead"
    /\ \/ /\ ~enabled \/ Post(r) \notin Present
          /\ DropRow(r)
          /\ Retire(r)
       \/ /\ enabled /\ "unreadable" \in Faults
          /\ Retire(r)
          /\ UNCHANGED pendingPosts
       \/ /\ enabled /\ Post(r) \in Present
          /\ Goto(r, "relDrop")
          /\ UNCHANGED <<job, pendingPosts, rowId>>
    /\ UNCHANGED <<source, updates, inFlight, units, copies, approvedBy,
                   queuedOnce, owed, cuts, messageMap, rowId, retryQueue, abandoned,
                   enabled, open>>

\* The row is deleted before the post is processed; whether the delete hit a
\* row is not looked at.
ReleaseDrop(r) ==
    /\ pc[r] = "relDrop"
    /\ DropRow(r)
    /\ Goto(r, "relWait")
    /\ UNCHANGED <<source, updates, inFlight, job, units, copies, approvedBy,
                   queuedOnce, owed, cuts, messageMap, rowId, retryQueue, abandoned,
                   enabled, open>>

\* The post is being sent by somebody else for IN_FLIGHT_WAIT seconds: back
\* into the queue.  Gates only read the database, so unless SlowGates the
\* holder that outlasts the wait is one that is delivering.
ReleaseTimeout(r) ==
    /\ pc[r] = "relWait"
    /\ Post(r) \in inFlight
    /\ SlowGates \/ \E s \in Workers : Post(s) = Post(r) /\ pc[s] \in Delivering
    /\ InsertRow(Post(r), job[r].released)
    /\ Retire(r)
    /\ UNCHANGED <<source, updates, inFlight, units, copies, approvedBy,
                   queuedOnce, owed, cuts, messageMap, retryQueue, abandoned,
                   enabled, open>>

\* The owner's cross: the post is marked first and its row deleted second.
Reject(r) ==
    /\ Role[r] = "owner"
    /\ \E p \in Posts :
        /\ pendingPosts[p] = "approval"
        /\ Start(r, "rejMark", [NoJob EXCEPT !.post = p, !.row = rowId[p]])
    /\ UNCHANGED <<source, updates, inFlight, units, copies, approvedBy,
                   queuedOnce, owed, cuts, db>>

RejectMark(r) ==
    /\ pc[r] = "rejMark"
    /\ abandoned' = abandoned \cup {Post(r)}
    /\ Goto(r, "rejDrop")
    /\ UNCHANGED <<source, updates, inFlight, job, units, copies, approvedBy,
                   queuedOnce, owed, cuts, messageMap, pendingPosts, rowId,
                   retryQueue, enabled, open>>

RejectDrop(r) ==
    /\ pc[r] = "rejDrop"
    /\ DropRow(r)
    /\ Retire(r)
    /\ UNCHANGED <<source, updates, inFlight, units, copies, approvedBy,
                   queuedOnce, owed, cuts, messageMap, rowId, retryQueue, abandoned,
                   enabled, open>>

\* "Reject all" and the three-day prune read the rows, delete them, and mark
\* the posts they had read afterwards, one transaction each.
DropBatch(r) ==
    /\ Role[r] \in {"release", "owner"}
    /\ LET asked == {p \in Posts : pendingPosts[p] = "approval"}
       IN  \E stale \in SUBSET asked :
            /\ stale # {}
            /\ Role[r] = "owner" => stale = asked
            /\ Start(r, "clearing", [NoJob EXCEPT !.batch = stale])
    /\ UNCHANGED <<source, updates, inFlight, units, copies, approvedBy,
                   queuedOnce, owed, cuts, db>>

ClearBatch(r) ==
    /\ pc[r] = "clearing"
    /\ pendingPosts' =
        [p \in Posts |-> IF /\ pendingPosts[p] = "approval"
                            /\ Role[r] = "owner" \/ p \in job[r].batch
                         THEN "none" ELSE pendingPosts[p]]
    /\ Goto(r, "marking")
    /\ UNCHANGED <<source, updates, inFlight, job, units, copies, approvedBy,
                   queuedOnce, owed, cuts, messageMap, rowId, retryQueue,
                   abandoned, enabled, open>>

MarkBatch(r) ==
    /\ pc[r] = "marking"
    /\ \E p \in job[r].batch :
        /\ abandoned' = abandoned \cup {p}
        /\ Keep(r, [job[r] EXCEPT !.batch = @ \ {p}])
        /\ Goto(r, IF job[r].batch = {p} THEN "idle" ELSE "marking")
    /\ UNCHANGED <<source, updates, inFlight, units, copies, approvedBy,
                   queuedOnce, owed, cuts, messageMap, pendingPosts, rowId,
                   retryQueue, enabled, open>>

-----------------------------------------------------------------------------
(* The retry worker before and after process.                              *)

RetryTake(r) ==
    /\ Role[r] = "retry"
    /\ \E i \in ItemIds :
        /\ retryQueue[i] # NoItem
        /\ Begin(r, "retRead",
                 [NoJob EXCEPT !.post = retryQueue[i].post, !.item = i])
    /\ UNCHANGED <<source, updates, inFlight, units, copies, approvedBy,
                   queuedOnce, owed, cuts, db>>

PostponeDropsRow(r) == Goto(r, "retDone") /\ UNCHANGED job
Postpone(r) == Retire(r)

\* _attempt up to the call of process: a switched-off task or a deleted post
\* drops the row, a failed read counts an attempt, and a post in flight is
\* postponed, uncounted.  Otherwise process starts in the same step: Enter.
RetryRead(r) ==
    /\ pc[r] = "retRead"
    /\ \/ /\ ~enabled \/ Post(r) \notin Present
          /\ Goto(r, "retDone")
          /\ Settle(Post(r), {ItemDest(r)})
          /\ UNCHANGED job
       \/ /\ enabled /\ "unreadable" \in Faults
          /\ Goto(r, "retFail")
          /\ UNCHANGED <<job, owed>>
       \/ /\ enabled /\ Post(r) \in Present /\ Post(r) \in inFlight
          /\ Postpone(r)
          /\ UNCHANGED owed
    /\ UNCHANGED <<source, updates, inFlight, units, copies, approvedBy,
                   queuedOnce, cuts, db>>

RetryDrop(r) ==
    /\ pc[r] = "retDone"
    /\ retryQueue' = [retryQueue EXCEPT ![job[r].item] = NoItem]
    /\ Retire(r)
    /\ UNCHANGED <<source, updates, inFlight, units, copies, approvedBy,
                   queuedOnce, owed, cuts, messageMap, pendingPosts, rowId, abandoned,
                   enabled, open>>

TriedUncounted(i) == retryQueue[i].attempts
Tried(i) == retryQueue[i].attempts + 1
GivenUp(tried) == tried >= MaxAttempts

\* _reschedule: one more attempt, or the row is deleted and only then, in a
\* transaction of its own, the post is marked as abandoned.
Reschedule(r) ==
    /\ pc[r] = "retFail"
    /\ LET tried == Tried(job[r].item)
       IN  IF GivenUp(tried)
           THEN /\ retryQueue' = [retryQueue EXCEPT ![job[r].item] = NoItem]
                /\ Settle(Post(r), {ItemDest(r)})
                /\ Goto(r, "exhausted")
                /\ UNCHANGED job
           ELSE /\ retryQueue' = [retryQueue EXCEPT ![job[r].item].attempts = tried]
                /\ Retire(r)
                /\ UNCHANGED owed
    /\ UNCHANGED <<source, updates, inFlight, units, copies, approvedBy,
                   queuedOnce, cuts, messageMap, pendingPosts, rowId, abandoned,
                   enabled, open>>

MarkExhausted(r) ==
    /\ pc[r] = "exhausted"
    /\ abandoned' = abandoned \cup {Post(r)}
    /\ Retire(r)
    /\ UNCHANGED <<source, updates, inFlight, units, copies, approvedBy,
                   queuedOnce, owed, cuts, messageMap, pendingPosts, rowId,
                   retryQueue, enabled, open>>

-----------------------------------------------------------------------------
(* Copier.process: one post at a time per task, and its gates.             *)

\* `finally` gives the unit back unless the post went out, had gone out, or
\* waits in the retry queue.
RefundNever(r) == FALSE
Refund(r) == job[r].unit /\ ~(Delivered(r) \/ job[r].queued)

\* The way out of process: the unit comes back, the post is free.  Only the
\* retry worker looks at how it ended.
Leave(r, outcome) ==
    /\ inFlight' = inFlight \ {Post(r)}
    /\ units' = IF Refund(r) /\ units[Post(r)] > 0
                THEN [units EXCEPT ![Post(r)] = @ - 1] ELSE units
    /\ IF Retrying(r)
       THEN /\ Goto(r, outcome)
            /\ Keep(r, [NoJob EXCEPT !.post = Post(r), !.item = job[r].item])
       ELSE Retire(r)

MayEnter(r) ==
    \/ pc[r] \in {"enter", "relWait"}
    \/ pc[r] = "retRead" /\ enabled /\ Post(r) \in Present

Targets(r) == IF Retrying(r) THEN open \cap {ItemDest(r)} ELSE open

FreeAlways(p) == TRUE
Free(p) == p \notin inFlight

\* Nobody has the post: take it, and read the task.  A retry row whose
\* destination left the task is over.
Enter(r) ==
    /\ MayEnter(r)
    /\ Free(Post(r))
    /\ IF enabled
       THEN /\ inFlight' = inFlight \cup {Post(r)}
            /\ Goto(r, "gate")
            /\ Keep(r, [job[r] EXCEPT !.todo = Targets(r)])
       ELSE Retire(r) /\ UNCHANGED inFlight
    /\ IF Retrying(r) THEN Settle(Post(r), {ItemDest(r)} \ open) ELSE UNCHANGED owed
    /\ UNCHANGED <<source, updates, units, copies, approvedBy, queuedOnce,
                   cuts, db>>

AsideWhileReleasing(r) == pc[r] \in {"enter", "relWait"}
Aside(r) == pc[r] = "enter"

\* Somebody has it: the live worker and the sweeper step aside.
StepAside(r) ==
    /\ Aside(r)
    /\ Post(r) \in inFlight
    /\ Retire(r)
    /\ UNCHANGED <<source, updates, inFlight, units, copies, approvedBy,
                   queuedOnce, owed, cuts, db>>

Pause == enabled' = FALSE

HoldFor(r, why) == /\ Goto(r, "isWaiting")
                   /\ Keep(r, [job[r] EXCEPT !.want = why])

\* Hours, subscription, content filters and engagement.  A post that has not
\* waited yet may be held until the hours open or its views are in; a retried
\* one meets only the subscription and the content filters.
Filter(r) ==
    /\ pc[r] = "gate"
    /\ \/ /\ "filtered" \in Faults
          /\ Leave(r, "retDone")
          /\ Settle(Post(r), IF Retrying(r) THEN job[r].todo ELSE {})
          /\ UNCHANGED enabled
       \/ /\ "noplan" \in Faults
          /\ Pause
          /\ Leave(r, "retDone")
          /\ Settle(Post(r), IF Retrying(r) THEN job[r].todo ELSE {})
       \/ /\ ~Retrying(r) /\ job[r].released = "none"
          /\ \E why \in Holds \ {"gap"} : HoldFor(r, why)
          /\ UNCHANGED <<inFlight, units, owed, enabled>>
       \/ /\ Goto(r, IF Retrying(r) THEN "deliver" ELSE "approval")
          /\ UNCHANGED <<job, inFlight, units, owed, enabled>>
    /\ UNCHANGED <<source, updates, copies, approvedBy, queuedOnce, cuts,
                   messageMap, pendingPosts, rowId, retryQueue, abandoned, open>>

NeedsTick(r) == Approval /\ job[r].released # "approval"

ApprovalGate(r) ==
    /\ pc[r] = "approval"
    /\ IF NeedsTick(r)
       THEN HoldFor(r, "approval")
       ELSE Goto(r, "gap") /\ UNCHANGED job
    /\ UNCHANGED <<source, updates, inFlight, units, copies, approvedBy,
                   queuedOnce, owed, cuts, db>>

\* min_gap_seconds is asked of every post, also of one a queue has released.
GapGate(r) ==
    /\ pc[r] = "gap"
    /\ \/ "gap" \in Holds /\ HoldFor(r, "gap")
       \/ Goto(r, "admit") /\ UNCHANGED job
    /\ UNCHANGED <<source, updates, inFlight, units, copies, approvedBy,
                   queuedOnce, owed, cuts, db>>

Held(r) == Waiting(Post(r))

\* _hold: asked, inserted (the key is unique), asked again.  A row that was
\* there at the insert and is gone at the last question means "not held": a
\* post outside the hours is skipped then, any other goes on to the next gate.
AfterHold == [engagement |-> "approval", approval |-> "gap", gap |-> "admit"]
RowReason(why) == IF why = "approval" THEN "approval" ELSE "schedule"

HoldAsk(r) ==
    /\ pc[r] \in {"isWaiting", "recheck"}
    /\ IF Held(r) \/ (pc[r] = "recheck" /\ job[r].want = "hours")
       THEN Leave(r, "retDone")
       ELSE /\ Goto(r, IF pc[r] = "isWaiting" THEN "insert" ELSE AfterHold[job[r].want])
            /\ UNCHANGED <<job, inFlight, units>>
    /\ UNCHANGED <<source, updates, copies, approvedBy, queuedOnce, owed, cuts,
                   db>>

HoldInsert(r) ==
    /\ pc[r] = "insert"
    /\ IF Waiting(Post(r))
       THEN Goto(r, "recheck") /\ UNCHANGED <<job, inFlight, units>>
       ELSE Leave(r, "retDone")
    /\ InsertRow(Post(r), RowReason(job[r].want))
    /\ UNCHANGED <<source, updates, copies, approvedBy, queuedOnce, owed, cuts,
                   messageMap, retryQueue, abandoned, enabled, open>>

DuplicateUnasked(p) == FALSE
Duplicate(p) == SkipDuplicates /\ Sent(p)

\* Hourly cap, duplicate check, message quota.  No other coroutine can deliver
\* this post meanwhile, so the three reads are one step.
Admit(r) ==
    /\ pc[r] = "admit"
    /\ \/ /\ \/ "filtered" \in Faults
             \/ Duplicate(Post(r))
             \/ units[Post(r)] >= Quota
          /\ Leave(r, "retDone")
          /\ UNCHANGED owed
       \/ /\ ~Duplicate(Post(r))
          /\ units[Post(r)] < Quota
          /\ units' = [units EXCEPT ![Post(r)] = @ + 1]
          /\ owed' = owed \cup ({Post(r)} \X job[r].todo)
          /\ Goto(r, "deliver")
          /\ Keep(r, [job[r] EXCEPT !.unit = TRUE])
          /\ UNCHANGED inFlight
    /\ UNCHANGED <<source, updates, copies, approvedBy, queuedOnce, cuts, db>>

-----------------------------------------------------------------------------
(* Copier._deliver: one destination after the other.                       *)

\* No client: the task is paused and its owner told.
Connect(r) ==
    /\ pc[r] = "deliver"
    /\ \/ /\ Goto(r, "next")
          /\ UNCHANGED <<job, inFlight, units, owed, enabled>>
       \/ /\ "noclient" \in Faults
          /\ Pause
          /\ Settle(Post(r), job[r].todo)
          /\ Leave(r, "retDone")
    /\ UNCHANGED <<source, updates, copies, approvedBy, queuedOnce, cuts,
                   messageMap, pendingPosts, rowId, retryQueue, abandoned, open>>

ArrivedUnasked(r, d) == FALSE
ArrivedBefore(r, d) == Retrying(r) /\ <<Post(r), d>> \in messageMap

\* The main destination comes first.  A retry asks whether an earlier attempt
\* had arrived; routing or a copy from another source may make it unwanted.
PickDest(r) ==
    /\ pc[r] = "next"
    /\ \E d \in job[r].todo :
        /\ MainDest \in job[r].todo => d = MainDest
        /\ LET rest == [job[r] EXCEPT !.todo = @ \ {d}]
           IN  IF ArrivedBefore(r, d)
               THEN /\ Keep(r, [rest EXCEPT !.already = TRUE])
                    /\ UNCHANGED <<pc, owed>>
               ELSE \/ /\ Keep(r, [rest EXCEPT !.dest = d])
                       /\ Goto(r, "sending")
                       /\ UNCHANGED owed
                    \/ /\ "unwanted" \in Faults
                       /\ Keep(r, rest)
                       /\ Settle(Post(r), {d})
                       /\ UNCHANGED pc
    /\ UNCHANGED <<source, updates, inFlight, units, copies, approvedBy,
                   queuedOnce, cuts, db>>

Shown(r) == copies' = [copies EXCEPT ![<<Post(r), job[r].dest>>] = @ + 1]

\* Telegram answers.  Success, or nothing to send:
Answered(r) ==
    /\ pc[r] = "sending"
    /\ \/ /\ Shown(r)
          /\ Goto(r, "record")
          /\ UNCHANGED owed
       \/ /\ "empty" \in Faults
          /\ Settle(Post(r), {job[r].dest})
          /\ Goto(r, "next")
          /\ UNCHANGED copies
    /\ UNCHANGED <<source, updates, inFlight, job, units, approvedBy,
                   queuedOnce, cuts, db>>

\* a failure that may pass, perhaps after the post had in fact arrived:
FailedForNow(r) ==
    /\ pc[r] = "sending"
    /\ \/ "transient" \in Faults /\ UNCHANGED <<copies, cuts>>
       \/ "lostAck" \in Faults /\ cuts < MaxCuts /\ cuts' = cuts + 1 /\ Shown(r)
    /\ IF Retrying(r)
       THEN Goto(r, "next") /\ Keep(r, [job[r] EXCEPT !.failed = TRUE])
       ELSE Goto(r, "count") /\ UNCHANGED job
    /\ UNCHANGED <<source, updates, inFlight, units, approvedBy, queuedOnce,
                   owed, db>>

\* a failure that will not pass:
FailedForGood(r) ==
    /\ pc[r] = "sending"
    /\ "permanent" \in Faults
    /\ Settle(Post(r), {job[r].dest})
    /\ Goto(r, "next")
    /\ Keep(r, [job[r] EXCEPT !.unsendable = TRUE])
    /\ UNCHANGED <<source, updates, inFlight, units, copies, approvedBy,
                   queuedOnce, cuts, db>>

\* no right to write there, which ends the task or only that destination:
Forbidden(r) ==
    /\ pc[r] = "sending"
    /\ "forbidden" \in Faults
    /\ IF job[r].dest = MainDest
       THEN /\ Pause
            /\ Settle(Post(r), job[r].todo \cup {job[r].dest})
            /\ Leave(r, "retDone")
            /\ UNCHANGED open
       ELSE /\ open' = open \ {job[r].dest}
            /\ Settle(Post(r), {job[r].dest})
            /\ Goto(r, "next")
            /\ UNCHANGED <<job, inFlight, units, enabled>>
    /\ UNCHANGED <<source, updates, copies, approvedBy, queuedOnce, cuts,
                   messageMap, pendingPosts, rowId, retryQueue, abandoned>>

\* or an exception that leaves process: a flood wait, or an account error.
\* Only _dispatch, the live path, looks at an account error: it pauses the
\* tasks when the state of the account is new to it.
Raised(r) ==
    /\ pc[r] = "sending"
    /\ \/ "flood" \in Faults /\ UNCHANGED <<owed, enabled>>
       \/ /\ "fatal" \in Faults
          /\ \/ /\ Role[r] = "live"
                /\ Pause
                /\ Settle(Post(r), job[r].todo \cup {job[r].dest})
             \/ UNCHANGED <<owed, enabled>>
    /\ Leave(r, "retFail")
    /\ UNCHANGED <<source, updates, copies, approvedBy, queuedOnce, cuts,
                   messageMap, pendingPosts, rowId, retryQueue, abandoned, open>>

\* _remember, in a transaction after the send.
Record(r) ==
    /\ pc[r] = "record"
    /\ messageMap' = messageMap \cup {<<Post(r), job[r].dest>>}
    /\ Settle(Post(r), {job[r].dest})
    /\ Goto(r, "next")
    /\ Keep(r, [job[r] EXCEPT !.sent = TRUE])
    /\ UNCHANGED <<source, updates, inFlight, units, copies, approvedBy,
                   queuedOnce, cuts, pendingPosts, rowId, retryQueue, abandoned,
                   enabled, open>>

QueueFullNever == FALSE
QueueFull == QueueLength >= RetryCap

\* _enqueue_retry: the length is read in one transaction, the row inserted in
\* another.  At the cap the task is paused and its owner told.
CountQueue(r) ==
    /\ pc[r] = "count"
    /\ IF QueueFull
       THEN Pause /\ Goto(r, "next") /\ Settle(Post(r), {job[r].dest})
       ELSE Goto(r, "enqueue") /\ UNCHANGED <<enabled, owed>>
    /\ UNCHANGED <<source, updates, inFlight, job, units, copies, approvedBy,
                   queuedOnce, cuts, messageMap, pendingPosts, rowId, retryQueue,
                   abandoned, open>>

Enqueue(r) ==
    /\ pc[r] = "enqueue"
    /\ \E i \in ItemIds :
        /\ retryQueue[i] = NoItem
        /\ retryQueue' = [retryQueue EXCEPT ![i] =
                            [post |-> Post(r), dest |-> job[r].dest, attempts |-> 0]]
    /\ queuedOnce' = queuedOnce \cup {Post(r)}
    /\ Goto(r, "next")
    /\ Keep(r, [job[r] EXCEPT !.queued = TRUE])
    /\ UNCHANGED <<source, updates, inFlight, units, copies, approvedBy, owed,
                   cuts, messageMap, pendingPosts, rowId, abandoned, enabled, open>>

\* All destinations tried.  A post no destination can take is remembered; a
\* retry that delivered nothing raises SendFailed.
Finish(r) ==
    /\ pc[r] = "next"
    /\ job[r].todo = {}
    /\ abandoned' = IF job[r].unsendable /\ ~Delivered(r)
                    THEN abandoned \cup {Post(r)} ELSE abandoned
    /\ Leave(r, IF job[r].failed /\ ~Delivered(r) THEN "retFail" ELSE "retDone")
    /\ UNCHANGED <<source, updates, copies, approvedBy, queuedOnce, owed, cuts,
                   messageMap, pendingPosts, rowId, retryQueue, enabled, open>>

-----------------------------------------------------------------------------
(* Interruptions.                                                          *)

\* The process dies: everything in memory is gone, the tables stay.
Crash ==
    /\ cuts < MaxCuts
    /\ cuts' = cuts + 1
    /\ pc' = [r \in Workers |-> "idle"]
    /\ job' = [r \in Workers |-> NoJob]
    /\ inFlight' = {}
    /\ updates' = {}
    /\ UNCHANGED <<source, units, copies, approvedBy, queuedOnce, owed, db>>

\* stop_user cancels the live worker of a disconnected account; the `finally`
\* of process still runs.
Cancel(r) ==
    /\ Role[r] = "live"
    /\ pc[r] \in Flight
    /\ cuts < MaxCuts
    /\ cuts' = cuts + 1
    /\ updates' = {}
    /\ Leave(r, "retFail")
    /\ UNCHANGED <<source, copies, approvedBy, queuedOnce, owed, db>>

Sources(r) == LiveTake(r) \/ SweepRound(r) \/ SweepTake(r) \/ SweepAsk(r)
Releases(r) == ReleaseTake(r) \/ ReleaseRead(r) \/ ReleaseDrop(r) \/ ReleaseTimeout(r)
Marks(r) == RejectMark(r) \/ RejectDrop(r) \/ ClearBatch(r) \/ MarkBatch(r) \/ MarkExhausted(r)
Retries(r) == RetryRead(r) \/ RetryDrop(r) \/ Reschedule(r)
GateSteps(r) == \/ Enter(r) \/ StepAside(r) \/ Filter(r) \/ ApprovalGate(r)
                \/ GapGate(r) \/ HoldAsk(r) \/ HoldInsert(r) \/ Admit(r)
DeliverySteps(r) == \/ Connect(r) \/ PickDest(r) \/ Answered(r)
                    \/ FailedForNow(r) \/ FailedForGood(r) \/ Forbidden(r)
                    \/ Raised(r) \/ Record(r) \/ CountQueue(r) \/ Enqueue(r)
                    \/ Finish(r)

\* What a coroutine does once it has begun, and what it begins by itself.
Work(r) == \/ Sources(r) \/ Releases(r) \/ Marks(r) \/ Retries(r)
           \/ GateSteps(r) \/ DeliverySteps(r)

Next ==
    \/ \E p \in Posts : Publish(p) \/ Delete(p)
    \/ Toggle
    \/ \E r \in Workers : \/ Work(r)
                          \/ ReleaseList(r) \/ RetryTake(r)
                          \/ Reject(r) \/ DropBatch(r)
                          \/ Cancel(r)
    \/ Crash

Spec == Init /\ [][Next]_vars

\* Awaited calls return, so a coroutine that has begun goes on; run_once of
\* the retry worker walks over every due row, so none is passed over for ever.
Fairness ==
    /\ \A r \in Workers : WF_vars(Work(r))
    /\ \A r \in {s \in Workers : Role[s] = "retry"} :
         \A i \in ItemIds : SF_vars(RetryTake(r) /\ job'[r].item = i)

FairSpec == Spec /\ Fairness

-----------------------------------------------------------------------------
(* What must hold.                                                         *)

TypeOK ==
    /\ source \in [Posts -> {"future", "present", "deleted"}]
    /\ updates \subseteq Posts
    /\ enabled \in BOOLEAN
    /\ open \subseteq Dests
    /\ inFlight \subseteq Posts
    /\ pc \in [Workers -> Labels]
    /\ job \in [Workers -> Jobs]
    /\ messageMap \subseteq Pairs
    /\ pendingPosts \in [Posts -> {"none", "approval", "schedule"}]
    /\ rowId \in [Posts -> RowIds]
    /\ retryQueue \in [ItemIds -> Items \cup {NoItem}]
    /\ abandoned \subseteq Posts
    /\ units \in [Posts -> Nat]
    /\ copies \in [Pairs -> Nat]
    /\ approvedBy \subseteq Posts
    /\ queuedOnce \subseteq Posts
    /\ owed \subseteq Pairs
    /\ cuts \in 0 .. MaxCuts

\* No post is handled by two coroutines at a time, and a post is marked as in
\* flight exactly while one handles it (copier.py, Copier.process).
OneHandler ==
    /\ \A r, s \in Workers :
          pc[r] \in Flight /\ pc[s] \in Flight /\ Post(r) = Post(s) => r = s
    /\ inFlight = {Post(r) : r \in {s \in Workers : pc[s] \in Flight}}

\* A destination shows a post at most once, plus once for every crash,
\* cancellation or lost acknowledgement: those can fall between the send and
\* its row in the map.  Every path is said to ask the map before it sends
\* (sweeper.py, "why nothing is done twice"; Copier.process).
SentOnce ==
    \A x \in Pairs : copies[x] <= 1 + cuts

\* The same where the duplicate check is on, its default: it rests on the
\* flight lock, on that check under the lock and on the retry worker's own
\* question (Copier._process, _deliver, _remember).
AtMostOncePerCut ==
    SkipDuplicates => SentOnce

\* Also without the duplicate check, a retry sends a post only to a
\* destination that has no row for it, up to the moment it writes the row
\* (Copier._deliver, _delivered).
RetryFillsGaps ==
    \A r \in Workers :
        Retrying(r) /\ pc[r] \in {"sending", "record"}
            => <<Post(r), job[r].dest>> \notin messageMap

\* With approval switched on, a destination shows only posts the owner has
\* ticked, whichever coroutine published them and however often they were
\* held, retried or found again (README: nothing is published by itself).
ApprovedFirst ==
    Approval => \A x \in Pairs : copies[x] > 0 => x[1] \in approvedBy

\* A quota unit stays charged only for a post that was delivered, that went
\* through the retry queue, or that is being handled (Copier._process: the
\* unit comes back on every way out).  A crash may lose the refund.
UnitsBacked ==
    cuts = 0 =>
        \A p \in Posts : units[p] > 0 =>
            \/ Sent(p)
            \/ p \in queuedOnce
            \/ \E r \in Workers : Post(r) = p /\ job[r].unit

\* A pair that was admitted and that no rule has settled is never forgotten:
\* it is delivered, in the retry queue, or in the hands of a coroutine that
\* has yet to send it or to queue it (README: a failed post waits in the
\* queue).  A crash drops what is in memory.
InHand(r, x) ==
    /\ pc[r] \in Flight
    /\ Post(r) = x[1]
    /\ \/ x[2] \in job[r].todo
       \/ x[2] = job[r].dest /\ pc[r] \in {"sending", "count", "enqueue", "record"}

NothingForgotten ==
    cuts = 0 =>
        \A x \in owed \ messageMap :
            \/ \E i \in ItemIds : retryQueue[i].post = x[1] /\ retryQueue[i].dest = x[2]
            \/ \E r \in Workers : InHand(r, x)

\* The retry queue passes its cap by no more than the coroutines that had
\* read its length before the others inserted (Copier._enqueue_retry).
QueueNearCap ==
    QueueLength <= RetryCap + Cardinality({r \in Workers : ~Retrying(r)}) - 1

\* Every retry row leaves the queue: sent, dropped by a rule, or given up
\* after MaxAttempts (RetryWorker).
RetryEnds ==
    \A i \in ItemIds : retryQueue[i] # NoItem ~> retryQueue[i] = NoItem

\* A post above the mark whose update never came is found by the sweeper, and
\* delivered unless it is held, was given up or the task was paused
\* (Sweeper._sweep).
SweeperFinds ==
    \A p \in Posts :
        source[p] = "present" /\ messageMap # {}
            ~> Sent(p) \/ Waiting(p) \/ p \in abandoned \/ ~enabled

\* A post the owner has ticked is published or given up, whoever else finds
\* it, holds it or rejects it meanwhile, unless the task is paused
\* (ReleaseWorker.release: an approved post must not get lost in silence).
ApprovedGoesOut ==
    \A p \in Posts : p \in approvedBy ~> Sent(p) \/ p \in abandoned \/ ~enabled

\* The task implements what it promises (PostDelivery): every copy that any
\* coroutine makes is one the owner allowed and no row of the map stands for.
Promise == INSTANCE PostDelivery WITH
    AsksOwner <- Approval, shown <- copies, noted <- messageMap, allowed <- approvedBy

DeliversAsPromised == Promise!Spec
=============================================================================
