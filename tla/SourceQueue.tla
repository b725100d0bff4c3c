----------------------------- MODULE SourceQueue -----------------------------
(***************************************************************************)
(* The queue of one source (services/copier.py, from the handlers of       *)
(* Telethon's updates to process): a post takes its place when it is first *)
(* heard of, an album when its first part is; one worker takes the posts   *)
(* out in the order of their places, waits until an album is complete, and *)
(* hands them to process.  An album is completed by Telethon's own event   *)
(* or, if that does not come, released by a timer with the parts that      *)
(* arrived.  stop_user drops it all at any moment.                         *)
(*                                                                         *)
(* Every update has a coroutine of its own, which gives way to others only *)
(* while the alert of a long queue is sent.  process is one long step, and *)
(* the order the owner asks for is read anew for every post.               *)
(***************************************************************************)
EXTENDS Integers, Sequences, FiniteSets

CONSTANTS
    Texts,     \* posts of one message
    Parts,     \* the messages of one album
    Busy,      \* BUSY_QUEUE
    MaxPlace,  \* bound: places taken in the queue
    MaxStop    \* bound: calls of stop_user

ASSUME QueueAssumption == /\ Busy \in Nat /\ MaxPlace \in Nat /\ MaxStop \in Nat
                          /\ Texts \cap Parts = {}

Slots == 1 .. MaxPlace
Updates == Texts \cup Parts
Orders == {"strict", "grace", "fast"}

VARIABLES
    taken,     \* places taken so far: the order in which posts were first heard of
    at,        \* where each place is: "free"; "alert", or "stray" if the queue has gone
               \* meanwhile; "queue"; "worker"; in process, under an order; "over"; "lost"
    holds,     \* Slot.messages
    ready,     \* Slot.ready
    waiting,   \* _queues: the places in the queue
    worker,    \* _workers: what the worker does, and with which place
    albumAt,   \* _album_slots: the place of the album, 0 for none
    timerOf,   \* _album_timers: the place whose timer is on record, 0 for none
    ticking,   \* timers at work
    dying,     \* timers that were cancelled and have not run their finally yet
    heard,     \* the updates that came
    whole,     \* Telethon's album event came
    passed,    \* how often each message was handed to process
    alerted,   \* ghost: places whose handler had to send the alert of a long queue
    early,     \* ghost: a timer was up before all the updates of the album and its event had come
    stops

places == <<taken, at, holds, ready, waiting, worker, alerted>>
albums == <<albumAt, timerOf, ticking, dying>>
queueVars == <<places, albums, heard, whole, passed, early, stops>>

NoWorker == [pc |-> "none", place |-> 0]

QueueInit ==
    /\ taken = 0 /\ waiting = <<>> /\ worker = NoWorker
    /\ at = [i \in Slots |-> "free"] /\ holds = [i \in Slots |-> {}]
    /\ ready = [i \in Slots |-> FALSE] /\ alerted = {}
    /\ albumAt = 0 /\ timerOf = 0 /\ ticking = {} /\ dying = {}
    /\ heard = {} /\ whole = FALSE /\ passed = [m \in Updates |-> 0]
    /\ early = FALSE /\ stops = 0

-----------------------------------------------------------------------------
(* The handlers of updates.                                                *)

\* _enqueue: the place is put in the queue, whose worker starts with it.  If the
\* queue is long, the alert comes first; one sent a short while ago is not repeated.
Enqueue(i) ==
    \/ /\ at' = [at EXCEPT ![i] = "queue"]
       /\ waiting' = Append(waiting, i)
       /\ UNCHANGED alerted
    \/ /\ Len(waiting) >= Busy
       /\ at' = [at EXCEPT ![i] = "alert"]
       /\ alerted' = alerted \cup {i}
       /\ UNCHANGED waiting

TakePlace(i, messages, complete) ==
    /\ i \in Slots /\ taken' = i
    /\ holds' = [holds EXCEPT ![i] = messages]
    /\ ready' = [ready EXCEPT ![i] = complete]
    /\ worker' = IF worker.pc = "none" THEN [worker EXCEPT !.pc = "get"] ELSE worker
    /\ Enqueue(i)

\* An update that is no part of an album.
HearText(m) ==
    /\ m \in Texts \ heard
    /\ heard' = heard \cup {m}
    /\ TakePlace(taken + 1, {m}, TRUE)
    /\ UNCHANGED <<albums, whole, passed, early, stops>>

\* _album_release is started for a place, and put on record.
StartTimer(i) == ticking' = ticking \cup {i} /\ timerOf' = i

\* _slot_for an album without a place: it takes one, and its timer starts once
\* that is in the queue.
TakeAlbumPlace(messages, complete) ==
    /\ albumAt = 0
    /\ TakePlace(taken + 1, messages, complete)
    /\ albumAt' = taken'
    /\ IF at'[taken'] = "queue" THEN StartTimer(taken') ELSE UNCHANGED <<ticking, timerOf>>
    /\ UNCHANGED dying

\* _buffer_album: the part is added, unless the event has filled the place.
AddPart(m) ==
    /\ albumAt # 0
    /\ holds' = [holds EXCEPT ![albumAt] = IF ready[albumAt] THEN @ ELSE @ \cup {m}]
    /\ UNCHANGED <<taken, at, ready, waiting, worker, alerted, albums>>

HearPart(m) ==
    /\ m \in Parts \ heard
    /\ heard' = heard \cup {m}
    /\ TakeAlbumPlace({m}, FALSE) \/ AddPart(m)
    /\ UNCHANGED <<whole, passed, early, stops>>

\* The handler of Telethon's album event, which brings all the parts.
FillAlbum ==
    /\ albumAt # 0
    /\ holds' = [holds EXCEPT ![albumAt] = Parts]
    /\ ready' = [ready EXCEPT ![albumAt] = TRUE]
    /\ UNCHANGED <<taken, at, waiting, worker, alerted, albums>>

HearAlbum ==
    /\ ~whole /\ whole' = TRUE
    /\ TakeAlbumPlace(Parts, TRUE) \/ FillAlbum
    /\ UNCHANGED <<heard, passed, early, stops>>

\* The alert was sent: the place goes into the queue the handler knows of, which
\* may be one that nobody serves any more, and the timer of an album starts.
AlertEnds(i) ==
    /\ at[i] \in {"alert", "stray"}
    /\ at' = [at EXCEPT ![i] = IF @ = "alert" THEN "queue" ELSE "lost"]
    /\ waiting' = IF at[i] = "alert" THEN Append(waiting, i) ELSE waiting
    /\ IF holds[i] \subseteq Parts THEN StartTimer(i) ELSE UNCHANGED <<ticking, timerOf>>
    /\ UNCHANGED <<taken, holds, ready, worker, alerted, albumAt, dying>>
    /\ UNCHANGED <<heard, whole, passed, early, stops>>

-----------------------------------------------------------------------------
(* _album_release: it frees the place the album has now, which need not be *)
(* the one it was started for, and in any case forgets that place.         *)

Forget == albumAt' = 0 /\ timerOf' = 0

TimerFires(i) ==
    /\ i \in ticking
    /\ ticking' = ticking \ {i}
    /\ early' = (early \/ ~whole \/ Parts \ heard # {})
    /\ ready' = [j \in Slots |-> ready[j] \/ j = albumAt]
    /\ Forget
    /\ UNCHANGED <<taken, at, holds, waiting, worker, alerted, dying, heard, whole, passed, stops>>

\* A cancelled timer runs its finally.
TimerDies(i) ==
    /\ i \in dying
    /\ dying' = dying \ {i}
    /\ Forget
    /\ UNCHANGED <<places, ticking, heard, whole, passed, early, stops>>

-----------------------------------------------------------------------------
(* _worker, with _spawn and _dispatch, and stop_user.                      *)

WorkerGets ==
    /\ worker.pc = "get" /\ waiting # <<>>
    /\ worker' = [pc |-> "wait", place |-> Head(waiting)]
    /\ waiting' = Tail(waiting)
    /\ at' = [at EXCEPT ![Head(waiting)] = "worker"]
    /\ UNCHANGED <<taken, holds, ready, alerted, albums, heard, whole, passed, early, stops>>

\* For a mutant: every post is left to itself.
Spawn(order) ==
    LET i == worker.place
    IN  /\ at' = [at EXCEPT ![i] = order]
        /\ passed' = [m \in Updates |-> passed[m] + IF m \in holds[i] THEN 1 ELSE 0]
        /\ worker' = [worker EXCEPT !.pc = "get"]
        /\ UNCHANGED <<taken, holds, ready, waiting, alerted, albums, heard, whole, early, stops>>

\* The post is handed to process: left to itself ("fast"), waited for ("strict"),
\* or waited for a while ("grace").
HandOver(order) ==
    LET i == worker.place
    IN  /\ at' = [at EXCEPT ![i] = order]
        /\ passed' = [m \in Updates |-> passed[m] + IF m \in holds[i] THEN 1 ELSE 0]
        /\ worker' = [worker EXCEPT !.pc = IF order = "fast" THEN "get" ELSE "job"]
        /\ UNCHANGED <<taken, holds, ready, waiting, alerted, albums, heard, whole, early, stops>>

WorkerStarts(order) ==
    /\ worker.pc = "wait" /\ ready[worker.place]
    /\ HandOver(order)

\* For a mutant: the worker waits for an album as long as it takes.
WaitForGood(order) == WorkerStarts(order)

\* SLOT_WAIT_SECONDS, longer than ALBUM_SAFETY_SECONDS: it only passes where the
\* timer of the place is not at work any more.
WaitTimesOut(order) ==
    /\ worker.pc = "wait" /\ ~ready[worker.place] /\ worker.place \notin ticking
    /\ HandOver(order)

\* process has ended: the worker goes on, if it was waiting for that post.
ProcessEnds(i) ==
    /\ at[i] \in Orders
    /\ at' = [at EXCEPT ![i] = "over"]
    /\ worker' = IF worker = [pc |-> "job", place |-> i] THEN [worker EXCEPT !.pc = "get"]
                                                         ELSE worker
    /\ UNCHANGED <<taken, holds, ready, waiting, alerted, albums, heard, whole, passed, early>>
    /\ UNCHANGED stops

GraceEnds ==
    /\ worker.pc = "job" /\ at[worker.place] = "grace"
    /\ worker' = [worker EXCEPT !.pc = "get"]
    /\ UNCHANGED <<taken, at, holds, ready, waiting, alerted, albums, heard, whole, passed>>
    /\ UNCHANGED <<early, stops>>

\* stop_user: the queue goes, and the worker with what it does itself; what it
\* spawned goes on.  Only an album whose timer is on record is forgotten.
StopUser ==
    /\ stops < MaxStop /\ stops' = stops + 1
    /\ worker # NoWorker /\ worker' = NoWorker
    /\ waiting' = <<>>
    /\ at' = [i \in Slots |-> CASE at[i] \in {"queue", "worker", "strict"} -> "lost"
                                 [] at[i] = "alert" -> "stray"
                                 [] OTHER -> at[i]]
    /\ IF timerOf # 0
       THEN /\ dying' = dying \cup (ticking \cap {timerOf})
            /\ ticking' = ticking \ {timerOf}
            /\ Forget
       ELSE UNCHANGED albums
    /\ UNCHANGED <<taken, holds, ready, alerted, heard, whole, passed, early>>

Serve == WorkerGets \/ GraceEnds \/ \E order \in Orders : WorkerStarts(order) \/ WaitTimesOut(order)

\* What goes on by itself.
QueueStep == Serve \/ \E i \in Slots : TimerFires(i) \/ ProcessEnds(i)

QueueNext ==
    \/ \E m \in Updates : HearText(m) \/ HearPart(m)
    \/ HearAlbum
    \/ \E i \in Slots : AlertEnds(i) \/ TimerDies(i)
    \/ QueueStep
    \/ StopUser

-----------------------------------------------------------------------------
QueueTypeOK ==
    /\ taken \in 0 .. MaxPlace
    /\ at \in [Slots -> {"free", "alert", "stray", "queue", "worker", "over", "lost"} \cup Orders]
    /\ holds \in [Slots -> SUBSET Updates] /\ ready \in [Slots -> BOOLEAN]
    /\ waiting \in Seq(Slots) /\ alerted \subseteq Slots
    /\ worker \in [pc : {"none", "get", "wait", "job"}, place : 0 .. MaxPlace]
    /\ albumAt \in 0 .. MaxPlace /\ timerOf \in 0 .. MaxPlace
    /\ ticking \subseteq Slots /\ dying \subseteq Slots
    /\ heard \subseteq Updates /\ whole \in BOOLEAN /\ passed \in [Updates -> Nat]
    /\ early \in BOOLEAN /\ stops \in 0 .. MaxStop

\* Posts are handed over in the order they were first heard of, and a post the
\* owner wants in strict order is over before the next is started.  Not so for
\* one whose handler was held up by the alert of a long queue.
OrderKept ==
    \A i, j \in Slots \ alerted :
        i < j /\ at[j] \in Orders \cup {"over"} => at[i] \in {"grace", "fast", "over", "lost"}

\* However the parts of an album, its event and its timer are ordered, every update
\* that came is on its way or was handed over, unless the user was stopped; and once,
\* though Telethon tells of it twice, unless a timer was up before all had come that
\* belongs to its album.
Came == heard \cup (IF whole THEN Parts ELSE {})
OnItsWay(m) == \E i \in Slots : m \in holds[i] /\ at[i] \in {"alert", "queue", "worker"}
HandedOver ==
    stops = 0 => \A m \in Came : /\ OnItsWay(m) \/ passed[m] > 0
                                 /\ passed[m] > 1 => early

\* Both: what came is handed over once, and in its order.
InOrderOnce == OrderKept /\ HandedOver

\* What is in the queue gets out of it, and the worker is done with it: an album
\* whose event never comes, and whose timer was lost too, does not stop the source.
QueueMoves == []<>(\A i \in Slots : at[i] \notin {"queue", "worker"})
=============================================================================
