------------------------- MODULE CopyDeliveryProofs -------------------------
(***************************************************************************)
(* Proofs about CopyDelivery, for every value of its constants.            *)
(*                                                                         *)
(*   Core           types, what each label says of the coroutine's locals, *)
(*                  and the flight lock: inductive by itself               *)
(*   Unsent         a retry that sends finds no row for its destination    *)
(*   CopiesCounted  a copy is backed by a row of the map, by the one send  *)
(*                  that is about to write it, or by a cut                 *)
(*   Ticked         whoever is past the approval gate, and whatever the    *)
(*                  gate let through into a table, has the owner's tick    *)
(*   SlotsCounted   the rows of the retry queue and those who counted it   *)
(*                  with room and have yet to insert share its cap         *)
(*   UnitsCounted   an unused unit is in the locals of the one coroutine   *)
(*                  that charged it                                        *)
(*   DebtsKept      an open debt has a row the retry worker is not about   *)
(*                  to drop (Tries says why), or a coroutine in delivery   *)
(*                                                                         *)
(* Each is proved inductive relative to Core, one lemma for the coroutine  *)
(* that moves and one for the others.  The last part proves that           *)
(* CopyDelivery implements PostDelivery (Implements).                      *)
(***************************************************************************)
EXTENDS CopyDelivery, FiniteSetTheorems, TLAPS

Busy(r) == pc[r] \notin {"idle", "clearing", "marking"}
HasItem(r) == \/ pc[r] \in {"retRead", "retDone", "retFail"}
              \/ Retrying(r) /\ pc[r] \in Flight
LocalsAt(r) ==
    /\ Busy(r) => Post(r) \in Posts
    /\ pc[r] \in {"retRead", "retDone", "retFail", "exhausted"} => Retrying(r)
    /\ pc[r] \in {"enter", "relRead", "relDrop", "relWait", "rejMark",
                  "rejDrop", "clearing", "marking"} \cup Questions => ~Retrying(r)
    /\ HasItem(r) => /\ job[r].item \in ItemIds
                     /\ retryQueue[job[r].item] # NoItem
                     /\ retryQueue[job[r].item].post = Post(r)
    /\ pc[r] \in {"sending", "record", "count", "enqueue"} => job[r].dest \in Dests
    /\ pc[r] \in {"isWaiting", "insert", "recheck"} => job[r].want # "none"

LocalsOK == \A r \in Workers : LocalsAt(r)

\* A coroutine that retires keeps well-typed locals (the early returns).
LEMMA RetireType ==
  ASSUME TypeOK, NEW r \in Workers, Retire(r)
  PROVE  pc' \in [Workers -> Labels] /\ job' \in [Workers -> Jobs]
<1>1. [NoJob EXCEPT !.batch = job[r].batch, !.rows = job[r].rows] \in Jobs
  BY DEF TypeOK, NoJob, Jobs, RowIds, HoldKinds
<1>. QED BY <1>1 DEF TypeOK, Retire, Goto, Keep, Labels

\* Leaving process keeps the lock, the units and the locals well typed.
LEMMA LeaveType ==
  ASSUME TypeOK, NEW r \in Workers, Post(r) \in Posts,
         NEW o \in {"retDone", "retFail"}, Leave(r, o)
  PROVE  /\ inFlight' \subseteq Posts
         /\ units' \in [Posts -> Nat]
         /\ pc' \in [Workers -> Labels] /\ job' \in [Workers -> Jobs]
<1>1. [NoJob EXCEPT !.post = Post(r), !.item = job[r].item] \in Jobs
  BY DEF TypeOK, NoJob, Jobs, RowIds, HoldKinds
<1>2. pc' \in [Workers -> Labels] /\ job' \in [Workers -> Jobs]
  BY <1>1, RetireType DEF TypeOK, Leave, Goto, Keep, Labels
<1>3. units' \in [Posts -> Nat]
  BY DEF TypeOK, Leave
<1>. QED BY <1>2, <1>3 DEF TypeOK, Leave


\* What one coroutine may do.
Step(r) == \/ Work(r) \/ ReleaseList(r) \/ RetryTake(r) \/ Reject(r)
           \/ DropBatch(r) \/ Cancel(r)

\* Every step of a coroutine moves it to a known label.
LEMMA PcType ==
  ASSUME TypeOK, LocalsOK, NEW r \in Workers, Step(r)
  PROVE  pc' \in [Workers -> Labels]
<1> USE DEF TypeOK, Goto, Begin, Start, Retire, Labels, Flight, Gates, Delivering, Questions
<1>1. CASE Sources(r)
  <2>1. CASE LiveTake(r) \/ SweepRound(r) \/ SweepTake(r)
    BY <2>1 DEF LiveTake, SweepRound, SweepTake
  <2>2. CASE SweepAsk(r)
    BY <2>2 DEF SweepAsk, AfterQuestion
  <2>. QED BY <1>1, <2>1, <2>2 DEF Sources
<1>2. CASE Releases(r)
  <2>1. CASE ReleaseTake(r)
    BY <2>1 DEF ReleaseTake
  <2>2. CASE ReleaseRead(r) \/ ReleaseDrop(r) \/ ReleaseTimeout(r)
    BY <2>2 DEF ReleaseRead, ReleaseDrop, ReleaseTimeout
  <2>. QED BY <1>2, <2>1, <2>2 DEF Releases
<1>3. CASE Marks(r)
  BY <1>3 DEF Marks, RejectMark, RejectDrop, ClearBatch, MarkBatch, MarkExhausted
<1>4. CASE Retries(r)
  BY <1>4 DEF Retries, RetryRead, RetryDrop, Reschedule, Postpone
<1>5. CASE Enter(r) \/ StepAside(r) \/ Filter(r) \/ ApprovalGate(r) \/ GapGate(r)
  BY <1>5 DEF Enter, StepAside, Filter, ApprovalGate, GapGate, HoldFor, Leave
<1>6. CASE HoldAsk(r)
  <2>1. CASE pc[r] = "recheck" /\ ~Held(r) /\ job[r].want # "hours"
    <3>1. job[r].want \in {"engagement", "gap", "approval"}
      BY <2>1 DEF LocalsOK, LocalsAt, Jobs, HoldKinds
    <3>. QED BY <1>6, <2>1, <3>1 DEF HoldAsk, AfterHold
  <2>2. CASE ~(pc[r] = "recheck" /\ ~Held(r) /\ job[r].want # "hours")
    BY <1>6, <2>2 DEF HoldAsk, Leave
  <2>. QED BY <2>1, <2>2
<1>7. CASE HoldInsert(r) \/ Admit(r)
  BY <1>7 DEF HoldInsert, Admit, Leave
<1>8. CASE DeliverySteps(r)
  BY <1>8, ZenonT(60) DEF DeliverySteps, Connect, PickDest, Answered, FailedForNow, FailedForGood,
       Forbidden, Raised, Record, CountQueue, Enqueue, Finish, Leave
<1>9. CASE ReleaseList(r) \/ RetryTake(r) \/ Reject(r) \/ DropBatch(r) \/ Cancel(r)
  BY <1>9 DEF ReleaseList, RetryTake, Reject, DropBatch, Cancel, Leave
<1>. QED
  BY <1>1, <1>2, <1>3, <1>4, <1>5, <1>6, <1>7, <1>8, <1>9 DEF Step, Work, GateSteps

\* Every step of a coroutine keeps its locals well typed.
LEMMA JobType ==
  ASSUME TypeOK, LocalsOK, NEW r \in Workers, Step(r)
  PROVE  job' \in [Workers -> Jobs]
<1> USE DEF TypeOK, Begin, Start, Keep
<1>1. job[r] \in Jobs
  OBVIOUS
<1>2. CASE LiveTake(r)
  <2>1. PICK p \in updates : job' = [job EXCEPT ![r] = [NoJob EXCEPT !.post = p]]
    BY <1>2 DEF LiveTake
  <2>2. [NoJob EXCEPT !.post = p] \in Jobs
    BY DEF NoJob, Jobs, RowIds, HoldKinds
  <2>. QED BY <2>1, <2>2
<1>3. CASE SweepRound(r)
  <2>1. PICK b \in SUBSET Posts : job' = [job EXCEPT ![r] = [NoJob EXCEPT !.batch = b]]
    BY <1>3 DEF SweepRound, Present
  <2>2. [NoJob EXCEPT !.batch = b] \in Jobs
    BY DEF NoJob, Jobs, RowIds, HoldKinds
  <2>. QED BY <2>1, <2>2
<1>4. CASE SweepTake(r)
  <2>1. PICK p \in job[r].batch :
          job' = [job EXCEPT ![r] = [NoJob EXCEPT !.post = p, !.batch = job[r].batch \ {p}]]
    BY <1>4 DEF SweepTake
  <2>2. job[r].batch \subseteq Posts
    BY <1>1 DEF Jobs
  <2>3. [NoJob EXCEPT !.post = p, !.batch = job[r].batch \ {p}] \in Jobs
    BY <2>2 DEF NoJob, Jobs, RowIds, HoldKinds
  <2>. QED BY <2>1, <2>3
<1>5. CASE ReleaseList(r)
  <2> DEFINE listed == {<<p, rowId[p]>> : p \in {q \in Posts : pendingPosts[q] = Reason(r)}}
  <2>1. PICK rs \in SUBSET listed : job' = [job EXCEPT ![r] = [NoJob EXCEPT !.rows = rs]]
    BY <1>5 DEF ReleaseList
  <2>2. listed \subseteq Posts \X RowIds
    OBVIOUS
  <2>3. [NoJob EXCEPT !.rows = rs] \in Jobs
    BY <2>2 DEF NoJob, Jobs, RowIds, HoldKinds
  <2>. QED BY <2>1, <2>3
<1>6. CASE ReleaseTake(r)
  <2>1. PICK x \in job[r].rows :
          job' = [job EXCEPT ![r] = [NoJob EXCEPT !.post = x[1], !.row = x[2],
                    !.rows = job[r].rows \ {x}, !.released = Reason(r)]]
    BY <1>6 DEF ReleaseTake
  <2>2. job[r].rows \subseteq Posts \X RowIds
    BY <1>1 DEF Jobs
  <2>3. [NoJob EXCEPT !.post = x[1], !.row = x[2],
                      !.rows = job[r].rows \ {x}, !.released = Reason(r)] \in Jobs
    BY <2>2, ZenonT(60) DEF NoJob, Jobs, RowIds, HoldKinds, Reason
  <2>. QED BY <2>1, <2>3
<1>7. CASE Reject(r)
  <2>1. PICK p \in Posts :
          job' = [job EXCEPT ![r] = [NoJob EXCEPT !.post = p, !.row = rowId[p]]]
    BY <1>7 DEF Reject
  <2>2. [NoJob EXCEPT !.post = p, !.row = rowId[p]] \in Jobs
    BY DEF NoJob, Jobs, RowIds, HoldKinds
  <2>. QED BY <2>1, <2>2
<1>8. CASE DropBatch(r)
  <2>1. PICK b \in SUBSET Posts : job' = [job EXCEPT ![r] = [NoJob EXCEPT !.batch = b]]
    BY <1>8 DEF DropBatch
  <2>2. [NoJob EXCEPT !.batch = b] \in Jobs
    BY DEF NoJob, Jobs, RowIds, HoldKinds
  <2>. QED BY <2>1, <2>2
<1>9. CASE MarkBatch(r)
  <2>1. PICK p \in job[r].batch :
          job' = [job EXCEPT ![r] = [job[r] EXCEPT !.batch = @ \ {p}]]
    BY <1>9 DEF MarkBatch
  <2>2. [job[r] EXCEPT !.batch = @ \ {p}] \in Jobs
    BY <1>1 DEF Jobs
  <2>. QED BY <2>1, <2>2
<1>10. CASE RetryTake(r)
  <2>1. PICK i \in ItemIds :
          /\ retryQueue[i] # NoItem
          /\ job' = [job EXCEPT ![r] = [NoJob EXCEPT !.post = retryQueue[i].post, !.item = i]]
    BY <1>10 DEF RetryTake
  <2>2. retryQueue[i].post \in Posts
    BY <2>1 DEF Items
  <2>3. [NoJob EXCEPT !.post = retryQueue[i].post, !.item = i] \in Jobs
    BY <2>2 DEF NoJob, Jobs, RowIds, HoldKinds
  <2>. QED BY <2>1, <2>3
<1>11. CASE Enter(r)
  <2>1. CASE enabled
    <3>1. Targets(r) \subseteq Dests
      BY DEF Targets
    <3>2. [job[r] EXCEPT !.todo = Targets(r)] \in Jobs
      BY <1>1, <3>1 DEF Jobs
    <3>. QED BY <1>11, <2>1, <3>2 DEF Enter
  <2>2. CASE ~enabled
    BY <1>11, <2>2, RetireType DEF Enter
  <2>. QED BY <2>1, <2>2
<1>12. ASSUME NEW why \in HoldKinds \cup {"approval"}, HoldFor(r, why)
       PROVE  job' \in [Workers -> Jobs]
  <2>1. [job[r] EXCEPT !.want = why] \in Jobs
    BY <1>1 DEF Jobs
  <2>. QED BY <1>12, <2>1 DEF HoldFor
<1>13. CASE ApprovalGate(r) \/ GapGate(r)
  BY <1>12, <1>13 DEF ApprovalGate, GapGate, HoldKinds
<1>14. CASE pc[r] \in Flight /\ (Filter(r) \/ HoldAsk(r) \/ HoldInsert(r) \/ Connect(r)
              \/ Forbidden(r) \/ Raised(r) \/ Finish(r) \/ Cancel(r))
  <2>1. Post(r) \in Posts
    BY <1>14 DEF LocalsOK, LocalsAt, Busy, Flight, Gates, Delivering
  <2>2. CASE Filter(r)
    BY <1>12, <2>1, <2>2, LeaveType, SwitchAssumption DEF Filter
  <2>3. CASE HoldAsk(r) \/ HoldInsert(r) \/ Connect(r)
    BY <2>1, <2>3, LeaveType DEF HoldAsk, HoldInsert, Connect
  <2>4. CASE Forbidden(r) \/ Raised(r) \/ Finish(r) \/ Cancel(r)
    BY <2>1, <2>4, LeaveType DEF Forbidden, Raised, Finish, Cancel
  <2>. QED BY <1>14, <2>2, <2>3, <2>4
<1>15. CASE Admit(r)
  <2>1. Post(r) \in Posts
    BY <1>15 DEF LocalsOK, LocalsAt, Busy, Admit
  <2>2. [job[r] EXCEPT !.unit = TRUE] \in Jobs
    BY <1>1 DEF Jobs
  <2>. QED BY <1>15, <2>1, <2>2, LeaveType DEF Admit
<1>16. CASE PickDest(r)
  <2>1. PICK d \in job[r].todo :
          LET rest == [job[r] EXCEPT !.todo = @ \ {d}]
          IN  \/ job' = [job EXCEPT ![r] = [rest EXCEPT !.already = TRUE]]
              \/ job' = [job EXCEPT ![r] = [rest EXCEPT !.dest = d]]
              \/ job' = [job EXCEPT ![r] = rest]
    BY <1>16 DEF PickDest
  <2> DEFINE rest == [job[r] EXCEPT !.todo = @ \ {d}]
  <2>2. d \in Dests
    BY <1>1 DEF Jobs
  <2>3. rest \in Jobs
    BY <1>1 DEF Jobs
  <2>4. [rest EXCEPT !.already = TRUE] \in Jobs /\ [rest EXCEPT !.dest = d] \in Jobs
    <3> HIDE DEF rest
    <3>. QED BY <2>2, <2>3 DEF Jobs
  <2>. QED BY <2>1, <2>3, <2>4
<1>17. CASE FailedForNow(r)
  <2>1. [job[r] EXCEPT !.failed = TRUE] \in Jobs
    BY <1>1 DEF Jobs
  <2>. QED BY <1>17, <2>1 DEF FailedForNow
<1>18. CASE FailedForGood(r)
  <2>1. [job[r] EXCEPT !.unsendable = TRUE] \in Jobs
    BY <1>1 DEF Jobs
  <2>. QED BY <1>18, <2>1 DEF FailedForGood
<1>19. CASE Record(r)
  <2>1. [job[r] EXCEPT !.sent = TRUE] \in Jobs
    BY <1>1 DEF Jobs
  <2>. QED BY <1>19, <2>1 DEF Record
<1>20. CASE Enqueue(r)
  <2>1. [job[r] EXCEPT !.queued = TRUE] \in Jobs
    BY <1>1 DEF Jobs
  <2>. QED BY <1>20, <2>1 DEF Enqueue
<1>21. CASE Answered(r) \/ CountQueue(r) \/ ReleaseDrop(r) \/ RejectMark(r) \/ ClearBatch(r)
  BY <1>21 DEF Answered, CountQueue, ReleaseDrop, RejectMark, ClearBatch
<1>22. CASE SweepAsk(r) \/ ReleaseRead(r) \/ ReleaseTimeout(r) \/ RejectDrop(r) \/ MarkExhausted(r)
  BY <1>22, RetireType DEF SweepAsk, ReleaseRead, ReleaseTimeout, RejectDrop, MarkExhausted
<1>23. CASE RetryRead(r) \/ RetryDrop(r) \/ Reschedule(r) \/ StepAside(r)
  BY <1>23, RetireType DEF RetryRead, RetryDrop, Reschedule, StepAside, Postpone
<1>24. (Filter(r) \/ HoldAsk(r) \/ HoldInsert(r) \/ Connect(r) \/ Forbidden(r)
          \/ Raised(r) \/ Finish(r) \/ Cancel(r)) => pc[r] \in Flight
  BY DEF Filter, HoldAsk, HoldInsert, Connect, Forbidden, Raised, Finish, Cancel,
         Flight, Gates, Delivering
<1>. QED
  BY <1>2, <1>3, <1>4, <1>5, <1>6, <1>7, <1>8, <1>9, <1>10, <1>11, <1>13, <1>14,
     <1>15, <1>16, <1>17, <1>18, <1>19, <1>20, <1>21, <1>22, <1>23, <1>24
     DEF Step, Work, Sources, Releases, Marks, Retries, GateSteps, DeliverySteps

\* Everything but the coroutines' own variables.
TablesOK ==
    /\ source \in [Posts -> {"future", "present", "deleted"}]
    /\ updates \subseteq Posts
    /\ enabled \in BOOLEAN
    /\ open \subseteq Dests
    /\ inFlight \subseteq Posts
    /\ messageMap \subseteq Pairs
    /\ pendingPosts \in [Posts -> {"none", "approval", "schedule"}]
    /\ rowId \in [Posts -> RowIds]
    /\ retryQueue \in [ItemIds -> Items \cup {NoItem}]
    /\ abandoned \subseteq Posts
    /\ units \in [Posts -> Nat]
    /\ copies \in [Pairs -> Nat]
    /\ approvedBy \subseteq Posts
    /\ queuedOnce \subseteq Posts
    /\ owed \subseteq Pairs
    /\ cuts \in 0 .. MaxCuts

\* Every step of a coroutine keeps the tables and the history well typed.
LEMMA TablesType ==
  ASSUME TypeOK, LocalsOK, NEW r \in Workers, Step(r)
  PROVE  TablesOK'
<1>1. TablesOK
  BY DEF TypeOK, TablesOK
<1>2. job[r] \in Jobs
  BY DEF TypeOK
<1>3. job[r].todo \subseteq Dests /\ job[r].rows \subseteq Posts \X RowIds
      /\ job[r].released \in {"none", "approval", "schedule"}
      /\ job[r].batch \subseteq Posts
  BY <1>2 DEF Jobs
<1>4. Busy(r) => Post(r) \in Posts
  BY DEF LocalsOK, LocalsAt
<1>5. ASSUME NEW ds \in SUBSET Dests, Settle(Post(r), ds)
      PROVE  owed' \subseteq Pairs
  BY <1>1, <1>5 DEF Settle, TablesOK
<1> USE DEF TablesOK, db
<1>6. CASE Sources(r)
  BY <1>1, <1>6 DEF Sources, LiveTake, SweepRound, SweepTake, SweepAsk
<1>7. CASE ReleaseList(r)
  BY <1>1, <1>7 DEF ReleaseList
<1>8. CASE ReleaseTake(r) \/ ReleaseRead(r) \/ ReleaseDrop(r)
  BY <1>1, <1>8 DEF ReleaseTake, ReleaseRead, ReleaseDrop, DropRow
<1>9. CASE ReleaseTimeout(r)
  <2>1. Post(r) \in Posts
    BY <1>4, <1>9 DEF ReleaseTimeout, Busy
  <2>. QED BY <1>1, <1>3, <1>9, <2>1 DEF ReleaseTimeout, InsertRow
<1>10. CASE Marks(r)
  BY <1>1, <1>3, <1>4, <1>10
     DEF Marks, RejectMark, RejectDrop, ClearBatch, MarkBatch, MarkExhausted, DropRow, Busy
<1>11. CASE Reject(r) \/ DropBatch(r) \/ RetryTake(r)
  BY <1>1, <1>11 DEF Reject, DropBatch, RetryTake
<1>12. CASE RetryRead(r)
  BY <1>1, <1>12 DEF RetryRead, Settle
<1>13. CASE RetryDrop(r)
  BY <1>1, <1>13 DEF RetryDrop
<1>14. CASE Reschedule(r)
  <2>1. job[r].item \in ItemIds /\ retryQueue[job[r].item] \in Items
    BY <1>1, <1>14 DEF Reschedule, LocalsOK, LocalsAt, HasItem
  <2>2. Tried(job[r].item) \in Nat /\ ~GivenUp(Tried(job[r].item))
          => [retryQueue[job[r].item] EXCEPT !.attempts = Tried(job[r].item)] \in Items
    BY <2>1, BoundAssumption DEF Items, GivenUp
  <2>3. Tried(job[r].item) \in Nat
    BY <2>1 DEF Items, Tried
  <2>. QED BY <1>1, <1>14, <2>1, <2>2, <2>3 DEF Reschedule, Settle
<1>15. CASE Enter(r)
  BY <1>1, <1>4, <1>15 DEF Enter, MayEnter, Busy, Settle
<1>16. CASE StepAside(r) \/ ApprovalGate(r) \/ GapGate(r)
  BY <1>1, <1>16 DEF StepAside, ApprovalGate, GapGate
<1>17. CASE Filter(r)
  BY <1>1, <1>4, <1>17, LeaveType DEF Filter, Settle, Pause, Busy
<1>18. CASE HoldAsk(r)
  BY <1>1, <1>4, <1>18, LeaveType DEF HoldAsk, Busy
<1>19. CASE HoldInsert(r)
  BY <1>1, <1>4, <1>19, LeaveType DEF HoldInsert, InsertRow, RowReason, Busy
<1>20. CASE Admit(r)
  <2>1. Post(r) \in Posts
    BY <1>4, <1>20 DEF Admit, Busy
  <2>2. {Post(r)} \X job[r].todo \subseteq Pairs
    BY <1>3, <2>1 DEF Pairs
  <2>3. CASE Leave(r, "retDone") /\ UNCHANGED owed
    BY <1>1, <1>20, <2>1, <2>3, LeaveType DEF Admit
  <2>4. CASE /\ units' = [units EXCEPT ![Post(r)] = @ + 1]
             /\ owed' = owed \cup ({Post(r)} \X job[r].todo)
             /\ UNCHANGED inFlight
    BY <1>1, <1>20, <2>1, <2>2, <2>4 DEF Admit
  <2>. QED BY <1>20, <2>3, <2>4 DEF Admit
<1>21. CASE Connect(r)
  BY <1>1, <1>3, <1>4, <1>5, <1>21, LeaveType DEF Connect, Pause, Busy
<1>22. CASE PickDest(r)
  BY <1>1, <1>22 DEF PickDest, Settle
<1>23. CASE Answered(r) \/ FailedForGood(r)
  BY <1>1, <1>23 DEF Answered, FailedForGood, Settle, Shown
<1>24. CASE FailedForNow(r)
  BY <1>1, <1>24, BoundAssumption DEF FailedForNow, Shown
<1>25. CASE Forbidden(r)
  BY <1>1, <1>4, <1>25, LeaveType DEF Forbidden, Settle, Pause, Busy
<1>26. CASE Raised(r)
  BY <1>1, <1>4, <1>26, LeaveType DEF Raised, Settle, Pause, Busy
<1>27. CASE Record(r)
  BY <1>1, <1>4, <1>27 DEF Record, Settle, Pairs, Busy, LocalsOK, LocalsAt
<1>28. CASE CountQueue(r)
  BY <1>1, <1>28 DEF CountQueue, Settle, Pause
<1>29. CASE Enqueue(r)
  <2>1. Post(r) \in Posts /\ job[r].dest \in Dests
    BY <1>4, <1>29 DEF Enqueue, Busy, LocalsOK, LocalsAt
  <2>2. [post |-> Post(r), dest |-> job[r].dest, attempts |-> 0] \in Items
    BY <2>1, BoundAssumption DEF Items
  <2>. QED BY <1>1, <1>29, <2>1, <2>2 DEF Enqueue
<1>30. CASE Finish(r)
  BY <1>1, <1>4, <1>30, LeaveType DEF Finish, Busy
<1>31. CASE Cancel(r)
  BY <1>1, <1>4, <1>31, LeaveType, BoundAssumption
     DEF Cancel, Busy, Flight, Gates, Delivering
<1>. QED
  BY <1>6, <1>7, <1>8, <1>9, <1>10, <1>11, <1>12, <1>13, <1>14, <1>15, <1>16, <1>17,
     <1>18, <1>19, <1>20, <1>21, <1>22, <1>23, <1>24, <1>25, <1>26, <1>27, <1>28,
     <1>29, <1>30, <1>31
     DEF Step, Work, Releases, Retries, GateSteps, DeliverySteps

\* A step of one coroutine leaves the locals of the others alone.
Others(r) == \A s \in Workers : s # r => pc'[s] = pc[s] /\ job'[s] = job[s]

\* A step of one coroutine moves no other one.
LEMMA StepLocal ==
  ASSUME TypeOK, NEW r \in Workers, Step(r)
  PROVE  Others(r)
<1> USE DEF TypeOK, Others, Goto, Keep, Begin, Start, Retire, db
<1>1. CASE Sources(r)
  BY <1>1 DEF Sources, LiveTake, SweepRound, SweepTake, SweepAsk
<1>2. CASE Releases(r)
  BY <1>2 DEF Releases, ReleaseTake, ReleaseRead, ReleaseDrop, ReleaseTimeout
<1>3. CASE Marks(r)
  BY <1>3 DEF Marks, RejectMark, RejectDrop, ClearBatch, MarkBatch, MarkExhausted
<1>4. CASE Retries(r)
  BY <1>4 DEF Retries, RetryRead, RetryDrop, Reschedule, Postpone
<1>5. ASSUME NEW o, Leave(r, o)
      PROVE  Others(r)
  BY <1>5 DEF Leave
<1>6. CASE Enter(r) \/ StepAside(r) \/ ApprovalGate(r) \/ GapGate(r)
  BY <1>6 DEF Enter, StepAside, ApprovalGate, GapGate, HoldFor
<1>7. CASE Filter(r) \/ HoldAsk(r) \/ HoldInsert(r) \/ Admit(r)
  BY <1>5, <1>7 DEF Filter, HoldAsk, HoldInsert, Admit, HoldFor
<1>8. CASE Connect(r) \/ Forbidden(r) \/ Raised(r) \/ Finish(r) \/ Cancel(r)
  BY <1>5, <1>8 DEF Connect, Forbidden, Raised, Finish, Cancel
<1>9. CASE PickDest(r)
  BY <1>9 DEF PickDest
<1>10. CASE Answered(r) \/ FailedForNow(r) \/ FailedForGood(r) \/ Record(r)
            \/ CountQueue(r) \/ Enqueue(r)
  BY <1>10 DEF Answered, FailedForNow, FailedForGood, Record, CountQueue, Enqueue
<1>11. CASE ReleaseList(r) \/ RetryTake(r) \/ Reject(r) \/ DropBatch(r)
  BY <1>11 DEF ReleaseList, RetryTake, Reject, DropBatch
<1>. QED
  BY <1>1, <1>2, <1>3, <1>4, <1>6, <1>7, <1>8, <1>9, <1>10, <1>11
     DEF Step, Work, GateSteps, DeliverySteps

\* How a step touches the lock: it stays outside or inside, takes a free post,
\* or gives its post back.
Outside(r) == pc[r] \notin Flight /\ pc'[r] \notin Flight /\ inFlight' = inFlight
Inside(r) == /\ pc[r] \in Flight /\ pc'[r] \in Flight
             /\ job'[r].post = Post(r) /\ inFlight' = inFlight
Entering(r) == /\ pc[r] \notin Flight /\ pc'[r] = "gate" /\ job'[r].post = Post(r)
               /\ Post(r) \notin inFlight /\ inFlight' = inFlight \cup {Post(r)}
Leaving(r) == /\ pc[r] \in Flight /\ pc'[r] \notin Flight
              /\ inFlight' = inFlight \ {Post(r)}
Lock(r) == Outside(r) \/ Inside(r) \/ Entering(r) \/ Leaving(r)

\* What a step does to the flight lock: takes it, leaves it, or neither.
LEMMA StepLock ==
  ASSUME TypeOK, LocalsOK, NEW r \in Workers, Step(r)
  PROVE  Lock(r)
<1>0. job[r] \in Jobs /\ pc \in [Workers -> Labels] /\ job \in [Workers -> Jobs]
  BY DEF TypeOK
<1> USE DEF Goto, Keep, Begin, Start, Retire, db, Flight, Gates, Delivering
<1>1. CASE Sources(r)
  <2>1. CASE LiveTake(r) \/ SweepRound(r) \/ SweepTake(r)
    BY <1>0, <2>1 DEF LiveTake, SweepRound, SweepTake, Lock, Outside
  <2>2. CASE SweepAsk(r)
    BY <1>0, <2>2 DEF SweepAsk, AfterQuestion, Questions, Lock, Outside
  <2>. QED BY <1>1, <2>1, <2>2 DEF Sources
<1>2. CASE Releases(r)
  BY <1>0, <1>2 DEF Releases, ReleaseTake, ReleaseRead, ReleaseDrop, ReleaseTimeout,
                    Lock, Outside
<1>3. CASE Marks(r)
  BY <1>0, <1>3 DEF Marks, RejectMark, RejectDrop, ClearBatch, MarkBatch, MarkExhausted,
                    Lock, Outside
<1>4. CASE Retries(r)
  BY <1>0, <1>4 DEF Retries, RetryRead, RetryDrop, Reschedule, Postpone, Lock, Outside
<1>5. ASSUME NEW o \in {"retDone", "retFail"}, Leave(r, o), pc[r] \in Flight
      PROVE  Leaving(r)
  BY <1>0, <1>5 DEF Leave, Leaving
<1>6. CASE Enter(r)
  <2>1. pc[r] \notin Flight
    BY <1>6 DEF Enter, MayEnter
  <2>2. CASE enabled
    BY <1>0, <1>6, <2>1, <2>2 DEF Enter, Free, Post, Jobs, Lock, Entering
  <2>3. CASE ~enabled
    BY <1>0, <1>6, <2>1, <2>3 DEF Enter, Lock, Outside
  <2>. QED BY <2>2, <2>3
<1>7. CASE StepAside(r)
  BY <1>0, <1>7 DEF StepAside, Aside, Lock, Outside
<1>8. ASSUME pc[r] \in Flight, NEW why, HoldFor(r, why), inFlight' = inFlight
      PROVE  Inside(r)
  BY <1>0, <1>8 DEF HoldFor, Inside, Post, Jobs
<1>9. ASSUME pc[r] \in Flight, NEW l \in Flight, Goto(r, l), UNCHANGED job, inFlight' = inFlight
      PROVE  Inside(r)
  BY <1>0, <1>9 DEF Inside, Post
<1>10. CASE Filter(r)
  BY <1>5, <1>8, <1>9, <1>10 DEF Filter, Lock
<1>11. CASE ApprovalGate(r) \/ GapGate(r)
  BY <1>8, <1>9, <1>11 DEF ApprovalGate, GapGate, Lock
<1>12. CASE HoldAsk(r)
  <2>1. CASE Leave(r, "retDone")
    BY <1>5, <1>12, <2>1 DEF HoldAsk, Lock
  <2>2. CASE ~Leave(r, "retDone")
    <3>1. pc[r] = "recheck" => job[r].want \in {"engagement", "gap", "approval"}
      BY <1>0, <1>12, <2>2 DEF HoldAsk, LocalsOK, LocalsAt, Jobs, HoldKinds
    <3>2. (IF pc[r] = "isWaiting" THEN "insert" ELSE AfterHold[job[r].want]) \in Flight
      BY <1>12, <3>1 DEF HoldAsk, AfterHold
    <3>. QED BY <1>9, <1>12, <2>2, <3>2 DEF HoldAsk, Lock
  <2>. QED BY <2>1, <2>2
<1>13. CASE HoldInsert(r)
  BY <1>5, <1>9, <1>13 DEF HoldInsert, Lock
<1>14. CASE Admit(r)
  <2>1. CASE Leave(r, "retDone")
    BY <1>5, <1>14, <2>1 DEF Admit, Lock
  <2>2. CASE ~Leave(r, "retDone")
    BY <1>0, <1>14, <2>2 DEF Admit, Lock, Inside, Post, Jobs
  <2>. QED BY <2>1, <2>2
<1>15. CASE Connect(r)
  BY <1>5, <1>9, <1>15 DEF Connect, Lock
<1>16. CASE PickDest(r)
  <2>1. PICK d \in job[r].todo :
          LET rest == [job[r] EXCEPT !.todo = @ \ {d}]
          IN  \/ job' = [job EXCEPT ![r] = [rest EXCEPT !.already = TRUE]] /\ UNCHANGED pc
              \/ /\ job' = [job EXCEPT ![r] = [rest EXCEPT !.dest = d]]
                 /\ pc' = [pc EXCEPT ![r] = "sending"]
              \/ job' = [job EXCEPT ![r] = rest] /\ UNCHANGED pc
    BY <1>16 DEF PickDest
  <2> DEFINE rest == [job[r] EXCEPT !.todo = @ \ {d}]
  <2>2. job'[r].post = Post(r)
    <3>1. rest \in Jobs /\ rest.post = Post(r)
      BY <1>0 DEF Post, Jobs
    <3> HIDE DEF rest
    <3>2. /\ [rest EXCEPT !.already = TRUE].post = Post(r)
          /\ [rest EXCEPT !.dest = d].post = Post(r)
      BY <3>1 DEF Jobs
    <3>. QED BY <1>0, <2>1, <3>1, <3>2 DEF rest
  <2>3. pc'[r] \in Flight /\ pc[r] \in Flight /\ inFlight' = inFlight
    BY <1>0, <1>16, <2>1 DEF PickDest
  <2>. QED BY <2>2, <2>3 DEF Lock, Inside
<1>17. CASE Answered(r) \/ CountQueue(r)
  BY <1>9, <1>17 DEF Answered, CountQueue, Lock
<1>18. CASE FailedForNow(r) \/ FailedForGood(r) \/ Record(r) \/ Enqueue(r)
  BY <1>0, <1>18 DEF FailedForNow, FailedForGood, Record, Enqueue, Lock, Inside, Post, Jobs
<1>19. CASE Forbidden(r)
  BY <1>5, <1>9, <1>19 DEF Forbidden, Lock
<1>20. CASE Raised(r) \/ Finish(r) \/ Cancel(r)
  BY <1>5, <1>20 DEF Raised, Finish, Cancel, Lock
<1>21. CASE ReleaseList(r) \/ RetryTake(r) \/ Reject(r) \/ DropBatch(r)
  BY <1>0, <1>21 DEF ReleaseList, RetryTake, Reject, DropBatch, Lock, Outside
<1>. QED
  BY <1>1, <1>2, <1>3, <1>4, <1>6, <1>7, <1>10, <1>11, <1>12, <1>13, <1>14, <1>15,
     <1>16, <1>17, <1>18, <1>19, <1>20, <1>21
     DEF Step, Work, GateSteps, DeliverySteps

\* The lock keeps its promise through every such step.
LEMMA LockKeeps ==
  ASSUME OneHandler, NEW r \in Workers, Lock(r), Others(r)
  PROVE  OneHandler'
<1>1. \A s \in Workers : pc[s] \in Flight => Post(s) \in inFlight
  BY DEF OneHandler
<1> USE DEF Others, Post
<1>2. CASE Outside(r)
  BY <1>2 DEF Outside, OneHandler
<1>3. CASE Inside(r)
  BY <1>3 DEF Inside, OneHandler
<1>4. CASE Entering(r)
  BY <1>1, <1>4 DEF Entering, OneHandler, Flight, Gates
<1>5. CASE Leaving(r)
  BY <1>5 DEF Leaving, OneHandler
<1>. QED BY <1>2, <1>3, <1>4, <1>5 DEF Lock

\* Only the retry worker takes rows out of the queue or rewrites them.
LEMMA RowsStay ==
  ASSUME TypeOK, LocalsOK, NEW r \in Workers, Step(r),
         NEW i \in ItemIds, retryQueue[i] # NoItem
  PROVE  retryQueue'[i] = retryQueue[i] \/ RetryDrop(r) \/ Reschedule(r)
<1> USE DEF TypeOK, db
<1>1. CASE Sources(r)
  BY <1>1 DEF Sources, LiveTake, SweepRound, SweepTake, SweepAsk
<1>2. CASE Releases(r)
  BY <1>2 DEF Releases, ReleaseTake, ReleaseRead, ReleaseDrop, ReleaseTimeout
<1>3. CASE Marks(r)
  BY <1>3 DEF Marks, RejectMark, RejectDrop, ClearBatch, MarkBatch, MarkExhausted
<1>4. CASE RetryRead(r) \/ ReleaseList(r) \/ RetryTake(r) \/ Reject(r) \/ DropBatch(r) \/ Cancel(r)
  BY <1>4 DEF RetryRead, ReleaseList, RetryTake, Reject, DropBatch, Cancel
<1>5. CASE GateSteps(r)
  BY <1>5 DEF GateSteps, Enter, StepAside, Filter, ApprovalGate, GapGate, HoldAsk,
              HoldInsert, Admit
<1>6. CASE DeliverySteps(r) /\ ~Enqueue(r)
  BY <1>6 DEF DeliverySteps, Connect, PickDest, Answered, FailedForNow, FailedForGood,
              Forbidden, Raised, Record, CountQueue, Finish
<1>7. CASE Enqueue(r)
  BY <1>7 DEF Enqueue
<1>. QED
  BY <1>1, <1>2, <1>3, <1>4, <1>5, <1>6, <1>7 DEF Step, Work, Retries

\* A new row is written by Enqueue, for the post of its coroutine.
LEMMA RowsComeFromEnqueue ==
  ASSUME TypeOK, LocalsOK, NEW r \in Workers, Step(r), ~RetryDrop(r), ~Reschedule(r),
         NEW i \in ItemIds, retryQueue[i] = NoItem, retryQueue'[i] # NoItem
  PROVE  Enqueue(r) /\ retryQueue'[i].post = Post(r)
<1> USE DEF TypeOK, db
<1>1. CASE Sources(r)
  BY <1>1 DEF Sources, LiveTake, SweepRound, SweepTake, SweepAsk
<1>2. CASE Releases(r)
  BY <1>2 DEF Releases, ReleaseTake, ReleaseRead, ReleaseDrop, ReleaseTimeout
<1>3. CASE Marks(r)
  BY <1>3 DEF Marks, RejectMark, RejectDrop, ClearBatch, MarkBatch, MarkExhausted
<1>4. CASE RetryRead(r) \/ ReleaseList(r) \/ RetryTake(r) \/ Reject(r) \/ DropBatch(r) \/ Cancel(r)
  BY <1>4 DEF RetryRead, ReleaseList, RetryTake, Reject, DropBatch, Cancel
<1>5. CASE GateSteps(r)
  BY <1>5 DEF GateSteps, Enter, StepAside, Filter, ApprovalGate, GapGate, HoldAsk,
              HoldInsert, Admit
<1>6. CASE DeliverySteps(r) /\ ~Enqueue(r)
  BY <1>6 DEF DeliverySteps, Connect, PickDest, Answered, FailedForNow, FailedForGood,
              Forbidden, Raised, Record, CountQueue, Finish
<1>7. CASE Enqueue(r)
  <2>1. PICK k \in ItemIds :
          retryQueue' = [retryQueue EXCEPT ![k] =
                          [post |-> Post(r), dest |-> job[r].dest, attempts |-> 0]]
    BY <1>7 DEF Enqueue
  <2>2. i = k
    BY <2>1
  <2>. QED BY <1>7, <2>1, <2>2
<1>. QED
  BY <1>1, <1>2, <1>3, <1>4, <1>5, <1>6, <1>7 DEF Step, Work, Retries

\* The others keep their place, and the retry worker its row.
LEMMA LocalsElsewhere ==
  ASSUME TypeOK, LocalsOK, NEW r \in Workers, Step(r), NEW s \in Workers, s # r
  PROVE  LocalsAt(s)'
<1>1. pc'[s] = pc[s] /\ job'[s] = job[s] /\ LocalsAt(s)
  BY StepLocal DEF Others, LocalsOK
<1>2. CASE HasItem(s)
  <2>1. Retrying(s)
    BY <1>1, <1>2 DEF LocalsAt, HasItem
  <2>2. ~Retrying(r)
    BY <2>1, RetryAssumption DEF Retrying
  <2>3. ~RetryDrop(r) /\ ~Reschedule(r)
    BY <2>2 DEF RetryDrop, Reschedule, LocalsOK, LocalsAt
  <2>4. retryQueue'[job[s].item] = retryQueue[job[s].item]
    BY <1>1, <1>2, <2>3, RowsStay DEF LocalsAt
  <2>. QED
    BY <1>1, <1>2, <2>4 DEF LocalsAt, HasItem, Busy, Post, Retrying
<1>3. CASE ~HasItem(s)
  BY <1>1, <1>3 DEF LocalsAt, HasItem, Busy, Post, Retrying
<1>. QED BY <1>2, <1>3

\* The locals of the coroutine that moves fit its new label.
LEMMA LocalsHere ==
  ASSUME TypeOK, LocalsOK, NEW r \in Workers, Step(r)
  PROVE  LocalsAt(r)'
<1>0. /\ job[r] \in Jobs /\ pc \in [Workers -> Labels] /\ job \in [Workers -> Jobs]
      /\ LocalsAt(r)
  BY DEF TypeOK, LocalsOK
<1>1. ASSUME Retire(r)
      PROVE  LocalsAt(r)'
  BY <1>0, <1>1 DEF Retire, Goto, LocalsAt, Busy, HasItem, Questions, Flight, Gates, Delivering
<1>2. ASSUME NEW o \in {"retDone", "retFail"}, Leave(r, o), pc[r] \in Flight,
             retryQueue' = retryQueue
      PROVE  LocalsAt(r)'
  <2>1. CASE Retrying(r)
    <3>1. /\ pc'[r] = o /\ job'[r].post = Post(r) /\ job'[r].item = job[r].item
      BY <1>0, <1>2, <2>1 DEF Leave, Goto, Keep, NoJob
    <3>2. Post(r) \in Posts /\ job[r].item \in ItemIds /\ retryQueue[job[r].item] # NoItem
          /\ retryQueue[job[r].item].post = Post(r)
      BY <1>0, <1>2, <2>1 DEF LocalsAt, HasItem, Busy, Flight, Gates, Delivering
    <3>. QED
      BY <1>2, <2>1, <3>1, <3>2
         DEF LocalsAt, Busy, HasItem, Questions, Flight, Gates, Delivering, Retrying, Post
  <2>2. CASE ~Retrying(r)
    BY <1>1, <1>2, <2>2 DEF Leave
  <2>. QED BY <2>1, <2>2
<1>3. ASSUME pc[r] \in Flight, pc'[r] \in Flight, retryQueue' = retryQueue,
             job'[r].post = Post(r), job'[r].item = job[r].item,
             pc'[r] \in {"sending", "record", "count", "enqueue"} => job'[r].dest \in Dests,
             pc'[r] \in {"isWaiting", "insert", "recheck"} => job'[r].want # "none"
      PROVE  LocalsAt(r)'
  BY <1>0, <1>3
     DEF LocalsAt, Busy, HasItem, Questions, Flight, Gates, Delivering, Retrying, Post
<1>4. ASSUME ~Retrying(r), pc[r] \notin Flight, pc'[r] \in {"askSent", "enter", "relRead",
               "relDrop", "relWait", "rejMark", "rejDrop"} \cup Questions,
             job'[r].post \in Posts
      PROVE  LocalsAt(r)'
  BY <1>0, <1>4
     DEF LocalsAt, Busy, HasItem, Questions, Flight, Gates, Delivering, Retrying, Post
<1> USE DEF Goto, Keep
<1>5. CASE LiveTake(r)
  <2>1. PICK p \in updates : /\ job'[r] = [NoJob EXCEPT !.post = p]
                             /\ pc'[r] = "enter" /\ pc[r] = "idle"
    BY <1>0, <1>5 DEF LiveTake, Begin
  <2>2. p \in Posts /\ job'[r].post = p
    BY <2>1 DEF TypeOK, NoJob
  <2>. QED
    BY <1>4, <1>5, <2>1, <2>2 DEF LiveTake, Retrying, Flight, Gates, Delivering
<1>6. CASE SweepRound(r) \/ ReleaseList(r)
  <2>1. pc'[r] = "idle"
    BY <1>0, <1>6 DEF SweepRound, ReleaseList, Begin, Start
  <2>. QED BY <2>1 DEF LocalsAt, Busy, HasItem, Questions, Flight, Gates, Delivering
<1>7. CASE SweepTake(r)
  <2>1. PICK p \in job[r].batch :
          /\ job'[r] = [NoJob EXCEPT !.post = p, !.batch = job[r].batch \ {p}]
          /\ pc'[r] = "askSent" /\ pc[r] = "idle"
    BY <1>0, <1>7 DEF SweepTake, Begin
  <2>2. p \in Posts /\ job'[r].post = p
    BY <1>0, <2>1 DEF Jobs, NoJob
  <2>. QED
    BY <1>4, <1>7, <2>1, <2>2 DEF SweepTake, Retrying, Flight, Gates, Delivering
<1>8. CASE SweepAsk(r)
  <2>1. CASE Retire(r)
    BY <1>1, <2>1
  <2>2. CASE ~Retire(r)
    BY <1>0, <1>4, <1>8, <2>2
       DEF SweepAsk, AfterQuestion, Questions, LocalsAt, Busy, Flight, Gates, Delivering, Post
  <2>. QED BY <2>1, <2>2
<1>9. CASE ReleaseTake(r)
  <2>1. PICK x \in job[r].rows :
          /\ job'[r] = [NoJob EXCEPT !.post = x[1], !.row = x[2],
                          !.rows = job[r].rows \ {x}, !.released = Reason(r)]
          /\ pc'[r] = "relRead" /\ pc[r] = "idle"
    BY <1>0, <1>9 DEF ReleaseTake, Begin
  <2>2. x[1] \in Posts /\ job'[r].post = x[1]
    BY <1>0, <2>1 DEF Jobs, NoJob
  <2>3. ~Retrying(r)
    BY <1>9 DEF ReleaseTake, Retrying
  <2>. QED
    BY <1>4, <1>9, <2>1, <2>2, <2>3 DEF Flight, Gates, Delivering
<1>10. CASE ReleaseRead(r) \/ ReleaseDrop(r) \/ ReleaseTimeout(r) \/ RejectMark(r) \/ RejectDrop(r)
  <2>1. CASE Retire(r)
    BY <1>1, <2>1
  <2>2. CASE ~Retire(r)
    BY <1>0, <1>4, <1>10, <2>2
       DEF ReleaseRead, ReleaseDrop, ReleaseTimeout, RejectMark, RejectDrop,
           LocalsAt, Busy, Flight, Gates, Delivering, Post
  <2>. QED BY <2>1, <2>2
<1>11. CASE Reject(r)
  <2>1. PICK p \in Posts : /\ job'[r] = [NoJob EXCEPT !.post = p, !.row = rowId[p]]
                           /\ pc'[r] = "rejMark" /\ pc[r] = "idle"
    BY <1>0, <1>11 DEF Reject, Begin, Start
  <2>2. job'[r].post = p
    BY <2>1 DEF NoJob
  <2>. QED
    BY <1>4, <1>11, <2>1, <2>2 DEF Reject, Retrying, Flight, Gates, Delivering
<1>12. CASE DropBatch(r) \/ ClearBatch(r) \/ MarkBatch(r)
  <2>1. pc'[r] \in {"idle", "clearing", "marking"} /\ ~Retrying(r)
    BY <1>0, <1>12
       DEF DropBatch, ClearBatch, MarkBatch, Begin, Start, LocalsAt, Retrying
  <2>. QED
    BY <2>1 DEF LocalsAt, Busy, HasItem, Questions, Flight, Gates, Delivering, Retrying
<1>13. CASE MarkExhausted(r) \/ RetryDrop(r) \/ StepAside(r)
  BY <1>1, <1>13 DEF MarkExhausted, RetryDrop, StepAside
<1>14. CASE RetryTake(r)
  <2>1. PICK i \in ItemIds :
          /\ retryQueue[i] # NoItem
          /\ job'[r] = [NoJob EXCEPT !.post = retryQueue[i].post, !.item = i]
          /\ pc'[r] = "retRead" /\ retryQueue' = retryQueue /\ Retrying(r)
    BY <1>0, <1>14 DEF RetryTake, Begin, db, Retrying
  <2>2. retryQueue[i].post \in Posts
    BY <2>1 DEF TypeOK, Items
  <2>3. job'[r].post = retryQueue[i].post /\ job'[r].item = i
    BY <2>1 DEF NoJob
  <2>. QED
    BY <2>1, <2>2, <2>3
       DEF LocalsAt, Busy, HasItem, Questions, Flight, Gates, Delivering, Retrying, Post
<1>15. CASE RetryRead(r)
  <2>1. CASE Retire(r)
    BY <1>1, <2>1
  <2>2. CASE ~Retire(r)
    <3>1. pc'[r] \in {"retDone", "retFail"} /\ job' = job /\ pc[r] = "retRead"
          /\ retryQueue' = retryQueue
      BY <1>0, <1>15, <2>2 DEF RetryRead, Postpone, db
    <3>. QED
      BY <1>0, <3>1
         DEF LocalsAt, Busy, HasItem, Questions, Flight, Gates, Delivering, Retrying, Post
  <2>. QED BY <2>1, <2>2
<1>16. CASE Reschedule(r)
  <2>1. CASE Retire(r)
    BY <1>1, <2>1
  <2>2. CASE ~Retire(r)
    <3>1. pc'[r] = "exhausted" /\ job' = job /\ pc[r] = "retFail"
      BY <1>0, <1>16, <2>2 DEF Reschedule
    <3>. QED
      BY <1>0, <3>1
         DEF LocalsAt, Busy, HasItem, Questions, Flight, Gates, Delivering, Retrying, Post
  <2>. QED BY <2>1, <2>2
<1> USE DEF Flight, Gates, Delivering
<1>17. CASE Enter(r)
  <2>1. CASE Retire(r)
    BY <1>1, <2>1
  <2>2. CASE ~Retire(r)
    <3>1. /\ pc[r] \in {"enter", "relWait", "retRead"} /\ pc'[r] = "gate"
          /\ job'[r] = [job[r] EXCEPT !.todo = Targets(r)]
          /\ retryQueue' = retryQueue
      BY <1>0, <1>17, <2>2 DEF Enter, MayEnter, db
    <3>2. job'[r].post = Post(r) /\ job'[r].item = job[r].item
      BY <1>0, <3>1 DEF Jobs, Post
    <3>. QED
      BY <1>0, <3>1, <3>2 DEF LocalsAt, Busy, HasItem, Questions, Retrying, Post
  <2>. QED BY <2>1, <2>2
<1>18. ASSUME NEW why \in HoldKinds \cup {"approval"}, HoldFor(r, why),
              pc[r] \in Flight, retryQueue' = retryQueue
       PROVE  LocalsAt(r)'
  <2>1. pc'[r] = "isWaiting" /\ job'[r] = [job[r] EXCEPT !.want = why]
    BY <1>0, <1>18 DEF HoldFor
  <2>2. job'[r].post = Post(r) /\ job'[r].item = job[r].item /\ job'[r].want # "none"
    BY <1>0, <2>1 DEF Jobs, Post, HoldKinds
  <2>. QED BY <1>3, <1>18, <2>1, <2>2
<1>19. ASSUME pc[r] \in Flight, NEW l \in {"approval", "gap", "admit", "deliver", "next"},
              Goto(r, l), job' = job, retryQueue' = retryQueue
       PROVE  LocalsAt(r)'
  BY <1>0, <1>3, <1>19 DEF Post
<1>20. CASE Filter(r)
  BY <1>2, <1>18, <1>19, <1>20, SwitchAssumption DEF Filter
<1>21. CASE ApprovalGate(r) \/ GapGate(r)
  BY <1>18, <1>19, <1>21 DEF ApprovalGate, GapGate, db, HoldKinds
<1>22. CASE HoldAsk(r)
  <2>1. CASE Leave(r, "retDone")
    BY <1>2, <1>22, <2>1 DEF HoldAsk, db
  <2>2. CASE ~Leave(r, "retDone") /\ pc[r] = "isWaiting"
    BY <1>0, <1>3, <1>22, <2>2 DEF HoldAsk, db, LocalsAt, Post
  <2>3. CASE ~Leave(r, "retDone") /\ pc[r] # "isWaiting"
    <3>1. job[r].want \in {"engagement", "gap", "approval"} /\ pc[r] = "recheck"
      BY <1>0, <1>22, <2>3 DEF HoldAsk, LocalsAt, Jobs, HoldKinds
    <3>. QED BY <1>19, <1>22, <2>3, <3>1 DEF HoldAsk, AfterHold, db
  <2>. QED BY <2>1, <2>2, <2>3
<1>23. CASE HoldInsert(r)
  <2>1. CASE Leave(r, "retDone")
    BY <1>2, <1>23, <2>1 DEF HoldInsert
  <2>2. CASE ~Leave(r, "retDone")
    BY <1>0, <1>3, <1>23, <2>2 DEF HoldInsert, LocalsAt, Post
  <2>. QED BY <2>1, <2>2
<1>24. CASE Admit(r)
  <2>1. CASE Leave(r, "retDone")
    BY <1>2, <1>24, <2>1 DEF Admit, db
  <2>2. CASE ~Leave(r, "retDone")
    <3>1. /\ pc[r] = "admit" /\ pc'[r] = "deliver" /\ retryQueue' = retryQueue
          /\ job'[r] = [job[r] EXCEPT !.unit = TRUE]
      BY <1>0, <1>24, <2>2 DEF Admit, db
    <3>2. job'[r].post = Post(r) /\ job'[r].item = job[r].item
      BY <1>0, <3>1 DEF Jobs, Post
    <3>. QED BY <1>3, <3>1, <3>2
  <2>. QED BY <2>1, <2>2
<1>25. CASE Connect(r)
  BY <1>2, <1>19, <1>25 DEF Connect
<1>26. CASE PickDest(r)
  <2>1. PICK d \in job[r].todo :
          LET rest == [job[r] EXCEPT !.todo = @ \ {d}]
          IN  \/ job' = [job EXCEPT ![r] = [rest EXCEPT !.already = TRUE]] /\ UNCHANGED pc
              \/ /\ job' = [job EXCEPT ![r] = [rest EXCEPT !.dest = d]]
                 /\ pc' = [pc EXCEPT ![r] = "sending"]
              \/ job' = [job EXCEPT ![r] = rest] /\ UNCHANGED pc
    BY <1>26 DEF PickDest
  <2> DEFINE rest == [job[r] EXCEPT !.todo = @ \ {d}]
  <2>2. d \in Dests
    BY <1>0 DEF Jobs
  <2>3. rest \in Jobs /\ rest.post = Post(r) /\ rest.item = job[r].item
    BY <1>0 DEF Post, Jobs
  <2>4. \/ job'[r] = [rest EXCEPT !.already = TRUE] /\ pc'[r] = "next"
        \/ job'[r] = [rest EXCEPT !.dest = d] /\ pc'[r] = "sending"
        \/ job'[r] = rest /\ pc'[r] = "next"
    BY <1>0, <1>26, <2>1 DEF PickDest
  <2>5. pc[r] = "next" /\ retryQueue' = retryQueue
    BY <1>26 DEF PickDest, db
  <2> HIDE DEF rest
  <2>6. job'[r].post = Post(r) /\ job'[r].item = job[r].item
        /\ (pc'[r] = "sending" => job'[r].dest = d)
    BY <2>3, <2>4 DEF Jobs
  <2>. QED BY <1>3, <2>2, <2>4, <2>5, <2>6
<1>27. CASE Answered(r) \/ CountQueue(r)
  <2>1. /\ pc[r] \in Flight /\ pc'[r] \in Flight /\ retryQueue' = retryQueue
        /\ job' = job /\ pc'[r] \notin {"isWaiting", "insert", "recheck"}
        /\ job[r].dest \in Dests
    BY <1>0, <1>27 DEF Answered, CountQueue, db, LocalsAt
  <2>. QED BY <1>3, <2>1 DEF Post
<1>28. CASE FailedForNow(r)
  <2>1. /\ pc[r] = "sending" /\ pc'[r] \in {"next", "count"} /\ retryQueue' = retryQueue
        /\ job'[r] \in {job[r], [job[r] EXCEPT !.failed = TRUE]}
    BY <1>0, <1>28 DEF FailedForNow, db
  <2>2. job'[r].post = Post(r) /\ job'[r].item = job[r].item /\ job'[r].dest \in Dests
    BY <1>0, <2>1 DEF Jobs, Post, LocalsAt
  <2>. QED BY <1>3, <2>1, <2>2
<1>29. CASE FailedForGood(r) \/ Record(r)
  <2>1. /\ pc[r] \in Flight /\ pc'[r] = "next" /\ retryQueue' = retryQueue
        /\ job'[r] \in {[job[r] EXCEPT !.unsendable = TRUE], [job[r] EXCEPT !.sent = TRUE]}
    BY <1>0, <1>29 DEF FailedForGood, Record, db
  <2>2. job'[r].post = Post(r) /\ job'[r].item = job[r].item
    BY <1>0, <2>1 DEF Jobs, Post
  <2>. QED BY <1>3, <2>1, <2>2
<1>30. CASE Forbidden(r)
  BY <1>2, <1>19, <1>30 DEF Forbidden
<1>31. CASE Raised(r) \/ Finish(r)
  BY <1>2, <1>31 DEF Raised, Finish
<1>32. CASE Cancel(r)
  BY <1>2, <1>32 DEF Cancel, db
<1>33. CASE Enqueue(r)
  <2>1. PICK i \in ItemIds :
          /\ retryQueue[i] = NoItem
          /\ retryQueue' = [retryQueue EXCEPT ![i] =
                              [post |-> Post(r), dest |-> job[r].dest, attempts |-> 0]]
    BY <1>33 DEF Enqueue
  <2>2. /\ pc[r] = "enqueue" /\ pc'[r] = "next"
        /\ job'[r] = [job[r] EXCEPT !.queued = TRUE]
    BY <1>0, <1>33 DEF Enqueue
  <2>3. job'[r].post = Post(r) /\ job'[r].item = job[r].item
    BY <1>0, <2>2 DEF Jobs, Post
  <2>4. HasItem(r) => retryQueue'[job[r].item] = retryQueue[job[r].item]
    BY <1>0, <2>1 DEF LocalsAt, TypeOK
  <2>. QED
    BY <1>0, <2>2, <2>3, <2>4 DEF LocalsAt, Busy, HasItem, Questions, Retrying, Post
<1>. QED
  BY <1>5, <1>6, <1>7, <1>8, <1>9, <1>10, <1>11, <1>12, <1>13, <1>14, <1>15, <1>16,
     <1>17, <1>20, <1>21, <1>22, <1>23, <1>24, <1>25, <1>26, <1>27, <1>28, <1>29,
     <1>30, <1>31, <1>32, <1>33
     DEF Step, Work, Sources, Releases, Marks, Retries, GateSteps, DeliverySteps

\* So do those of all coroutines after the step of one.
LEMMA LocalsStep ==
  ASSUME TypeOK, LocalsOK, NEW r \in Workers, Step(r)
  PROVE  LocalsOK'
BY LocalsHere, LocalsElsewhere DEF LocalsOK

\* What is not a coroutine: the source channel, the owner's switch, a crash.
Outer == (\E p \in Posts : Publish(p) \/ Delete(p)) \/ Toggle \/ Crash

\* A step is one of a coroutine, or of the world around them.
LEMMA StepOrOuter == Next => Outer \/ \E r \in Workers : Step(r)
BY DEF Next, Outer, Step

Core == TypeOK /\ LocalsOK /\ OneHandler

\* The core invariant holds at the start.
LEMMA CoreInit == Init => Core
<1> SUFFICES ASSUME Init PROVE Core
  OBVIOUS
<1>1. NoJob \in Jobs
  BY DEF NoJob, Jobs, RowIds, HoldKinds
<1>2. TypeOK
  BY <1>1, BoundAssumption DEF Init, TypeOK, Labels, RowIds, Pairs
<1>3. LocalsOK
  BY DEF Init, LocalsOK, LocalsAt, Busy, HasItem, Questions, Flight, Gates, Delivering
<1>4. OneHandler
  BY DEF Init, OneHandler, Flight, Gates, Delivering
<1>. QED BY <1>2, <1>3, <1>4 DEF Core

\* The channel, the switch and a crash keep the core invariant.
LEMMA CoreOuter == Core /\ Outer => Core'
<1> SUFFICES ASSUME Core, Outer PROVE Core'
  OBVIOUS
<1>1. CASE \E p \in Posts : Publish(p) \/ Delete(p)
  BY <1>1 DEF Core, Publish, Delete, TypeOK, LocalsOK, LocalsAt, OneHandler, Busy, HasItem,
              Post, Retrying, db
<1>2. CASE Toggle
  BY <1>2 DEF Core, Toggle, TypeOK, LocalsOK, LocalsAt, OneHandler, Busy, HasItem, Post, Retrying
<1>3. CASE Crash
  <2>1. NoJob \in Jobs
    BY DEF NoJob, Jobs, RowIds, HoldKinds
  <2>2. TypeOK'
    BY <1>3, <2>1, BoundAssumption DEF Core, Crash, TypeOK, Labels, db
  <2>3. \A r \in Workers : pc'[r] = "idle"
    BY <1>3 DEF Crash
  <2>4. LocalsOK'
    BY <2>3 DEF LocalsOK, LocalsAt, Busy, HasItem, Questions, Flight, Gates, Delivering
  <2>5. OneHandler'
    BY <1>3, <2>3 DEF Crash, OneHandler, Flight, Gates, Delivering
  <2>. QED BY <2>2, <2>4, <2>5 DEF Core
<1>. QED BY <1>1, <1>2, <1>3 DEF Outer

\* Every step keeps the core invariant.
LEMMA CoreStep == Core /\ [Next]_vars => Core'
<1> SUFFICES ASSUME Core, [Next]_vars PROVE Core'
  OBVIOUS
<1>1. CASE Outer
  BY <1>1, CoreOuter
<1>2. ASSUME NEW r \in Workers, Step(r)
      PROVE  Core'
  <2>1. TypeOK'
    BY <1>2, PcType, JobType, TablesType DEF Core, TypeOK, TablesOK
  <2>2. LocalsOK'
    BY <1>2, LocalsStep DEF Core
  <2>3. OneHandler'
    BY <1>2, StepLock, StepLocal, LockKeeps DEF Core
  <2>. QED BY <2>1, <2>2, <2>3 DEF Core
<1>3. CASE UNCHANGED vars
  BY <1>3 DEF vars, db, Core, TypeOK, LocalsOK, LocalsAt, OneHandler, Busy, HasItem,
              Post, Retrying
<1>. QED BY <1>1, <1>2, <1>3, StepOrOuter

\* Types, locals and the flight lock hold for ever.
LEMMA CoreInvariant == Spec => []Core
BY CoreInit, CoreStep, PTL DEF Spec

\* Every variable keeps its type, for any number of posts, destinations and
\* coroutines (the tables and locals of Copier and its workers).
THEOREM TypeCorrect == Spec => []TypeOK
<1>1. Core => TypeOK
  BY DEF Core
<1>. QED BY <1>1, CoreInvariant, PTL

\* Copier._in_flight is a lock: no two coroutines handle the same post, and it
\* holds exactly the posts that are being handled (Copier.process).
THEOREM Exclusive == Spec => []OneHandler
<1>1. Core => OneHandler
  BY DEF Core
<1>. QED BY <1>1, CoreInvariant, PTL

-----------------------------------------------------------------------------
(* Nothing is sent where the map has a row.                                *)

UnsentAt(r) ==
    /\ Retrying(r) \/ SkipDuplicates =>
          (pc[r] \in {"sending", "record"} => <<Post(r), job[r].dest>> \notin messageMap)
    /\ ~Retrying(r) /\ SkipDuplicates =>
          /\ pc[r] \in Delivering => \A d \in job[r].todo : <<Post(r), d>> \notin messageMap
          /\ pc[r] \in {"sending", "record"} => job[r].dest \notin job[r].todo

Unsent == \A r \in Workers : UnsentAt(r)

\* Only Record writes the map, and only an answer of Telegram shows a copy.
LEMMA OnlyRecord ==
  ASSUME NEW r \in Workers, Step(r)
  PROVE  Record(r) \/ messageMap' = messageMap
<1> USE DEF db
<1>1. CASE Sources(r)
  BY <1>1 DEF Sources, LiveTake, SweepRound, SweepTake, SweepAsk
<1>2. CASE Releases(r)
  BY <1>2 DEF Releases, ReleaseTake, ReleaseRead, ReleaseDrop, ReleaseTimeout
<1>3. CASE Marks(r) \/ Retries(r)
  BY <1>3 DEF Marks, RejectMark, RejectDrop, ClearBatch, MarkBatch, MarkExhausted,
              Retries, RetryRead, RetryDrop, Reschedule
<1>4. CASE ReleaseList(r) \/ RetryTake(r) \/ Reject(r) \/ DropBatch(r) \/ Cancel(r)
  BY <1>4 DEF ReleaseList, RetryTake, Reject, DropBatch, Cancel
<1>5. CASE GateSteps(r)
  BY <1>5 DEF GateSteps, Enter, StepAside, Filter, ApprovalGate, GapGate, HoldAsk,
              HoldInsert, Admit
<1>6. CASE DeliverySteps(r)
  BY <1>6 DEF DeliverySteps, Connect, PickDest, Answered, FailedForNow, FailedForGood,
              Forbidden, Raised, CountQueue, Enqueue, Finish
<1>. QED
  BY <1>1, <1>2, <1>3, <1>4, <1>5, <1>6 DEF Step, Work

\* Only an answer of Telegram shows a copy.
LEMMA OnlyAnswer ==
  ASSUME NEW r \in Workers, Step(r)
  PROVE  Answered(r) \/ FailedForNow(r) \/ copies' = copies
<1>1. CASE Sources(r)
  BY <1>1 DEF Sources, LiveTake, SweepRound, SweepTake, SweepAsk
<1>2. CASE Releases(r)
  BY <1>2 DEF Releases, ReleaseTake, ReleaseRead, ReleaseDrop, ReleaseTimeout
<1>3. CASE Marks(r) \/ Retries(r)
  BY <1>3 DEF Marks, RejectMark, RejectDrop, ClearBatch, MarkBatch, MarkExhausted,
              Retries, RetryRead, RetryDrop, Reschedule
<1>4. CASE ReleaseList(r) \/ RetryTake(r) \/ Reject(r) \/ DropBatch(r) \/ Cancel(r)
  BY <1>4 DEF ReleaseList, RetryTake, Reject, DropBatch, Cancel
<1>5. CASE GateSteps(r)
  BY <1>5 DEF GateSteps, Enter, StepAside, Filter, ApprovalGate, GapGate, HoldAsk,
              HoldInsert, Admit
<1>6. CASE DeliverySteps(r)
  BY <1>6 DEF DeliverySteps, Connect, PickDest, FailedForGood,
              Forbidden, Raised, Record, CountQueue, Enqueue, Finish
<1>. QED
  BY <1>1, <1>2, <1>3, <1>4, <1>5, <1>6 DEF Step, Work

\* Which steps lead into delivery, and which go on within it.
LEMMA IntoDelivery ==
  ASSUME Core, NEW r \in Workers, Step(r), pc'[r] \in Delivering
  PROVE  \/ Filter(r) /\ Retrying(r)
         \/ Admit(r) /\ ~Duplicate(Post(r)) /\ UNCHANGED messageMap
               /\ job'[r] = [job[r] EXCEPT !.unit = TRUE] /\ pc'[r] = "deliver"
         \/ DeliverySteps(r) /\ pc[r] \in Delivering
<1>0. pc \in [Workers -> Labels] /\ job \in [Workers -> Jobs]
  BY DEF Core, TypeOK
<1> USE DEF Delivering, Goto, Keep, Begin, Start, Retire
<1>1. CASE DeliverySteps(r)
  BY <1>1 DEF DeliverySteps, Connect, PickDest, Answered, FailedForNow, FailedForGood,
              Forbidden, Raised, Record, CountQueue, Enqueue, Finish
<1>2. CASE Admit(r)
  <2>1. pc[r] = "admit" /\ UNCHANGED messageMap
    BY <1>2 DEF Admit, db
  <2>2. CASE Leave(r, "retDone")
    BY <1>0, <2>2 DEF Leave
  <2>3. CASE ~Leave(r, "retDone")
    BY <1>0, <1>2, <2>1, <2>3 DEF Admit
  <2>. QED BY <2>2, <2>3
<1>3. CASE Filter(r)
  <2>1. CASE Leave(r, "retDone")
    BY <1>0, <2>1 DEF Leave
  <2>2. CASE ~Leave(r, "retDone")
    BY <1>0, <1>3, <2>2 DEF Filter, HoldFor
  <2>. QED BY <2>1, <2>2
<1>4. CASE HoldAsk(r)
  <2>1. CASE Leave(r, "retDone")
    BY <1>0, <2>1 DEF Leave
  <2>2. CASE ~Leave(r, "retDone")
    <3>1. pc[r] = "recheck" => job[r].want \in {"engagement", "gap", "approval"}
      BY <1>0, <1>4, <2>2 DEF HoldAsk, Core, LocalsOK, LocalsAt, Jobs, HoldKinds
    <3>. QED BY <1>0, <1>4, <2>2, <3>1 DEF HoldAsk, AfterHold
  <2>. QED BY <2>1, <2>2
<1>5. CASE HoldInsert(r) \/ Cancel(r)
  BY <1>0, <1>5 DEF HoldInsert, Cancel, Leave
<1>6. CASE Enter(r) \/ StepAside(r) \/ ApprovalGate(r) \/ GapGate(r)
  BY <1>0, <1>6 DEF Enter, StepAside, ApprovalGate, GapGate, HoldFor
<1>7. CASE Releases(r)
  BY <1>0, <1>7 DEF Releases, ReleaseTake, ReleaseRead, ReleaseDrop, ReleaseTimeout
<1>8. CASE Marks(r) \/ Retries(r)
  BY <1>0, <1>8 DEF Marks, RejectMark, RejectDrop, ClearBatch, MarkBatch, MarkExhausted,
              Retries, RetryRead, RetryDrop, Reschedule, Postpone
<1>9. CASE LiveTake(r) \/ SweepRound(r) \/ SweepTake(r)
  BY <1>0, <1>9 DEF LiveTake, SweepRound, SweepTake
<1>10. CASE SweepAsk(r)
  BY <1>0, <1>10 DEF SweepAsk, AfterQuestion, Questions
<1>11. CASE ReleaseList(r) \/ RetryTake(r) \/ Reject(r) \/ DropBatch(r)
  BY <1>0, <1>11 DEF ReleaseList, RetryTake, Reject, DropBatch
<1>. QED
  BY <1>1, <1>2, <1>3, <1>4, <1>5, <1>6, <1>7, <1>8, <1>9, <1>10, <1>11
     DEF Step, Work, Sources, GateSteps

\* A row is written for the post the writer holds, so it is nobody else's.
LEMMA UnsentElsewhere ==
  ASSUME Core, Unsent, NEW r \in Workers, Step(r), NEW s \in Workers, s # r
  PROVE  UnsentAt(s)'
<1>1. pc'[s] = pc[s] /\ job'[s] = job[s] /\ UnsentAt(s)
  BY StepLocal DEF Others, Core, Unsent
<1>2. CASE messageMap' = messageMap
  BY <1>1, <1>2 DEF UnsentAt, Post, Retrying
<1>3. CASE Record(r)
  <2>1. CASE pc[s] \in Flight
    <3>1. Post(r) # Post(s)
      BY <1>3, <2>1 DEF Core, OneHandler, Record, Flight, Delivering
    <3>2. messageMap' = messageMap \cup {<<Post(r), job[r].dest>>}
      BY <1>3 DEF Record
    <3>. QED BY <1>1, <3>1, <3>2 DEF UnsentAt, Post, Retrying
  <2>2. CASE pc[s] \notin Flight
    BY <1>1, <2>2 DEF UnsentAt, Post, Retrying, Flight, Delivering
  <2>. QED BY <2>1, <2>2
<1>. QED BY <1>2, <1>3, OnlyRecord

\* A coroutine that comes to send in a retry has just asked the map.
LEMMA UnsentHere ==
  ASSUME Core, Unsent, NEW r \in Workers, Step(r)
  PROVE  UnsentAt(r)'
<1>0. /\ pc \in [Workers -> Labels] /\ job \in [Workers -> Jobs] /\ job[r] \in Jobs
      /\ UnsentAt(r) /\ LocalsAt(r)
  BY DEF Core, TypeOK, Unsent, LocalsOK
<1>1. CASE pc'[r] \notin Delivering
  BY <1>1 DEF UnsentAt, Delivering
<1> USE DEF Goto, Keep
<1>2. CASE Filter(r) /\ Retrying(r) /\ pc'[r] \in Delivering
  <2>1. CASE Leave(r, "retDone")
    BY <1>0, <1>2, <2>1 DEF Leave, Retire, Delivering
  <2>2. CASE ~Leave(r, "retDone")
    <3>1. pc'[r] = "deliver"
      BY <1>0, <1>2, <2>2 DEF Filter, HoldFor
    <3>. QED BY <1>2, <3>1 DEF UnsentAt, Retrying
  <2>. QED BY <2>1, <2>2
<1>3. CASE /\ Admit(r) /\ ~Duplicate(Post(r)) /\ UNCHANGED messageMap
           /\ job'[r] = [job[r] EXCEPT !.unit = TRUE] /\ pc'[r] = "deliver"
  <2>1. job'[r].post = Post(r) /\ job'[r].todo = job[r].todo /\ job[r].todo \subseteq Dests
    BY <1>0, <1>3 DEF Jobs, Post
  <2>2. SkipDuplicates => \A d \in Dests : <<Post(r), d>> \notin messageMap
    BY <1>3 DEF Duplicate, Sent
  <2>. QED BY <1>3, <2>1, <2>2 DEF UnsentAt, Post
<1>4. CASE DeliverySteps(r) /\ pc[r] \in Delivering /\ pc'[r] \in Delivering
  <2>1. ASSUME NEW o \in {"retDone", "retFail"}, Leave(r, o) PROVE FALSE
    BY <1>0, <1>4, <2>1 DEF Leave, Retire, Delivering
  <2>2. ASSUME UNCHANGED messageMap, job'[r].post = Post(r), job'[r].todo = job[r].todo,
               pc'[r] \notin {"sending", "record"}
        PROVE  UnsentAt(r)'
    BY <1>0, <1>4, <2>2 DEF UnsentAt, Post, Retrying
  <2>3. CASE Connect(r)
    BY <1>0, <2>1, <2>2, <2>3 DEF Connect, Post
  <2>4. CASE PickDest(r)
    <3>1. PICK d \in job[r].todo :
          LET rest == [job[r] EXCEPT !.todo = @ \ {d}]
          IN  \/ job' = [job EXCEPT ![r] = [rest EXCEPT !.already = TRUE]] /\ UNCHANGED pc
              \/ /\ job' = [job EXCEPT ![r] = [rest EXCEPT !.dest = d]]
                 /\ pc' = [pc EXCEPT ![r] = "sending"]
                 /\ ~ArrivedBefore(r, d)
              \/ job' = [job EXCEPT ![r] = rest] /\ UNCHANGED pc
      BY <2>4 DEF PickDest
    <3> DEFINE rest == [job[r] EXCEPT !.todo = @ \ {d}]
    <3>2. rest \in Jobs /\ rest.post = Post(r) /\ rest.todo = job[r].todo \ {d}
      BY <1>0 DEF Post, Jobs
    <3>3. \/ job'[r] = [rest EXCEPT !.already = TRUE] /\ pc'[r] = "next"
          \/ job'[r] = [rest EXCEPT !.dest = d] /\ pc'[r] = "sending" /\ ~ArrivedBefore(r, d)
          \/ job'[r] = rest /\ pc'[r] = "next"
      BY <1>0, <2>4, <3>1 DEF PickDest
    <3>4. UNCHANGED messageMap
      BY <2>4 DEF PickDest, db
    <3> HIDE DEF rest
    <3>5. job'[r].post = Post(r) /\ job'[r].todo = job[r].todo \ {d}
          /\ (pc'[r] = "sending" => job'[r].dest = d)
      BY <3>2, <3>3 DEF Jobs
    <3>6. pc'[r] = "sending" /\ Retrying(r) => <<Post(r), d>> \notin messageMap
      BY <3>3 DEF ArrivedBefore
    <3>. QED BY <1>0, <1>4, <3>3, <3>4, <3>5, <3>6 DEF UnsentAt, Post, Retrying
  <2>5. CASE Answered(r)
    BY <1>0, <1>4, <2>5 DEF Answered, UnsentAt, Post, Retrying, db, Delivering
  <2>6. CASE FailedForNow(r) \/ FailedForGood(r)
    <3>1. /\ job'[r] \in {job[r], [job[r] EXCEPT !.failed = TRUE], [job[r] EXCEPT !.unsendable = TRUE]}
          /\ pc'[r] \in {"next", "count"} /\ UNCHANGED messageMap
      BY <1>0, <2>6 DEF FailedForNow, FailedForGood, db
    <3>2. job'[r].post = Post(r) /\ job'[r].todo = job[r].todo
      BY <1>0, <3>1 DEF Jobs, Post
    <3>. QED BY <2>2, <3>1, <3>2
  <2>7. CASE Forbidden(r)
    BY <1>0, <2>1, <2>2, <2>7 DEF Forbidden, Post
  <2>8. CASE Raised(r) \/ Finish(r)
    BY <2>1, <2>8 DEF Raised, Finish
  <2>9. CASE Record(r)
    <3>1. /\ job'[r] = [job[r] EXCEPT !.sent = TRUE] /\ pc[r] = "record" /\ pc'[r] = "next"
          /\ messageMap' = messageMap \cup {<<Post(r), job[r].dest>>}
      BY <1>0, <2>9 DEF Record
    <3>2. job'[r].post = Post(r) /\ job'[r].todo = job[r].todo
      BY <1>0, <3>1 DEF Jobs, Post
    <3>. QED BY <1>0, <1>4, <3>1, <3>2 DEF UnsentAt, Post, Retrying
  <2>10. CASE CountQueue(r)
    BY <1>0, <2>2, <2>10 DEF CountQueue, Post
  <2>11. CASE Enqueue(r)
    <3>1. /\ job'[r] = [job[r] EXCEPT !.queued = TRUE] /\ pc'[r] = "next" /\ UNCHANGED messageMap
      BY <1>0, <2>11 DEF Enqueue
    <3>2. job'[r].post = Post(r) /\ job'[r].todo = job[r].todo
      BY <1>0, <3>1 DEF Jobs, Post
    <3>. QED BY <2>2, <3>1, <3>2
  <2>. QED
    BY <1>4, <2>3, <2>4, <2>5, <2>6, <2>7, <2>8, <2>9, <2>10, <2>11 DEF DeliverySteps
<1>. QED BY <1>1, <1>2, <1>3, <1>4, IntoDelivery

\* No retry sends what the map already has.
LEMMA UnsentInvariant == Spec => []Unsent
<1>1. Init => Unsent
  BY DEF Init, Unsent, UnsentAt, Delivering
<1>2. Core /\ Unsent /\ [Next]_vars => Unsent'
  <2> SUFFICES ASSUME Core, Unsent, [Next]_vars PROVE Unsent'
    OBVIOUS
  <2>1. ASSUME NEW r \in Workers, Step(r) PROVE Unsent'
    BY <2>1, UnsentHere, UnsentElsewhere DEF Unsent
  <2>2. CASE \E p \in Posts : Publish(p) \/ Delete(p)
    BY <2>2 DEF Publish, Delete, db, Unsent, UnsentAt, Post, Retrying
  <2>3. CASE Toggle
    BY <2>3 DEF Toggle, Unsent, UnsentAt, Post, Retrying
  <2>4. CASE Crash
    BY <2>4 DEF Crash, Unsent, UnsentAt, Delivering
  <2>5. CASE UNCHANGED vars
    BY <2>5 DEF vars, db, Unsent, UnsentAt, Post, Retrying
  <2>. QED BY <2>1, <2>2, <2>3, <2>4, <2>5, StepOrOuter DEF Outer
<1>. QED BY <1>1, <1>2, CoreInvariant, PTL DEF Spec

\* A retry never sends a post to a destination that has a row for it, whatever
\* the other coroutines do and whether or not duplicates are skipped.
THEOREM RetriesFillGaps == Spec => []RetryFillsGaps
<1>1. Unsent => RetryFillsGaps
  BY DEF Unsent, UnsentAt, RetryFillsGaps
<1>. QED BY <1>1, UnsentInvariant, PTL

-----------------------------------------------------------------------------
(* Copies are counted by rows, by coroutines about to write one, and by cuts. *)

RecordingAt(r, x) == pc[r] = "record" /\ <<Post(r), job[r].dest>> = x
Counted(x) == x \in messageMap \/ \E r \in Workers : RecordingAt(r, x)
CopiesCounted ==
    SkipDuplicates =>
        \A x \in Pairs : \/ copies[x] <= cuts
                         \/ Counted(x) /\ copies[x] <= cuts + 1

\* What happens to the coroutine that has shown a post and not written its row.
LEMMA RecordOrCut ==
  ASSUME Core, NEW r \in Workers, Step(r), pc[r] = "record"
  PROVE  Record(r) \/ (Cancel(r) /\ cuts' = cuts + 1 /\ copies' = copies)
<1>1. CASE Cancel(r)
  BY <1>1 DEF Cancel
<1>2. ~DeliverySteps(r) \/ Record(r)
  BY DEF DeliverySteps, Connect, PickDest, Answered, FailedForNow, FailedForGood,
         Forbidden, Raised, CountQueue, Enqueue, Finish
<1>3. ~GateSteps(r)
  BY DEF GateSteps, Enter, MayEnter, StepAside, Aside, Filter, ApprovalGate, GapGate,
         HoldAsk, HoldInsert, Admit
<1>4. ~Sources(r) /\ ~Releases(r)
  BY DEF Sources, LiveTake, SweepRound, SweepTake, SweepAsk, Begin, Questions,
         Releases, ReleaseTake, ReleaseRead, ReleaseDrop, ReleaseTimeout
<1>5. ~Marks(r) /\ ~Retries(r)
  BY DEF Marks, RejectMark, RejectDrop, ClearBatch, MarkBatch, MarkExhausted,
         Retries, RetryRead, RetryDrop, Reschedule
<1>6. ~ReleaseList(r) /\ ~RetryTake(r) /\ ~Reject(r) /\ ~DropBatch(r)
  BY DEF ReleaseList, RetryTake, Reject, DropBatch, Begin, Start
<1>. QED BY <1>1, <1>2, <1>3, <1>4, <1>5, <1>6 DEF Step, Work

\* The number of cuts never falls.
LEMMA CutsGrow ==
  ASSUME TypeOK, NEW r \in Workers, Step(r)
  PROVE  cuts' = cuts \/ cuts' = cuts + 1
<1>1. CASE Sources(r)
  BY <1>1 DEF Sources, LiveTake, SweepRound, SweepTake, SweepAsk
<1>2. CASE Releases(r)
  BY <1>2 DEF Releases, ReleaseTake, ReleaseRead, ReleaseDrop, ReleaseTimeout
<1>3. CASE Marks(r) \/ Retries(r)
  BY <1>3 DEF Marks, RejectMark, RejectDrop, ClearBatch, MarkBatch, MarkExhausted,
              Retries, RetryRead, RetryDrop, Reschedule
<1>4. CASE ReleaseList(r) \/ RetryTake(r) \/ Reject(r) \/ DropBatch(r) \/ Cancel(r)
  BY <1>4 DEF ReleaseList, RetryTake, Reject, DropBatch, Cancel
<1>5. CASE GateSteps(r)
  BY <1>5 DEF GateSteps, Enter, StepAside, Filter, ApprovalGate, GapGate, HoldAsk,
              HoldInsert, Admit
<1>6. CASE DeliverySteps(r)
  BY <1>6 DEF DeliverySteps, Connect, PickDest, Answered, FailedForNow, FailedForGood,
              Forbidden, Raised, Record, CountQueue, Enqueue, Finish
<1>. QED
  BY <1>1, <1>2, <1>3, <1>4, <1>5, <1>6 DEF Step, Work

\* A step of a coroutine keeps every copy accounted for.
LEMMA CopiesStep ==
  ASSUME Core, Unsent, CopiesCounted, SkipDuplicates, NEW r \in Workers, Step(r),
         NEW x \in Pairs
  PROVE  copies'[x] <= cuts' \/ (Counted(x)' /\ copies'[x] <= cuts' + 1)
<1>0. /\ copies[x] \in Nat /\ cuts \in Nat /\ (cuts' = cuts \/ cuts' = cuts + 1)
      /\ pc \in [Workers -> Labels] /\ copies \in [Pairs -> Nat]
  BY CutsGrow, BoundAssumption DEF Core, TypeOK
<1>1. copies[x] <= cuts \/ (Counted(x) /\ copies[x] <= cuts + 1)
  BY DEF CopiesCounted
<1>2. \A s \in Workers : s # r => (RecordingAt(s, x)' <=> RecordingAt(s, x))
  BY StepLocal DEF Core, Others, RecordingAt, Post
<1>3. messageMap \subseteq messageMap'
  BY OnlyRecord DEF Record
<1>4. CASE Record(r)
  <2>1. RecordingAt(r, x) => x \in messageMap'
    BY <1>4 DEF Record, RecordingAt
  <2>2. Counted(x) => Counted(x)'
    BY <1>2, <1>3, <2>1 DEF Counted
  <2>. QED BY <1>0, <1>1, <1>4, <2>2 DEF Record
<1>5. CASE Cancel(r) /\ cuts' = cuts + 1 /\ copies' = copies
  BY <1>0, <1>1, <1>5
<1>6. CASE pc[r] # "record"
  <2>1. Counted(x) => Counted(x)'
    BY <1>2, <1>3, <1>6 DEF Counted, RecordingAt
  <2>2. CASE copies' = copies
    BY <1>0, <1>1, <2>1, <2>2
  <2>3. CASE Answered(r)
    <3>1. CASE copies' = copies
      BY <2>2, <3>1
    <3>2. CASE Shown(r) /\ Goto(r, "record") /\ x = <<Post(r), job[r].dest>>
      <4>1. x \notin messageMap
        BY <2>3, <3>2 DEF Unsent, UnsentAt, Answered
      <4>2. \A s \in Workers : ~RecordingAt(s, x)
        BY <2>3, <3>2
           DEF Answered, RecordingAt, Core, OneHandler, Flight, Delivering, Pairs
      <4>3. copies[x] <= cuts
        BY <1>1, <4>1, <4>2 DEF Counted
      <4>4. copies'[x] = copies[x] + 1
        BY <1>0, <3>2 DEF Shown
      <4>5. RecordingAt(r, x)'
        BY <1>0, <2>3, <3>2 DEF Answered, RecordingAt, Goto, Post
      <4>. QED BY <1>0, <4>3, <4>4, <4>5 DEF Counted
    <3>3. CASE Shown(r) /\ x # <<Post(r), job[r].dest>>
      <4>1. copies'[x] = copies[x]
        BY <1>0, <3>3 DEF Shown
      <4>. QED BY <1>0, <1>1, <2>1, <4>1
    <3>. QED BY <2>3, <3>1, <3>2, <3>3 DEF Answered
  <2>4. CASE FailedForNow(r)
    <3>1. CASE copies' = copies
      BY <2>2, <3>1
    <3>2. CASE Shown(r) /\ cuts' = cuts + 1
      <4>1. copies'[x] = copies[x] \/ copies'[x] = copies[x] + 1
        BY <1>0, <3>2 DEF Shown
      <4>. QED BY <1>0, <1>1, <2>1, <3>2, <4>1
    <3>. QED BY <2>4, <3>1, <3>2 DEF FailedForNow
  <2>. QED BY <2>2, <2>3, <2>4, OnlyAnswer
<1>. QED BY <1>4, <1>5, <1>6, RecordOrCut

\* Every copy is accounted for, for ever.
LEMMA CopiesInvariant == Spec => []CopiesCounted
<1>1. Init => CopiesCounted
  BY DEF Init, CopiesCounted
<1>2. Core /\ Unsent /\ CopiesCounted /\ [Next]_vars => CopiesCounted'
  <2> SUFFICES ASSUME Core, Unsent, CopiesCounted, [Next]_vars PROVE CopiesCounted'
    OBVIOUS
  <2>1. ASSUME NEW r \in Workers, Step(r) PROVE CopiesCounted'
    BY <2>1, CopiesStep DEF CopiesCounted
  <2>2. CASE (\E p \in Posts : Publish(p) \/ Delete(p)) \/ Toggle \/ UNCHANGED vars
    BY <2>2 DEF Publish, Delete, Toggle, vars, db, CopiesCounted, Counted, RecordingAt, Post
  <2>3. CASE Crash
    <3>1. \A x \in Pairs : copies[x] \in Nat /\ cuts \in Nat
      BY BoundAssumption DEF Core, TypeOK
    <3>2. copies' = copies /\ cuts' = cuts + 1
      BY <2>3 DEF Crash
    <3>3. ASSUME SkipDuplicates, NEW x \in Pairs
          PROVE  copies'[x] <= cuts' \/ (Counted(x)' /\ copies'[x] <= cuts' + 1)
      BY <3>1, <3>2, <3>3 DEF CopiesCounted
    <3>. QED BY <3>3 DEF CopiesCounted
  <2>. QED BY <2>1, <2>2, <2>3, StepOrOuter DEF Outer
<1>. QED BY <1>1, <1>2, CoreInvariant, UnsentInvariant, PTL DEF Spec

\* With duplicates skipped, a destination never shows a post twice, but for the
\* crashes, cancellations and lost answers that fall between a send and its row.
THEOREM OncePerCut == Spec => []AtMostOncePerCut
<1>1. Core /\ CopiesCounted => AtMostOncePerCut
  <2> SUFFICES ASSUME Core, CopiesCounted, SkipDuplicates, NEW x \in Pairs
               PROVE  copies[x] <= 1 + cuts
    BY DEF AtMostOncePerCut, SentOnce
  <2>1. copies[x] \in Nat /\ cuts \in Nat
    BY BoundAssumption DEF Core, TypeOK
  <2>. QED BY <2>1 DEF CopiesCounted
<1>. QED BY <1>1, CoreInvariant, CopiesInvariant, PTL

-----------------------------------------------------------------------------
(* With approval on, only a ticked post gets past the approval gate.       *)

Passed(r) == \/ pc[r] \in {"gap", "admit"} \cup Delivering
             \/ pc[r] \in {"isWaiting", "insert", "recheck"} /\ job[r].want = "gap"
TickedAt(r) ==
    /\ Role[r] = "owner" => \A x \in job[r].rows : x[1] \in approvedBy
    /\ job[r].released = "approval" => Post(r) \in approvedBy
    /\ Passed(r) => Post(r) \in approvedBy
    /\ pc[r] = "insert" => ~Waiting(Post(r))
    /\ pc[r] # "recheck"

TickedRows == \A i \in ItemIds : retryQueue[i] # NoItem => retryQueue[i].post \in approvedBy
TickedCopies == \A x \in Pairs : copies[x] > 0 => x[1] \in approvedBy
Ticked == (\A r \in Workers : TickedAt(r)) /\ TickedRows /\ TickedCopies

\* A tick is never taken back.
LEMMA TicksStay ==
  ASSUME NEW r \in Workers, Step(r)
  PROVE  approvedBy \subseteq approvedBy'
<1>1. CASE Sources(r)
  BY <1>1 DEF Sources, LiveTake, SweepRound, SweepTake, SweepAsk
<1>2. CASE Releases(r)
  BY <1>2 DEF Releases, ReleaseTake, ReleaseRead, ReleaseDrop, ReleaseTimeout
<1>3. CASE Marks(r) \/ Retries(r)
  BY <1>3 DEF Marks, RejectMark, RejectDrop, ClearBatch, MarkBatch, MarkExhausted,
              Retries, RetryRead, RetryDrop, Reschedule
<1>4. CASE ReleaseList(r) \/ RetryTake(r) \/ Reject(r) \/ DropBatch(r) \/ Cancel(r)
  BY <1>4 DEF ReleaseList, RetryTake, Reject, DropBatch, Cancel
<1>5. CASE GateSteps(r)
  BY <1>5 DEF GateSteps, Enter, StepAside, Filter, ApprovalGate, GapGate, HoldAsk,
              HoldInsert, Admit
<1>6. CASE DeliverySteps(r)
  BY <1>6 DEF DeliverySteps, Connect, PickDest, Answered, FailedForNow, FailedForGood,
              Forbidden, Raised, Record, CountQueue, Enqueue, Finish
<1>. QED
  BY <1>1, <1>2, <1>3, <1>4, <1>5, <1>6 DEF Step, Work

\* A post gets a waiting row from its handler or from a release that gave up.
LEMMA RowAppears ==
  ASSUME TypeOK, NEW r \in Workers, Step(r), NEW p \in Posts,
         ~Waiting(p), Waiting(p)'
  PROVE  Post(r) = p /\ (HoldInsert(r) \/ ReleaseTimeout(r))
<1> USE DEF TypeOK, Waiting, db
<1>1. CASE Sources(r)
  BY <1>1 DEF Sources, LiveTake, SweepRound, SweepTake, SweepAsk
<1>2. CASE ReleaseTake(r) \/ ReleaseRead(r) \/ ReleaseDrop(r)
  BY <1>2 DEF ReleaseTake, ReleaseRead, ReleaseDrop, DropRow
<1>3. CASE Marks(r) \/ Retries(r)
  BY <1>3 DEF Marks, RejectMark, RejectDrop, ClearBatch, MarkBatch, MarkExhausted,
              Retries, RetryRead, RetryDrop, Reschedule, DropRow
<1>4. CASE ReleaseList(r) \/ RetryTake(r) \/ Reject(r) \/ DropBatch(r) \/ Cancel(r)
  BY <1>4 DEF ReleaseList, RetryTake, Reject, DropBatch, Cancel
<1>5. CASE GateSteps(r) /\ ~HoldInsert(r)
  BY <1>5 DEF GateSteps, Enter, StepAside, Filter, ApprovalGate, GapGate, HoldAsk, Admit
<1>6. CASE DeliverySteps(r)
  BY <1>6 DEF DeliverySteps, Connect, PickDest, Answered, FailedForNow, FailedForGood,
              Forbidden, Raised, Record, CountQueue, Enqueue, Finish
<1>7. CASE HoldInsert(r) \/ ReleaseTimeout(r)
  BY <1>7 DEF HoldInsert, ReleaseTimeout, InsertRow
<1>. QED
  BY <1>1, <1>2, <1>3, <1>4, <1>5, <1>6, <1>7 DEF Step, Work, Releases

\* What others do takes no tick away from a coroutine past the gate.
LEMMA TickedElsewhere ==
  ASSUME Core, Ticked, ~SlowGates, NEW r \in Workers, Step(r), NEW s \in Workers, s # r
  PROVE  TickedAt(s)'
<1>1. pc'[s] = pc[s] /\ job'[s] = job[s] /\ TickedAt(s)
  BY StepLocal DEF Others, Core, Ticked
<1>2. approvedBy \subseteq approvedBy'
  BY TicksStay
<1>3. pc[s] = "insert" => ~Waiting(Post(s))'
  <2> SUFFICES ASSUME pc[s] = "insert", Waiting(Post(s))' PROVE FALSE
    OBVIOUS
  <2>1. Post(s) \in Posts /\ ~Waiting(Post(s))
    BY <1>1 DEF TickedAt, Core, LocalsOK, LocalsAt, Busy
  <2>2. Post(r) = Post(s) /\ (HoldInsert(r) \/ ReleaseTimeout(r))
    <3> DEFINE p == Post(s)
    <3>1. p' = p
      BY <1>1 DEF Post
    <3>2. Waiting(p)' /\ ~Waiting(p) /\ p \in Posts
      BY <2>1
    <3>. QED
      BY <1>1, <2>1, <3>1, <3>2, RowAppears DEF Core, Waiting, Post
  <2>3. CASE HoldInsert(r)
    BY <2>2, <2>3 DEF HoldInsert, Core, OneHandler, Flight, Gates
  <2>4. CASE ReleaseTimeout(r)
    BY <2>2, <2>4 DEF ReleaseTimeout, Core, OneHandler, Flight, Gates, Delivering
  <2>. QED BY <2>2, <2>3, <2>4
<1>. QED BY <1>1, <1>2, <1>3 DEF TickedAt, Passed, Post, Waiting

\* A coroutine passes the approval gate only with the tick.
LEMMA TickedHere ==
  ASSUME Core, Ticked, Approval, NEW r \in Workers, Step(r)
  PROVE  TickedAt(r)'
<1>0. /\ job[r] \in Jobs /\ pc \in [Workers -> Labels] /\ job \in [Workers -> Jobs]
      /\ LocalsAt(r) /\ TickedAt(r) /\ approvedBy \subseteq approvedBy'
  BY TicksStay DEF Core, TypeOK, LocalsOK, Ticked
<1> USE DEF Goto, Keep
\* Same post, same history: the step changes nothing the claim reads.
<1>1. ASSUME job'[r].rows = job[r].rows, job'[r].released = job[r].released,
             job'[r].post = Post(r), pc'[r] \notin {"insert", "recheck"},
             Passed(r)' => Passed(r) \/ Post(r) \in approvedBy
      PROVE  TickedAt(r)'
  BY <1>0, <1>1 DEF TickedAt, Post
\* A new job that no queue has released and that is not past the gate.
<1>2. ASSUME job'[r].rows \subseteq job[r].rows, job'[r].released = "none",
             pc'[r] \in Labels \ (Flight \ {"gate"})
      PROVE  TickedAt(r)'
  BY <1>0, <1>2 DEF TickedAt, Passed, Flight, Gates, Delivering
<1>3. ASSUME Retire(r) PROVE TickedAt(r)'
  <2>1. /\ pc'[r] = "idle" /\ job'[r].rows = job[r].rows /\ job'[r].released = "none"
    BY <1>0, <1>3 DEF Retire, NoJob
  <2>. QED BY <1>2, <2>1 DEF Labels, Flight, Gates, Delivering
<1>4. ASSUME NEW o \in {"retDone", "retFail"}, Leave(r, o) PROVE TickedAt(r)'
  <2>1. CASE Retrying(r)
    <3>1. pc'[r] = o /\ job'[r].rows = {} /\ job'[r].released = "none"
      BY <1>0, <1>4, <2>1 DEF Leave, NoJob
    <3>. QED BY <1>2, <3>1 DEF Labels, Flight, Gates, Delivering
  <2>2. CASE ~Retrying(r)
    BY <1>3, <1>4, <2>2 DEF Leave
  <2>. QED BY <2>1, <2>2
<1>5. ASSUME NEW l \in Labels \ {"insert", "recheck"}, Goto(r, l), job' = job,
             l \in {"gap", "admit"} \cup Delivering => Passed(r) \/ Post(r) \in approvedBy,
             l # "isWaiting"
      PROVE  TickedAt(r)'
  BY <1>0, <1>1, <1>5 DEF Passed, Post
<1>6. ASSUME NEW j \in Jobs, j.rows = {}, j.released = "none",
             NEW l \in Labels \ Flight, Begin(r, l, j)
      PROVE  TickedAt(r)'
  BY <1>0, <1>2, <1>6 DEF Begin
<1>7. CASE LiveTake(r)
  <2>1. PICK p \in Posts : Begin(r, "enter", [NoJob EXCEPT !.post = p])
    BY <1>7 DEF LiveTake, Core, TypeOK
  <2>2. [NoJob EXCEPT !.post = p] \in Jobs
    BY DEF NoJob, Jobs, RowIds, HoldKinds
  <2>3. [NoJob EXCEPT !.post = p].rows = {} /\ [NoJob EXCEPT !.post = p].released = "none"
    BY DEF NoJob
  <2>. QED BY <1>6, <2>1, <2>2, <2>3 DEF Labels, Flight, Gates, Delivering
<1>8. CASE SweepRound(r) \/ DropBatch(r)
  <2>1. PICK b \in SUBSET Posts, l \in {"idle", "clearing"} :
          Begin(r, l, [NoJob EXCEPT !.batch = b])
    BY <1>8 DEF SweepRound, DropBatch, Present, Start
  <2>2. [NoJob EXCEPT !.batch = b] \in Jobs
    BY DEF NoJob, Jobs, RowIds, HoldKinds
  <2>3. [NoJob EXCEPT !.batch = b].rows = {} /\ [NoJob EXCEPT !.batch = b].released = "none"
    BY DEF NoJob
  <2>. QED BY <1>6, <2>1, <2>2, <2>3 DEF Labels, Flight, Gates, Delivering
<1>9. CASE SweepTake(r)
  <2>1. PICK p \in Posts, b \in SUBSET Posts :
          Begin(r, "askSent", [NoJob EXCEPT !.post = p, !.batch = b])
    BY <1>0, <1>9 DEF SweepTake, Jobs
  <2>2. [NoJob EXCEPT !.post = p, !.batch = b] \in Jobs
    BY DEF NoJob, Jobs, RowIds, HoldKinds
  <2>3. [NoJob EXCEPT !.post = p, !.batch = b].rows = {}
        /\ [NoJob EXCEPT !.post = p, !.batch = b].released = "none"
    BY DEF NoJob
  <2>. QED BY <1>6, <2>1, <2>2, <2>3 DEF Labels, Flight, Gates, Delivering, Questions
<1>10. CASE Reject(r)
  <2>1. PICK p \in Posts : Begin(r, "rejMark", [NoJob EXCEPT !.post = p, !.row = rowId[p]])
    BY <1>10 DEF Reject, Start
  <2>2. [NoJob EXCEPT !.post = p, !.row = rowId[p]] \in Jobs
    BY DEF NoJob, Jobs, RowIds, HoldKinds, Core, TypeOK
  <2>3. [NoJob EXCEPT !.post = p, !.row = rowId[p]].rows = {}
        /\ [NoJob EXCEPT !.post = p, !.row = rowId[p]].released = "none"
    BY DEF NoJob
  <2>. QED BY <1>6, <2>1, <2>2, <2>3 DEF Labels, Flight, Gates, Delivering
<1>11. CASE RetryTake(r)
  <2>1. PICK i \in ItemIds, p \in Posts :
          Begin(r, "retRead", [NoJob EXCEPT !.post = p, !.item = i])
    BY <1>11 DEF RetryTake, Core, TypeOK, Items
  <2>2. [NoJob EXCEPT !.post = p, !.item = i] \in Jobs
    BY DEF NoJob, Jobs, RowIds, HoldKinds
  <2>3. [NoJob EXCEPT !.post = p, !.item = i].rows = {}
        /\ [NoJob EXCEPT !.post = p, !.item = i].released = "none"
    BY DEF NoJob
  <2>. QED BY <1>6, <2>1, <2>2, <2>3 DEF Labels, Flight, Gates, Delivering
<1>12. CASE ReleaseList(r)
  <2>1. PICK rs : /\ job'[r] = [NoJob EXCEPT !.rows = rs] /\ pc'[r] = "idle"
                  /\ Role[r] = "owner" => \A x \in rs : x[1] \in approvedBy'
    BY <1>0, <1>12, SMTT(30) DEF ReleaseList, Start, Begin
  <2>2. job'[r].rows = rs /\ job'[r].released = "none"
    BY <2>1 DEF NoJob
  <2>. QED BY <2>1, <2>2 DEF TickedAt, Passed, Delivering
<1>13. CASE ReleaseTake(r)
  <2>1. PICK x \in job[r].rows :
          /\ job'[r] = [NoJob EXCEPT !.post = x[1], !.row = x[2],
                          !.rows = job[r].rows \ {x}, !.released = Reason(r)]
          /\ pc'[r] = "relRead"
    BY <1>0, <1>13 DEF ReleaseTake, Begin
  <2>2. /\ job'[r].post = x[1] /\ job'[r].rows = job[r].rows \ {x}
        /\ job'[r].released = Reason(r)
    BY <2>1 DEF NoJob
  <2>3. Reason(r) = "approval" => Role[r] = "owner"
    BY DEF Reason
  <2>. QED BY <1>0, <2>1, <2>2, <2>3 DEF TickedAt, Passed, Delivering, Post
<1>14. CASE MarkBatch(r)
  <2>1. PICK p : job'[r] = [job[r] EXCEPT !.batch = @ \ {p}] /\ pc'[r] \in {"idle", "marking"}
    BY <1>0, <1>14 DEF MarkBatch
  <2>2. job'[r].rows = job[r].rows /\ job'[r].released = job[r].released /\ job'[r].post = Post(r)
    BY <1>0, <2>1 DEF Jobs, Post
  <2>. QED BY <1>1, <2>1, <2>2 DEF Passed, Delivering
<1>15. CASE SweepAsk(r)
  <2>1. CASE Retire(r)
    BY <1>3, <2>1
  <2>2. CASE ~Retire(r)
    BY <1>5, <1>15, <2>2
       DEF SweepAsk, AfterQuestion, Questions, Labels, Flight, Gates, Delivering
  <2>. QED BY <2>1, <2>2
<1>16. CASE ReleaseRead(r) \/ ReleaseDrop(r) \/ ReleaseTimeout(r) \/ RejectMark(r)
            \/ RejectDrop(r) \/ ClearBatch(r) \/ MarkExhausted(r) \/ StepAside(r)
  <2>1. CASE Retire(r)
    BY <1>3, <2>1
  <2>2. CASE ~Retire(r)
    BY <1>5, <1>16, <2>2
       DEF ReleaseRead, ReleaseDrop, ReleaseTimeout, RejectMark, RejectDrop, ClearBatch,
           MarkExhausted, StepAside, Labels, Flight, Gates, Delivering
  <2>. QED BY <2>1, <2>2
<1>17. CASE RetryRead(r) \/ RetryDrop(r) \/ Reschedule(r)
  <2>1. CASE Retire(r)
    BY <1>3, <2>1
  <2>2. CASE ~Retire(r)
    BY <1>5, <1>17, <2>2
       DEF RetryRead, RetryDrop, Reschedule, Postpone, Labels, Flight, Gates, Delivering
  <2>. QED BY <2>1, <2>2
<1>18. ASSUME NEW why \in HoldKinds \cup {"approval"}, HoldFor(r, why),
              why = "gap" => Passed(r)
       PROVE  TickedAt(r)'
  <2>1. pc'[r] = "isWaiting" /\ job'[r] = [job[r] EXCEPT !.want = why]
    BY <1>0, <1>18 DEF HoldFor
  <2>2. /\ job'[r].rows = job[r].rows /\ job'[r].released = job[r].released
        /\ job'[r].post = Post(r) /\ job'[r].want = why
    BY <1>0, <2>1 DEF Jobs, Post
  <2>. QED BY <1>1, <1>18, <2>1, <2>2 DEF Passed, Delivering
<1>19. Retrying(r) /\ pc[r] \in Flight => Post(r) \in approvedBy
  BY <1>0 DEF LocalsAt, HasItem, Ticked, TickedRows
<1>20. CASE Enter(r)
  <2>1. CASE Retire(r)
    BY <1>3, <2>1
  <2>2. CASE ~Retire(r)
    <3>1. pc'[r] = "gate" /\ job'[r] = [job[r] EXCEPT !.todo = Targets(r)]
      BY <1>0, <1>20, <2>2 DEF Enter
    <3>2. /\ job'[r].rows = job[r].rows /\ job'[r].released = job[r].released
          /\ job'[r].post = Post(r)
      BY <1>0, <3>1 DEF Jobs, Post
    <3>. QED BY <1>1, <3>1, <3>2 DEF Passed, Delivering
  <2>. QED BY <2>1, <2>2
<1>21. CASE Filter(r)
  <2>1. CASE Leave(r, "retDone")
    BY <1>4, <2>1
  <2>2. CASE ~Leave(r, "retDone") /\ UNCHANGED job
    <3>1. Goto(r, IF Retrying(r) THEN "deliver" ELSE "approval") \/
          \E why \in Holds \ {"gap"} : HoldFor(r, why)
      BY <1>21, <2>2 DEF Filter
    <3>2. CASE \E why \in Holds \ {"gap"} : HoldFor(r, why)
      BY <1>18, <3>2, SwitchAssumption
    <3>3. CASE Goto(r, IF Retrying(r) THEN "deliver" ELSE "approval")
      BY <1>5, <1>19, <1>21, <2>2, <3>3 DEF Filter, Labels, Flight, Gates, Delivering
    <3>. QED BY <3>1, <3>2, <3>3
  <2>3. CASE ~Leave(r, "retDone") /\ ~UNCHANGED job
    BY <1>18, <1>21, <2>3, SwitchAssumption DEF Filter
  <2>. QED BY <2>1, <2>2, <2>3
\* The gate itself.
<1>22. CASE ApprovalGate(r)
  <2>1. CASE NeedsTick(r)
    BY <1>18, <1>22, <2>1 DEF ApprovalGate
  <2>2. CASE ~NeedsTick(r)
    <3>1. Post(r) \in approvedBy
      BY <1>0, <2>2 DEF NeedsTick, TickedAt
    <3>. QED BY <1>5, <1>22, <2>2, <3>1 DEF ApprovalGate, Labels, Flight, Gates
  <2>. QED BY <2>1, <2>2
<1>23. CASE GapGate(r)
  <2>1. Passed(r)
    BY <1>23 DEF GapGate, Passed
  <2>. QED BY <1>5, <1>18, <1>23, <2>1 DEF GapGate, HoldKinds, Labels, Flight, Gates
<1>24. CASE HoldAsk(r)
  <2>1. CASE Leave(r, "retDone")
    BY <1>4, <2>1
  <2>2. CASE ~Leave(r, "retDone")
    <3>1. pc[r] = "isWaiting" /\ pc'[r] = "insert" /\ ~Waiting(Post(r)) /\ job' = job
          /\ pendingPosts' = pendingPosts
      BY <1>0, <1>24, <2>2 DEF HoldAsk, TickedAt, Held, db
    <3>. QED BY <1>0, <3>1 DEF TickedAt, Passed, Post, Waiting, Delivering
  <2>. QED BY <2>1, <2>2
<1>25. CASE HoldInsert(r)
  BY <1>0, <1>4, <1>25 DEF HoldInsert, TickedAt
<1>26. CASE Admit(r)
  <2>1. CASE Leave(r, "retDone")
    BY <1>4, <2>1
  <2>2. CASE ~Leave(r, "retDone")
    <3>1. /\ pc[r] = "admit" /\ pc'[r] = "deliver"
          /\ job'[r] = [job[r] EXCEPT !.unit = TRUE]
      BY <1>0, <1>26, <2>2 DEF Admit
    <3>2. /\ job'[r].rows = job[r].rows /\ job'[r].released = job[r].released
          /\ job'[r].post = Post(r)
      BY <1>0, <3>1 DEF Jobs, Post
    <3>. QED BY <1>1, <3>1, <3>2 DEF Passed
  <2>. QED BY <2>1, <2>2
<1>27. CASE DeliverySteps(r) \/ Cancel(r)
  <2>1. CASE Leave(r, "retDone") \/ Leave(r, "retFail")
    BY <1>4, <2>1
  <2> DEFINE same == /\ job'[r].rows = job[r].rows /\ job'[r].released = job[r].released
                     /\ job'[r].post = Post(r)
  <2>2. ASSUME pc[r] \in Delivering, pc'[r] \in Delivering, same
        PROVE  TickedAt(r)'
    BY <1>1, <2>2 DEF Passed, Delivering
  <2> SUFFICES ASSUME ~Leave(r, "retDone"), ~Leave(r, "retFail") PROVE TickedAt(r)'
    BY <2>1
  <2>3. CASE PickDest(r)
    <3>1. PICK d \in job[r].todo :
          LET rest == [job[r] EXCEPT !.todo = @ \ {d}]
          IN  \/ job' = [job EXCEPT ![r] = [rest EXCEPT !.already = TRUE]]
              \/ job' = [job EXCEPT ![r] = [rest EXCEPT !.dest = d]]
              \/ job' = [job EXCEPT ![r] = rest]
      BY <2>3 DEF PickDest
    <3> DEFINE rest == [job[r] EXCEPT !.todo = @ \ {d}]
    <3>2. rest \in Jobs /\ rest.post = Post(r) /\ rest.rows = job[r].rows
          /\ rest.released = job[r].released
      BY <1>0 DEF Post, Jobs
    <3>3. job'[r] \in {[rest EXCEPT !.already = TRUE], [rest EXCEPT !.dest = d], rest}
      BY <1>0, <3>1
    <3> HIDE DEF rest
    <3>4. same
      BY <3>2, <3>3 DEF Jobs
    <3>5. pc[r] \in Delivering /\ pc'[r] \in Delivering
      BY <1>0, <2>3 DEF PickDest, Delivering
    <3>. QED BY <2>2, <3>4, <3>5
  <2>4. CASE Connect(r) \/ Answered(r) \/ Forbidden(r) \/ CountQueue(r)
    <3>1. pc[r] \in Delivering /\ pc'[r] \in Delivering /\ job' = job
      BY <1>0, <2>4 DEF Connect, Answered, Forbidden, CountQueue, Delivering
    <3>. QED BY <2>2, <3>1 DEF Post
  <2>5. CASE FailedForNow(r) \/ FailedForGood(r) \/ Record(r) \/ Enqueue(r)
    <3>1. /\ pc[r] \in Delivering /\ pc'[r] \in Delivering
          /\ job'[r] \in {job[r], [job[r] EXCEPT !.failed = TRUE],
                          [job[r] EXCEPT !.unsendable = TRUE],
                          [job[r] EXCEPT !.sent = TRUE], [job[r] EXCEPT !.queued = TRUE]}
      BY <1>0, <2>5 DEF FailedForNow, FailedForGood, Record, Enqueue, Delivering
    <3>2. same
      BY <1>0, <3>1 DEF Jobs, Post
    <3>. QED BY <2>2, <3>1, <3>2
  <2>6. ~Raised(r) /\ ~Finish(r) /\ ~Cancel(r)
    BY DEF Raised, Finish, Cancel
  <2>. QED BY <1>27, <2>3, <2>4, <2>5, <2>6 DEF DeliverySteps
<1>. QED
  BY <1>7, <1>8, <1>9, <1>10, <1>11, <1>12, <1>13, <1>14, <1>15, <1>16, <1>17, <1>20,
     <1>21, <1>22, <1>23, <1>24, <1>25, <1>26, <1>27
     DEF Step, Work, Sources, Releases, Marks, Retries, GateSteps

\* A queue row is written, and a copy shown, by a coroutine that is past the gate.
LEMMA TickedTables ==
  ASSUME Core, Ticked, NEW r \in Workers, Step(r)
  PROVE  (TickedRows /\ TickedCopies)'
<1>0. /\ LocalsAt(r) /\ TickedAt(r) /\ approvedBy \subseteq approvedBy' /\ TypeOK
      /\ TickedRows /\ TickedCopies /\ LocalsOK
  BY TicksStay DEF Core, Ticked, LocalsOK
<1>1. TickedCopies'
  <2> SUFFICES ASSUME NEW x \in Pairs, copies'[x] > 0 PROVE x[1] \in approvedBy'
    BY DEF TickedCopies
  <2>1. CASE copies'[x] = copies[x]
    BY <1>0, <2>1 DEF TickedCopies
  <2>2. CASE copies'[x] # copies[x]
    <3>1. Answered(r) \/ FailedForNow(r)
      BY <2>2, OnlyAnswer
    <3>2. pc[r] = "sending" /\ x = <<Post(r), job[r].dest>>
      BY <1>0, <2>2, <3>1 DEF Answered, FailedForNow, Shown, TypeOK
    <3>. QED BY <1>0, <3>2 DEF TickedAt, Passed, Delivering
  <2>. QED BY <2>1, <2>2
<1>2. TickedRows'
  <2> SUFFICES ASSUME NEW i \in ItemIds, retryQueue'[i] # NoItem
               PROVE  retryQueue'[i].post \in approvedBy'
    BY DEF TickedRows
  <2>1. CASE retryQueue[i] # NoItem
    <3>1. CASE retryQueue'[i] = retryQueue[i]
      BY <1>0, <2>1, <3>1 DEF TickedRows
    <3>2. CASE RetryDrop(r) \/ Reschedule(r)
      <4>1. retryQueue[i] \in Items /\ job[r].item \in ItemIds
        BY <1>0, <2>1, <3>2 DEF TypeOK, LocalsAt, HasItem, RetryDrop, Reschedule
      <4>2. \/ retryQueue'[i] \in {retryQueue[i], NoItem}
            \/ retryQueue'[i] = [retryQueue[i] EXCEPT !.attempts = Tried(job[r].item)]
        BY <1>0, <3>2, <4>1 DEF RetryDrop, Reschedule, TypeOK
      <4>3. retryQueue'[i].post = retryQueue[i].post
        BY <4>1, <4>2 DEF Items
      <4>. QED BY <1>0, <2>1, <4>3 DEF TickedRows
    <3>. QED BY <1>0, <2>1, <3>1, <3>2, RowsStay
  <2>2. CASE retryQueue[i] = NoItem
    <3>1. ~RetryDrop(r)
      BY <1>0, <2>2 DEF RetryDrop, TypeOK
    <3>2. ~Reschedule(r)
      BY <1>0, <2>2 DEF Reschedule, LocalsAt, HasItem, TypeOK
    <3>3. Enqueue(r) /\ retryQueue'[i].post = Post(r)
      BY <1>0, <2>2, <3>1, <3>2, RowsComeFromEnqueue
    <3>. QED BY <1>0, <3>3 DEF Enqueue, TickedAt, Passed, Delivering
  <2>. QED BY <2>1, <2>2
<1>. QED BY <1>1, <1>2

\* Whatever is past the approval gate has the tick, for ever.
LEMMA TickedInvariant ==
  ASSUME Approval, ~SlowGates
  PROVE  Spec => []Ticked
<1>1. Init => Ticked
  BY DEF Init, Ticked, TickedAt, TickedRows, TickedCopies, Passed, Delivering, NoJob
<1>2. Core /\ Ticked /\ [Next]_vars => Ticked'
  <2> SUFFICES ASSUME Core, Ticked, [Next]_vars PROVE Ticked'
    OBVIOUS
  <2>1. ASSUME NEW r \in Workers, Step(r) PROVE Ticked'
    BY <2>1, TickedHere, TickedElsewhere, TickedTables DEF Ticked
  <2>2. CASE \E p \in Posts : Publish(p) \/ Delete(p)
    BY <2>2 DEF Publish, Delete, db, Ticked, TickedAt, TickedRows, TickedCopies, Passed, Post, Waiting
  <2>3. CASE Toggle
    BY <2>3 DEF Toggle, Ticked, TickedAt, TickedRows, TickedCopies, Passed, Post, Waiting
  <2>4. CASE Crash
    BY <2>4 DEF Crash, db, Ticked, TickedAt, TickedRows, TickedCopies, Passed, Delivering, NoJob
  <2>5. CASE UNCHANGED vars
    BY <2>5 DEF vars, db, Ticked, TickedAt, TickedRows, TickedCopies, Passed, Post, Waiting
  <2>. QED BY <2>1, <2>2, <2>3, <2>4, <2>5, StepOrOuter DEF Outer
<1>. QED BY <1>1, <1>2, CoreInvariant, PTL DEF Spec

\* With approval on, no destination ever shows a post its owner did not tick:
\* not through another path, a retry, a second hold or a restart.  It needs the
\* gates to be quicker than IN_FLIGHT_WAIT.
THEOREM NothingUnticked ==
  ASSUME ~SlowGates
  PROVE  Spec => []ApprovedFirst
<1>1. CASE Approval
  <2>1. Ticked => ApprovedFirst
    BY DEF Ticked, TickedCopies, ApprovedFirst
  <2>2. Spec => []Ticked
    BY <1>1, TickedInvariant
  <2>. QED BY <2>1, <2>2, PTL
<1>2. CASE ~Approval
  <2>1. TypeOK => ApprovedFirst
    BY <1>2 DEF ApprovedFirst
  <2>. QED BY <2>1, TypeCorrect, PTL
<1>. QED BY <1>1, <1>2

-----------------------------------------------------------------------------
(* How the retry worker goes through process, and the cap of its queue.    *)

\* A retry skips the gates that hold a post, and never queues it anew.
Straight(r) ==
    Retrying(r) => pc[r] \notin {"approval", "gap", "admit", "isWaiting", "insert",
                                 "recheck", "count", "enqueue"}
Straights == \A r \in Workers : Straight(r)

\* No step leads the retry worker to a gate that holds, or to the count.
LEMMA StraightHere ==
  ASSUME Core, Straights, NEW r \in Workers, Step(r)
  PROVE  Straight(r)'
<1>0. /\ pc \in [Workers -> Labels] /\ Straight(r) /\ LocalsAt(r)
  BY DEF Core, TypeOK, LocalsOK, Straights
<1> SUFFICES ASSUME Retrying(r) PROVE Straight(r)'
  BY DEF Straight, Retrying
<1> USE DEF Goto, Keep, Begin, Start, Retire, Straight, Retrying
<1>1. CASE Sources(r)
  BY <1>0, <1>1 DEF Sources, LiveTake, SweepRound, SweepTake, SweepAsk, LocalsAt
<1>2. CASE Releases(r)
  BY <1>0, <1>2 DEF Releases, ReleaseTake, ReleaseRead, ReleaseDrop, ReleaseTimeout
<1>3. CASE Marks(r) \/ Retries(r)
  BY <1>0, <1>3 DEF Marks, RejectMark, RejectDrop, ClearBatch, MarkBatch, MarkExhausted,
              Retries, RetryRead, RetryDrop, Reschedule, Postpone
<1>4. CASE ReleaseList(r) \/ RetryTake(r) \/ Reject(r) \/ DropBatch(r) \/ Cancel(r)
  BY <1>0, <1>4 DEF ReleaseList, RetryTake, Reject, DropBatch, Cancel, Leave
<1>5. CASE GateSteps(r)
  <2>1. ~ApprovalGate(r) /\ ~GapGate(r) /\ ~HoldAsk(r) /\ ~HoldInsert(r) /\ ~Admit(r)
    BY <1>0 DEF ApprovalGate, GapGate, HoldAsk, HoldInsert, Admit
  <2>. QED BY <1>0, <1>5, <2>1 DEF GateSteps, Enter, StepAside, Filter, HoldFor, Leave
<1>6. CASE DeliverySteps(r)
  BY <1>0, <1>6 DEF DeliverySteps, Connect, PickDest, Answered, FailedForNow, FailedForGood,
              Forbidden, Raised, Record, CountQueue, Enqueue, Finish, Leave
<1>. QED
  BY <1>1, <1>2, <1>3, <1>4, <1>5, <1>6 DEF Step, Work

\* The retry worker only ever hurries to the send.
LEMMA StraightInvariant == Spec => []Straights
<1>1. Init => Straights
  BY DEF Init, Straights, Straight
<1>2. Core /\ Straights /\ [Next]_vars => Straights'
  <2> SUFFICES ASSUME Core, Straights, [Next]_vars PROVE Straights'
    OBVIOUS
  <2>1. ASSUME NEW r \in Workers, Step(r) PROVE Straights'
    <3>1. ASSUME NEW s \in Workers, s # r PROVE Straight(s)'
      BY <2>1, <3>1, StepLocal DEF Core, Others, Straights, Straight, Retrying
    <3>. QED BY <2>1, <3>1, StraightHere DEF Straights
  <2>2. CASE (\E p \in Posts : Publish(p) \/ Delete(p)) \/ Toggle \/ UNCHANGED vars
    BY <2>2 DEF Publish, Delete, Toggle, vars, Straights, Straight, Retrying
  <2>3. CASE Crash
    BY <2>3 DEF Crash, Straights, Straight
  <2>. QED BY <2>1, <2>2, <2>3, StepOrOuter DEF Outer
<1>. QED BY <1>1, <1>2, CoreInvariant, PTL DEF Spec

-----------------------------------------------------------------------------
(* The retry queue: its rows, and those who have counted but not inserted.  *)

Rows == {i \in ItemIds : retryQueue[i] # NoItem}
Counters == {r \in Workers : pc[r] = "enqueue"}
Queuers == {r \in Workers : ~Retrying(r)}
SlotsCounted ==
    Cardinality(Rows) + Cardinality(Counters) <= RetryCap + Cardinality(Queuers) - 1

\* All three are finite, and only those who queue count.
LEMMA QueueSizes ==
  ASSUME Straights
  PROVE  /\ IsFiniteSet(Rows) /\ IsFiniteSet(Counters) /\ IsFiniteSet(Queuers)
         /\ Cardinality(Rows) \in Nat /\ Cardinality(Counters) \in Nat
         /\ Cardinality(Queuers) \in Nat
         /\ Cardinality(Counters) <= Cardinality(Queuers)
<1>1. Rows \subseteq ItemIds /\ Queuers \subseteq Workers
  BY DEF Rows, Queuers
<1>2. Counters \subseteq Queuers
  BY DEF Counters, Queuers, Straights, Straight
<1>3. IsFiniteSet(Rows) /\ IsFiniteSet(Queuers)
  BY <1>1, FiniteAssumption, FS_Subset
<1>4. IsFiniteSet(Counters) /\ Cardinality(Counters) <= Cardinality(Queuers)
  BY <1>2, <1>3, FS_Subset
<1>. QED BY <1>3, <1>4, FS_CardinalityType

\* Who comes to insert has just counted a queue with room.
LEMMA OnlyCount ==
  ASSUME Core, NEW r \in Workers, Step(r), pc'[r] = "enqueue"
  PROVE  CountQueue(r) /\ ~QueueFull
<1>0. pc \in [Workers -> Labels]
  BY DEF Core, TypeOK
<1>1. DeliverySteps(r) /\ pc[r] \in Delivering
  <2>1. ~Filter(r)
    BY <1>0 DEF Filter, Leave, Goto, HoldFor, Retire
  <2>. QED BY <1>0, <2>1, IntoDelivery DEF Delivering
<1>. QED
  BY <1>0, <1>1 DEF DeliverySteps, Connect, PickDest, Answered, FailedForNow, FailedForGood,
              Forbidden, Raised, Record, CountQueue, Enqueue, Finish, Leave, Goto, Retire, Delivering

\* A step of a coroutine keeps the count.
LEMMA SlotsStep ==
  ASSUME Core, Straights, Straights', SlotsCounted, NEW r \in Workers, Step(r)
  PROVE  SlotsCounted'
<1>0. pc' \in [Workers -> Labels] /\ retryQueue \in [ItemIds -> Items \cup {NoItem}]
      /\ pc \in [Workers -> Labels] /\ RetryCap \in Nat
  BY PcType, BoundAssumption DEF Core, TypeOK
<1>1. Queuers' = Queuers
  BY DEF Queuers, Retrying
<1>2. /\ IsFiniteSet(Rows) /\ IsFiniteSet(Counters) /\ IsFiniteSet(Queuers)
      /\ Cardinality(Rows) \in Nat /\ Cardinality(Counters) \in Nat
      /\ Cardinality(Queuers) \in Nat
  BY QueueSizes
<1>3. /\ Cardinality(Rows') \in Nat /\ Cardinality(Counters') \in Nat
      /\ Cardinality(Counters') <= Cardinality(Queuers)
      /\ IsFiniteSet(Rows') /\ IsFiniteSet(Counters')
  <2>1. Counters' \subseteq Queuers
    BY DEF Counters, Queuers, Straights, Straight, Retrying
  <2>2. Rows' \subseteq ItemIds
    BY DEF Rows
  <2>. QED BY <1>2, <2>1, <2>2, FiniteAssumption, FS_Subset, FS_CardinalityType
<1>4. \A s \in Workers : s # r => pc'[s] = pc[s]
  BY StepLocal DEF Core, Others
<1>5. CASE Enqueue(r)
  <2>1. PICK k \in ItemIds : /\ retryQueue[k] = NoItem
                             /\ retryQueue' = [retryQueue EXCEPT ![k] =
                                 [post |-> Post(r), dest |-> job[r].dest, attempts |-> 0]]
    BY <1>5 DEF Enqueue
  <2>2. Rows' \subseteq Rows \cup {k} /\ k \notin Rows
    BY <1>0, <2>1 DEF Rows
  <2>3. Counters' \subseteq Counters \ {r} /\ r \in Counters
    BY <1>0, <1>4, <1>5 DEF Enqueue, Goto, Counters
  <2>4. IsFiniteSet(Rows \cup {k}) /\ Cardinality(Rows \cup {k}) = Cardinality(Rows) + 1
    BY <1>2, <2>2, FS_AddElement
  <2>5. IsFiniteSet(Counters \ {r}) /\ Cardinality(Counters \ {r}) = Cardinality(Counters) - 1
    BY <1>2, <2>3, FS_RemoveElement
  <2>6. Cardinality(Rows') <= Cardinality(Rows) + 1
        /\ Cardinality(Counters') <= Cardinality(Counters) - 1
    BY <2>2, <2>3, <2>4, <2>5, FS_Subset
  <2>. QED BY <1>0, <1>1, <1>2, <1>3, <2>6 DEF SlotsCounted
<1>6. CASE ~Enqueue(r)
  <2>1. Rows' \subseteq Rows
    <3> SUFFICES ASSUME NEW i \in ItemIds, retryQueue[i] = NoItem, retryQueue'[i] # NoItem
                 PROVE  FALSE
      BY DEF Rows
    <3>1. CASE RetryDrop(r)
      BY <1>0, <3>1 DEF RetryDrop
    <3>2. CASE Reschedule(r)
      <4>1. job[r].item \in ItemIds /\ retryQueue[job[r].item] # NoItem
        BY <3>2 DEF Reschedule, Core, LocalsOK, LocalsAt, HasItem
      <4>. QED BY <1>0, <3>2, <4>1 DEF Reschedule
    <3>. QED BY <1>6, <3>1, <3>2, RowsComeFromEnqueue DEF Core
  <2>2. Cardinality(Rows') <= Cardinality(Rows)
    BY <1>2, <2>1, FS_Subset
  <2>3. CASE pc'[r] = "enqueue"
    <3>1. CountQueue(r) /\ ~QueueFull
      BY <2>3, OnlyCount
    <3>2. Cardinality(Rows) < RetryCap
      BY <1>0, <1>2, <3>1 DEF QueueFull, QueueLength, Rows
    <3>. QED BY <1>0, <1>1, <1>2, <1>3, <2>2, <3>2 DEF SlotsCounted
  <2>4. CASE pc'[r] # "enqueue"
    <3>1. Counters' \subseteq Counters
      BY <1>4, <2>4 DEF Counters
    <3>2. Cardinality(Counters') <= Cardinality(Counters)
      BY <1>2, <3>1, FS_Subset
    <3>. QED BY <1>0, <1>1, <1>2, <1>3, <2>2, <3>2 DEF SlotsCounted
  <2>. QED BY <2>3, <2>4
<1>. QED BY <1>5, <1>6

\* The retry queue passes its cap by no more than the coroutines that had read
\* its length before the others inserted, for any number of them
\* (Copier._enqueue_retry), wherever one coroutine is not the retry worker.
THEOREM QueueBounded ==
  ASSUME \E r \in Workers : ~Retrying(r)
  PROVE  Spec => []QueueNearCap
<1>1. Init => SlotsCounted
  <2> SUFFICES ASSUME Init PROVE SlotsCounted
    OBVIOUS
  <2>1. Rows = {} /\ Counters = {}
    BY DEF Init, Rows, Counters
  <2>2. Cardinality(Rows) = 0 /\ Cardinality(Counters) = 0
    BY <2>1, FS_EmptySet
  <2>3. IsFiniteSet(Queuers)
    BY FiniteAssumption, FS_Subset DEF Queuers
  <2>4. Cardinality(Queuers) \in Nat /\ Cardinality(Queuers) # 0
    BY <2>3, FS_EmptySet, FS_CardinalityType DEF Queuers
  <2>. QED BY <2>2, <2>4, BoundAssumption DEF SlotsCounted
<1>2. Core /\ Straights /\ Straights' /\ SlotsCounted /\ [Next]_vars => SlotsCounted'
  <2> SUFFICES ASSUME Core, Straights, Straights', SlotsCounted, [Next]_vars
               PROVE  SlotsCounted'
    OBVIOUS
  <2>1. ASSUME NEW r \in Workers, Step(r) PROVE SlotsCounted'
    BY <2>1, SlotsStep
  <2>2. CASE (\E p \in Posts : Publish(p) \/ Delete(p)) \/ Toggle \/ UNCHANGED vars
    <3>1. Rows' = Rows /\ Counters' = Counters /\ Queuers' = Queuers
      BY <2>2 DEF Publish, Delete, Toggle, vars, db, Rows, Counters, Queuers, Retrying
    <3>. QED BY <3>1 DEF SlotsCounted
  <2>3. CASE Crash
    <3>1. Rows' = Rows /\ Counters' = {} /\ Queuers' = Queuers
      BY <2>3 DEF Crash, db, Rows, Counters, Queuers, Retrying
    <3>2. Cardinality(Counters') = 0
      BY <3>1, FS_EmptySet
    <3>3. Cardinality(Rows) \in Nat /\ Cardinality(Counters) \in Nat
          /\ Cardinality(Queuers) \in Nat
      BY QueueSizes
    <3>. QED BY <3>1, <3>2, <3>3, BoundAssumption DEF SlotsCounted
  <2>. QED BY <2>1, <2>2, <2>3, StepOrOuter DEF Outer
<1>3. Straights /\ SlotsCounted => QueueNearCap
  <2> SUFFICES ASSUME Straights, SlotsCounted PROVE QueueNearCap
    OBVIOUS
  <2>1. /\ Cardinality(Rows) \in Nat /\ Cardinality(Counters) \in Nat
        /\ Cardinality(Queuers) \in Nat
    BY QueueSizes
  <2>2. Cardinality(Rows) <= RetryCap + Cardinality(Queuers) - 1
    BY <2>1, BoundAssumption DEF SlotsCounted
  <2>. QED BY <2>2 DEF QueueNearCap, QueueLength, Rows, Queuers
<1>. QED BY <1>1, <1>2, <1>3, CoreInvariant, StraightInvariant, PTL DEF Spec

-----------------------------------------------------------------------------
(* The unit of quota a coroutine has charged.                              *)

UnitAt(r) ==
    /\ job[r].unit => pc[r] \in Delivering
    /\ Delivered(r) => Sent(Post(r))
    /\ job[r].queued => Post(r) \in queuedOnce
UnitsAt == \A r \in Workers : UnitAt(r)

HasUnit(r, p) == Post(r) = p /\ job[r].unit
UnitsCounted ==
    cuts = 0 =>
        \A p \in Posts : ~Sent(p) /\ p \notin queuedOnce =>
            \/ units[p] = 0
            \/ units[p] = 1 /\ \E r \in Workers : HasUnit(r, p)

\* What a step does with the unit of its coroutine: keeps it, charges one, or
\* goes out of process, where it comes back; outside delivery there is none.
Fresh(r) == /\ ~job'[r].unit /\ ~job'[r].sent /\ ~job'[r].already /\ ~job'[r].queued
Arrived(r) == \E d \in Dests : <<Post(r), d>> \in messageMap'
Carries(r) == /\ job'[r].post = Post(r)
              /\ job'[r].unit = job[r].unit
              /\ job'[r].sent => job[r].sent \/ Arrived(r)
              /\ job'[r].already => job[r].already \/ Arrived(r)
              /\ job'[r].queued => job[r].queued \/ Post(r) \in queuedOnce'
              /\ pc[r] \in Delivering => pc'[r] \in Delivering
Charges(r) == /\ pc[r] = "admit" /\ pc'[r] = "deliver"
              /\ job'[r] = [job[r] EXCEPT !.unit = TRUE]
              /\ units' = [units EXCEPT ![Post(r)] = @ + 1]
Refunds(r) == /\ pc[r] \in Flight
              /\ units' = IF Refund(r) /\ units[Post(r)] > 0
                          THEN [units EXCEPT ![Post(r)] = @ - 1] ELSE units
UnitMove(r) == \/ Fresh(r) /\ pc[r] \notin Flight /\ units' = units
               \/ Fresh(r) /\ Refunds(r)
               \/ Carries(r) /\ units' = units
               \/ Charges(r)

\* Every step does one of these.
LEMMA UnitMoves ==
  ASSUME Core, NEW r \in Workers, Step(r)
  PROVE  UnitMove(r)
<1>0. /\ pc \in [Workers -> Labels] /\ job \in [Workers -> Jobs] /\ job[r] \in Jobs
  BY DEF Core, TypeOK
<1> USE DEF Goto, Keep, db
<1>1. ASSUME Retire(r) PROVE Fresh(r)
  BY <1>0, <1>1 DEF Retire, NoJob, Fresh
<1>2. ASSUME NEW l, NEW j \in Jobs, Begin(r, l, j), units' = units,
             ~j.unit, ~j.sent, ~j.already, ~j.queued
      PROVE  UnitMove(r)
  BY <1>0, <1>2 DEF Begin, Fresh, UnitMove, Flight, Gates, Delivering
<1>3. ASSUME NEW o \in {"retDone", "retFail"}, Leave(r, o), pc[r] \in Flight
      PROVE  UnitMove(r)
  <2>1. CASE Retrying(r)
    <3>1. Fresh(r)
      BY <1>0, <1>3, <2>1 DEF Leave, NoJob, Fresh
    <3>2. Refunds(r)
      BY <1>3 DEF Leave, Refunds
    <3>. QED BY <3>1, <3>2 DEF UnitMove
  <2>2. CASE ~Retrying(r)
    BY <1>1, <1>3, <2>2 DEF Leave, Refunds, UnitMove
  <2>. QED BY <2>1, <2>2
<1>4. ASSUME UNCHANGED <<job, units>>, pc[r] \in Delivering => pc'[r] \in Delivering
      PROVE  UnitMove(r)
  BY <1>0, <1>4 DEF Carries, UnitMove, Post, Jobs
<1>5. ASSUME NEW why, HoldFor(r, why), units' = units, pc[r] \notin Delivering
      PROVE  UnitMove(r)
  BY <1>0, <1>5 DEF HoldFor, Carries, UnitMove, Post, Jobs
<1>6. CASE Sources(r)
  <2>1. CASE LiveTake(r) \/ SweepRound(r) \/ SweepTake(r)
    BY <1>0, <2>1, ZenonT(60) DEF LiveTake, SweepRound, SweepTake, Begin, NoJob, Fresh, UnitMove,
                      Flight, Gates, Delivering
  <2>2. CASE SweepAsk(r)
    BY <1>1, <1>4, <2>2 DEF SweepAsk, UnitMove, Questions, Flight, Gates, Delivering
  <2>. QED BY <1>6, <2>1, <2>2 DEF Sources
<1>7. CASE Releases(r)
  <2>1. CASE ReleaseTake(r)
    BY <1>0, <2>1 DEF ReleaseTake, Begin, NoJob, Fresh, UnitMove, Flight, Gates, Delivering
  <2>2. CASE ReleaseRead(r) \/ ReleaseDrop(r) \/ ReleaseTimeout(r)
    BY <1>0, <1>1, <1>4, <2>2 DEF ReleaseRead, ReleaseDrop, ReleaseTimeout, UnitMove,
                      Flight, Gates, Delivering
  <2>. QED BY <1>7, <2>1, <2>2 DEF Releases
<1>8. CASE Marks(r)
  <2>1. CASE MarkBatch(r)
    BY <1>0, <2>1 DEF MarkBatch, Carries, UnitMove, Post, Jobs, Delivering
  <2>2. CASE ~MarkBatch(r)
    BY <1>0, <1>1, <1>4, <1>8, <2>2
       DEF Marks, RejectMark, RejectDrop, ClearBatch, MarkExhausted, UnitMove,
           Flight, Gates, Delivering
  <2>. QED BY <2>1, <2>2
<1>9. CASE Retries(r)
  BY <1>0, <1>1, <1>4, <1>9 DEF Retries, RetryRead, RetryDrop, Reschedule, Postpone, UnitMove,
           Flight, Gates, Delivering
<1>10. CASE ReleaseList(r) \/ RetryTake(r) \/ Reject(r) \/ DropBatch(r)
  <2>1. pc[r] \notin Flight /\ units' = units
    BY <1>0, <1>10 DEF ReleaseList, RetryTake, Reject, DropBatch, Start, Begin,
                       Flight, Gates, Delivering
  <2>2. CASE ReleaseList(r) \/ DropBatch(r)
    BY <1>0, <2>1, <2>2 DEF ReleaseList, DropBatch, Start, Begin, NoJob, Fresh, UnitMove
  <2>3. CASE RetryTake(r)
    BY <1>0, <2>1, <2>3 DEF RetryTake, Begin, NoJob, Fresh, UnitMove
  <2>4. CASE Reject(r)
    BY <1>0, <2>1, <2>4 DEF Reject, Start, Begin, NoJob, Fresh, UnitMove
  <2>. QED BY <1>10, <2>2, <2>3, <2>4
<1>11. CASE Enter(r) \/ StepAside(r)
  <2>1. pc[r] \notin Flight
    BY <1>11 DEF Enter, MayEnter, StepAside, Aside, Flight, Gates, Delivering
  <2>2. CASE Retire(r) /\ units' = units
    BY <1>1, <2>1, <2>2 DEF UnitMove
  <2>3. CASE job' = [job EXCEPT ![r] = [job[r] EXCEPT !.todo = Targets(r)]] /\ units' = units
    BY <1>0, <2>1, <2>3 DEF Carries, UnitMove, Post, Jobs, Flight
  <2>. QED BY <1>11, <2>2, <2>3 DEF Enter, StepAside
<1>12. CASE Filter(r)
  BY <1>0, <1>3, <1>4, <1>5, <1>12 DEF Filter, Flight, Gates, Delivering
<1>13. CASE ApprovalGate(r) \/ GapGate(r)
  BY <1>0, <1>4, <1>5, <1>13 DEF ApprovalGate, GapGate, Delivering
<1>14. CASE HoldAsk(r) \/ HoldInsert(r)
  BY <1>0, <1>3, <1>4, <1>14 DEF HoldAsk, HoldInsert, Flight, Gates, Delivering
<1>15. CASE Admit(r)
  BY <1>0, <1>3, <1>15 DEF Admit, Charges, UnitMove, Flight, Gates
<1>16. CASE PickDest(r)
  <2>1. PICK d \in job[r].todo :
          LET rest == [job[r] EXCEPT !.todo = @ \ {d}]
          IN  \/ /\ job' = [job EXCEPT ![r] = [rest EXCEPT !.already = TRUE]]
                 /\ UNCHANGED pc /\ ArrivedBefore(r, d)
              \/ /\ job' = [job EXCEPT ![r] = [rest EXCEPT !.dest = d]]
                 /\ pc' = [pc EXCEPT ![r] = "sending"]
              \/ job' = [job EXCEPT ![r] = rest] /\ UNCHANGED pc
    BY <1>16 DEF PickDest
  <2> DEFINE rest == [job[r] EXCEPT !.todo = @ \ {d}]
  <2>2. rest \in Jobs /\ rest.post = Post(r) /\ rest.unit = job[r].unit
        /\ rest.sent = job[r].sent /\ rest.already = job[r].already
        /\ rest.queued = job[r].queued
    BY <1>0 DEF Post, Jobs
  <2>3. d \in Dests /\ messageMap' = messageMap /\ units' = units
    BY <1>0, <1>16 DEF Jobs, PickDest
  <2>4. pc'[r] \in Delivering
    BY <1>0, <1>16, <2>1 DEF PickDest, Delivering
  <2>5. ArrivedBefore(r, d) => Arrived(r)
    BY <2>3 DEF ArrivedBefore, Arrived
  <2>6. \/ job'[r] = [rest EXCEPT !.already = TRUE] /\ ArrivedBefore(r, d)
        \/ job'[r] = [rest EXCEPT !.dest = d]
        \/ job'[r] = rest
    BY <1>0, <2>1
  <2> HIDE DEF rest
  <2>7. Carries(r)
    BY <2>2, <2>4, <2>5, <2>6 DEF Carries, Jobs
  <2>. QED BY <2>3, <2>7 DEF UnitMove
<1>17. CASE Answered(r) \/ CountQueue(r)
  BY <1>0, <1>4, <1>17 DEF Answered, CountQueue, Delivering
<1>18. CASE Connect(r) \/ Forbidden(r) \/ Raised(r) \/ Finish(r) \/ Cancel(r)
  BY <1>0, <1>3, <1>4, <1>18 DEF Connect, Forbidden, Raised, Finish, Cancel, Flight, Delivering
<1>19. CASE FailedForNow(r) \/ FailedForGood(r)
  <2>1. /\ job'[r] \in {job[r], [job[r] EXCEPT !.failed = TRUE], [job[r] EXCEPT !.unsendable = TRUE]}
        /\ pc'[r] \in {"next", "count"} /\ units' = units
    BY <1>0, <1>19 DEF FailedForNow, FailedForGood
  <2>. QED BY <1>0, <2>1 DEF Carries, UnitMove, Post, Jobs, Delivering
<1>20. CASE Record(r)
  <2>1. /\ job'[r] = [job[r] EXCEPT !.sent = TRUE] /\ pc'[r] = "next" /\ units' = units
        /\ messageMap' = messageMap \cup {<<Post(r), job[r].dest>>} /\ job[r].dest \in Dests
    BY <1>0, <1>20 DEF Record, Core, LocalsOK, LocalsAt
  <2>2. Arrived(r)
    BY <2>1 DEF Arrived
  <2>. QED BY <1>0, <2>1, <2>2 DEF Carries, UnitMove, Post, Jobs, Delivering
<1>21. CASE Enqueue(r)
  <2>1. /\ job'[r] = [job[r] EXCEPT !.queued = TRUE] /\ pc'[r] = "next" /\ units' = units
        /\ queuedOnce' = queuedOnce \cup {Post(r)}
    BY <1>0, <1>21 DEF Enqueue
  <2>. QED BY <1>0, <2>1 DEF Carries, UnitMove, Post, Jobs, Delivering
<1>. QED
  BY <1>6, <1>7, <1>8, <1>9, <1>10, <1>11, <1>12, <1>13, <1>14, <1>15, <1>16, <1>17,
     <1>18, <1>19, <1>20, <1>21 DEF Step, Work, GateSteps, DeliverySteps

\* The map and the retry history only grow.
LEMMA HistoryGrows ==
  ASSUME NEW r \in Workers, Step(r)
  PROVE  messageMap \subseteq messageMap' /\ queuedOnce \subseteq queuedOnce'
<1>0. messageMap \subseteq messageMap'
  BY OnlyRecord DEF Record
<1>1. CASE Sources(r)
  BY <1>0, <1>1 DEF Sources, LiveTake, SweepRound, SweepTake, SweepAsk
<1>2. CASE Releases(r)
  BY <1>0, <1>2 DEF Releases, ReleaseTake, ReleaseRead, ReleaseDrop, ReleaseTimeout
<1>3. CASE Marks(r) \/ Retries(r)
  BY <1>0, <1>3 DEF Marks, RejectMark, RejectDrop, ClearBatch, MarkBatch, MarkExhausted,
              Retries, RetryRead, RetryDrop, Reschedule
<1>4. CASE ReleaseList(r) \/ RetryTake(r) \/ Reject(r) \/ DropBatch(r) \/ Cancel(r)
  BY <1>0, <1>4 DEF ReleaseList, RetryTake, Reject, DropBatch, Cancel
<1>5. CASE GateSteps(r)
  BY <1>0, <1>5 DEF GateSteps, Enter, StepAside, Filter, ApprovalGate, GapGate, HoldAsk,
              HoldInsert, Admit
<1>6. CASE DeliverySteps(r)
  BY <1>0, <1>6 DEF DeliverySteps, Connect, PickDest, Answered, FailedForNow, FailedForGood,
              Forbidden, Raised, Record, CountQueue, Enqueue, Finish
<1>. QED BY <1>0, <1>1, <1>2, <1>3, <1>4, <1>5, <1>6 DEF Step, Work

\* What a coroutine remembers of its unit stays true when any coroutine moves.
LEMMA UnitsAtStep ==
  ASSUME Core, UnitsAt, NEW r \in Workers, Step(r)
  PROVE  UnitsAt'
<1>0. /\ pc \in [Workers -> Labels] /\ job \in [Workers -> Jobs] /\ job[r] \in Jobs
      /\ UnitAt(r) /\ job' \in [Workers -> Jobs]
  BY JobType DEF Core, TypeOK, UnitsAt
<1>1. messageMap \subseteq messageMap' /\ queuedOnce \subseteq queuedOnce'
  BY HistoryGrows
<1>2. ASSUME NEW s \in Workers, s # r PROVE UnitAt(s)'
  <2>1. pc'[s] = pc[s] /\ job'[s] = job[s] /\ UnitAt(s)
    BY <1>2, StepLocal DEF Core, Others, UnitsAt
  <2>. QED BY <1>1, <2>1 DEF UnitAt, Delivered, Sent, Post
<1>3. UnitAt(r)'
  <2>1. CASE Fresh(r)
    BY <2>1 DEF Fresh, UnitAt, Delivered
  <2>2. CASE Carries(r)
    <3>1. job'[r].unit => pc'[r] \in Delivering
      BY <1>0, <2>2 DEF Carries, UnitAt
    <3>2. job'[r].sent \/ job'[r].already => Arrived(r)
      BY <1>0, <1>1, <2>2 DEF Carries, UnitAt, Delivered, Sent, Arrived
    <3>3. job'[r].queued => Post(r) \in queuedOnce'
      BY <1>0, <1>1, <2>2 DEF Carries, UnitAt
    <3>. QED BY <2>2, <3>1, <3>2, <3>3 DEF Carries, UnitAt, Delivered, Sent, Arrived, Post
  <2>3. CASE Charges(r)
    <3>1. /\ job'[r].post = Post(r) /\ job'[r].sent = job[r].sent
          /\ job'[r].already = job[r].already /\ job'[r].queued = job[r].queued
      BY <1>0, <2>3 DEF Charges, Jobs, Post
    <3>. QED
      BY <1>0, <1>1, <2>3, <3>1 DEF Charges, UnitAt, Delivered, Sent, Post, Delivering
  <2>. QED BY <2>1, <2>2, <2>3, UnitMoves DEF UnitMove
<1>. QED BY <1>2, <1>3 DEF UnitsAt

\* A unit comes back where nothing keeps it.
LEMMA UnitsStep ==
  ASSUME Core, UnitsAt, UnitsCounted, NEW r \in Workers, Step(r)
  PROVE  UnitsCounted'
<1>0. /\ pc \in [Workers -> Labels] /\ job \in [Workers -> Jobs] /\ job[r] \in Jobs
      /\ UnitAt(r) /\ units \in [Posts -> Nat] /\ cuts \in Nat /\ LocalsAt(r)
      /\ (cuts' = cuts \/ cuts' = cuts + 1)
  BY CutsGrow, BoundAssumption DEF Core, TypeOK, UnitsAt, LocalsOK
<1>1. messageMap \subseteq messageMap' /\ queuedOnce \subseteq queuedOnce'
  BY HistoryGrows
<1> SUFFICES ASSUME cuts' = 0, NEW p \in Posts, ~Sent(p)', p \notin queuedOnce'
             PROVE  \/ units'[p] = 0
                    \/ units'[p] = 1 /\ \E s \in Workers : HasUnit(s, p)'
  BY DEF UnitsCounted
<1>2. ~Sent(p) /\ p \notin queuedOnce /\ cuts = 0
  BY <1>0, <1>1 DEF Sent
<1>3. units[p] = 0 \/ (units[p] = 1 /\ \E s \in Workers : HasUnit(s, p))
  BY <1>2 DEF UnitsCounted
<1>4. \A s \in Workers : s # r => (HasUnit(s, p)' <=> HasUnit(s, p))
  BY StepLocal DEF Core, Others, HasUnit, Post
<1>5. \A s \in Workers : HasUnit(s, p) => pc[s] \in Flight
  BY DEF HasUnit, UnitsAt, UnitAt, Flight
<1>6. CASE Fresh(r) /\ pc[r] \notin Flight /\ units' = units
  BY <1>3, <1>4, <1>5, <1>6
<1>7. CASE Carries(r) /\ units' = units
  <2>1. HasUnit(r, p)' <=> HasUnit(r, p)
    BY <1>7 DEF Carries, HasUnit, Post
  <2>. QED BY <1>3, <1>4, <1>7, <2>1
<1>8. CASE Charges(r)
  <2>1. pc[r] \in Flight /\ Post(r) \in Posts /\ pc[r] \notin Delivering
    BY <1>0, <1>8 DEF Charges, Flight, Gates, LocalsAt, Busy, Delivering
  <2>2. CASE p = Post(r)
    <3>1. \A s \in Workers : ~HasUnit(s, p)
      BY <1>5, <2>1, <2>2 DEF Core, OneHandler, HasUnit, UnitsAt, UnitAt
    <3>2. units'[p] = 1
      BY <1>0, <1>3, <1>8, <2>2, <3>1 DEF Charges
    <3>3. HasUnit(r, p)'
      BY <1>0, <1>8, <2>2 DEF Charges, HasUnit, Post, Jobs
    <3>. QED BY <3>2, <3>3
  <2>3. CASE p # Post(r)
    <3>1. units'[p] = units[p] /\ ~HasUnit(r, p)
      BY <1>0, <1>8, <2>3 DEF Charges, HasUnit
    <3>. QED BY <1>3, <1>4, <3>1
  <2>. QED BY <2>2, <2>3
<1>9. CASE Fresh(r) /\ Refunds(r)
  <2>1. pc[r] \in Flight /\ Post(r) \in Posts
    BY <1>0, <1>9 DEF Refunds, Flight, Gates, Delivering, LocalsAt, Busy
  <2>2. CASE p = Post(r)
    <3>1. ~Delivered(r) /\ ~job[r].queued
      BY <1>0, <1>2, <2>2 DEF UnitAt
    <3>2. \A s \in Workers : HasUnit(s, p) => s = r
      BY <1>5, <2>1, <2>2 DEF Core, OneHandler, HasUnit
    <3>3. units[p] = 1 => Refund(r)
      BY <1>3, <3>1, <3>2 DEF Refund, HasUnit
    <3>4. units'[p] = 0
      BY <1>0, <1>3, <1>9, <2>2, <3>3 DEF Refunds
    <3>. QED BY <3>4
  <2>3. CASE p # Post(r)
    <3>1. units'[p] = units[p] /\ ~HasUnit(r, p)
      BY <1>0, <1>9, <2>3 DEF Refunds, HasUnit
    <3>. QED BY <1>3, <1>4, <3>1
  <2>. QED BY <2>2, <2>3
<1>. QED BY <1>6, <1>7, <1>8, <1>9, UnitMoves DEF UnitMove

\* A quota unit stays charged only for a post that was delivered, that went
\* through the retry queue, or that is being handled: Copier._process gives the
\* unit back on every way out, unless it is cut.
THEOREM UnitsComeBack == Spec => []UnitsBacked
<1>1. Init => UnitsAt /\ UnitsCounted
  BY DEF Init, UnitsAt, UnitAt, UnitsCounted, NoJob, Delivered
<1>2. Core /\ UnitsAt /\ UnitsCounted /\ [Next]_vars => UnitsAt' /\ UnitsCounted'
  <2> SUFFICES ASSUME Core, UnitsAt, UnitsCounted, [Next]_vars
               PROVE  UnitsAt' /\ UnitsCounted'
    OBVIOUS
  <2>1. ASSUME NEW r \in Workers, Step(r) PROVE UnitsAt' /\ UnitsCounted'
    BY <2>1, UnitsAtStep, UnitsStep
  <2>2. CASE (\E p \in Posts : Publish(p) \/ Delete(p)) \/ Toggle \/ UNCHANGED vars
    <3>1. UNCHANGED <<pc, job, messageMap, queuedOnce, units, cuts>>
      BY <2>2 DEF Publish, Delete, Toggle, vars, db
    <3>2. UnitsAt'
      BY <3>1 DEF UnitsAt, UnitAt, Delivered, Sent, Post
    <3>3. UnitsCounted'
      BY <3>1 DEF UnitsCounted, HasUnit, Sent, Post
    <3>. QED BY <3>2, <3>3
  <2>3. CASE Crash
    <3>1. cuts \in Nat /\ cuts' = cuts + 1 /\ \A r \in Workers : job'[r] = NoJob
      BY <2>3, BoundAssumption DEF Crash, Core, TypeOK
    <3>2. UnitsAt'
      BY <3>1 DEF UnitsAt, UnitAt, NoJob, Delivered
    <3>. QED BY <3>1, <3>2 DEF UnitsCounted
  <2>. QED BY <2>1, <2>2, <2>3, StepOrOuter DEF Outer
<1>3. Core /\ UnitsCounted => UnitsBacked
  BY DEF UnitsCounted, UnitsBacked, HasUnit
<1>. QED BY <1>1, <1>2, <1>3, CoreInvariant, PTL DEF Spec

-----------------------------------------------------------------------------
(* What a retry still has to do.                                           *)

Settled(x) == x \notin owed \/ x \in messageMap
TriedNot(r) == ~job[r].failed /\ ~Delivered(r)
OneTry(r) ==
    Retrying(r) =>
        /\ pc[r] = "retRead" => TriedNot(r)
        /\ pc[r] \in Flight =>
            /\ job[r].todo \subseteq {ItemDest(r)}
            /\ job[r].todo # {} \/ pc[r] \in {"gate", "deliver", "sending", "record"} => TriedNot(r)
            /\ pc[r] \in {"sending", "record"} => job[r].dest = ItemDest(r) /\ job[r].todo = {}
            /\ \/ Settled(<<Post(r), ItemDest(r)>>)
               \/ ItemDest(r) \in job[r].todo
               \/ pc[r] \in {"sending", "record"}
               \/ job[r].failed /\ ~Delivered(r)
Tries == \A r \in Workers : OneTry(r)

\* What the retry worker does.
LEMMA RetrySteps ==
  ASSUME Core, Straights, NEW r \in Workers, Step(r), Retrying(r)
  PROVE  \/ RetryTake(r) \/ RetryRead(r) \/ RetryDrop(r) \/ Reschedule(r) \/ MarkExhausted(r)
         \/ Enter(r) \/ Filter(r) \/ Connect(r) \/ PickDest(r) \/ Answered(r)
         \/ FailedForNow(r) \/ FailedForGood(r) \/ Forbidden(r) \/ Raised(r) \/ Record(r)
         \/ Finish(r)
<1>0. LocalsAt(r) /\ Straight(r)
  BY DEF Core, LocalsOK, Straights
<1>1. ~Sources(r) /\ ~Releases(r)
  BY <1>0 DEF Sources, LiveTake, SweepRound, SweepTake, SweepAsk, Begin, Questions, LocalsAt,
         Releases, ReleaseTake, ReleaseRead, ReleaseDrop, ReleaseTimeout, Retrying
<1>2. Marks(r) => MarkExhausted(r)
  BY <1>0 DEF Marks, RejectMark, RejectDrop, ClearBatch, MarkBatch, LocalsAt
<1>3. ~ReleaseList(r) /\ ~Reject(r) /\ ~DropBatch(r) /\ ~Cancel(r)
  BY DEF ReleaseList, Reject, DropBatch, Cancel, Retrying
<1>4. GateSteps(r) => Enter(r) \/ Filter(r)
  BY <1>0 DEF GateSteps, StepAside, Aside, ApprovalGate, GapGate, HoldAsk, HoldInsert, Admit,
              LocalsAt, Straight
<1>5. ~CountQueue(r) /\ ~Enqueue(r)
  BY <1>0 DEF CountQueue, Enqueue, Straight
<1>. QED
  BY <1>1, <1>2, <1>3, <1>4, <1>5 DEF Step, Work, Retries, DeliverySteps

\* A debt is made by Admit, for the coroutine's own post, and by nothing else.
LEMMA OwedMoves ==
  ASSUME NEW r \in Workers, Step(r)
  PROVE  \/ owed' \subseteq owed
         \/ /\ Admit(r) /\ pc[r] = "admit" /\ messageMap' = messageMap
            /\ owed' = owed \cup ({Post(r)} \X job[r].todo)
            /\ Goto(r, "deliver") /\ Keep(r, [job[r] EXCEPT !.unit = TRUE])
            /\ retryQueue' = retryQueue
<1> USE DEF Settle, db
<1>1. CASE Sources(r)
  BY <1>1 DEF Sources, LiveTake, SweepRound, SweepTake, SweepAsk
<1>2. CASE Releases(r)
  BY <1>2 DEF Releases, ReleaseTake, ReleaseRead, ReleaseDrop, ReleaseTimeout
<1>3. CASE Marks(r) \/ Retries(r)
  BY <1>3 DEF Marks, RejectMark, RejectDrop, ClearBatch, MarkBatch, MarkExhausted,
              Retries, RetryRead, RetryDrop, Reschedule
<1>4. CASE ReleaseList(r) \/ RetryTake(r) \/ Reject(r) \/ DropBatch(r) \/ Cancel(r)
  BY <1>4 DEF ReleaseList, RetryTake, Reject, DropBatch, Cancel
<1>5. CASE GateSteps(r) /\ ~Admit(r)
  BY <1>5 DEF GateSteps, Enter, StepAside, Filter, ApprovalGate, GapGate, HoldAsk,
              HoldInsert
<1>6. CASE Admit(r)
  BY <1>6 DEF Admit
<1>7. CASE DeliverySteps(r)
  BY <1>7 DEF DeliverySteps, Connect, PickDest, Answered, FailedForNow, FailedForGood,
              Forbidden, Raised, Record, CountQueue, Enqueue, Finish
<1>. QED BY <1>1, <1>2, <1>3, <1>4, <1>5, <1>6, <1>7 DEF Step, Work

\* What a rule or a row has settled stays settled, but for Admit.
LEMMA SettledStays ==
  ASSUME NEW r \in Workers, Step(r), NEW x, Settled(x), ~Admit(r) \/ x[1] # Post(r)
  PROVE  Settled(x)'
<1>1. messageMap \subseteq messageMap'
  BY OnlyRecord DEF Record
<1>2. CASE owed' \subseteq owed
  BY <1>1, <1>2 DEF Settled
<1>3. CASE Admit(r) /\ owed' = owed \cup ({Post(r)} \X job[r].todo)
  BY <1>1, <1>3 DEF Settled
<1>. QED BY <1>2, <1>3, OwedMoves

\* The others leave the retry worker's try as it is.
LEMMA TryElsewhere ==
  ASSUME Core, Straights, Tries, NEW r \in Workers, Step(r), NEW s \in Workers, s # r
  PROVE  OneTry(s)'
<1>1. pc'[s] = pc[s] /\ job'[s] = job[s] /\ OneTry(s) /\ LocalsAt(s)
  BY StepLocal DEF Core, Others, Tries, LocalsOK
<1> SUFFICES ASSUME Retrying(s), pc[s] \in Flight PROVE OneTry(s)'
  BY <1>1 DEF OneTry, TriedNot, Delivered, Retrying
<1>2. ~Retrying(r)
  BY RetryAssumption DEF Retrying
<1>3. job[s].item \in ItemIds /\ retryQueue[job[s].item] # NoItem
  BY <1>1 DEF LocalsAt, HasItem
<1>4. retryQueue'[job[s].item] = retryQueue[job[s].item]
  <2>1. ~RetryDrop(r) /\ ~Reschedule(r)
    BY <1>2 DEF RetryDrop, Reschedule, Core, LocalsOK, LocalsAt
  <2>. QED BY <1>3, <2>1, RowsStay DEF Core
<1>5. ItemDest(s)' = ItemDest(s) /\ Post(s)' = Post(s)
  BY <1>1, <1>4 DEF ItemDest, Post
<1> DEFINE x == <<Post(s), ItemDest(s)>>
<1>6. Settled(x) => Settled(x)'
  <2>1. ~Admit(r) \/ Post(r) # Post(s)
    BY DEF Admit, Core, OneHandler, Flight, Gates
  <2>2. \A y : Settled(y) /\ y[1] = Post(s) => y \notin owed' \/ y \in messageMap'
    BY <2>1, SettledStays DEF Settled
  <2>. QED BY <1>5, <2>2 DEF Settled
<1>. QED BY <1>1, <1>5, <1>6 DEF OneTry, TriedNot, Delivered, Retrying

\* A retry that has neither sent nor failed still has its destination to do.
LEMMA TryHere ==
  ASSUME Core, Straights, Tries, NEW r \in Workers, Step(r)
  PROVE  OneTry(r)'
<1>0. /\ pc \in [Workers -> Labels] /\ job \in [Workers -> Jobs] /\ job[r] \in Jobs
      /\ OneTry(r) /\ LocalsAt(r) /\ Straight(r) /\ pc[r] \in Labels
  BY DEF Core, TypeOK, Tries, LocalsOK, Straights
<1> SUFFICES ASSUME Retrying(r) PROVE OneTry(r)'
  BY DEF OneTry, Retrying
<1> USE DEF Goto, Keep, db
<1>1. CASE pc'[r] \notin Flight \cup {"retRead"}
  BY <1>1 DEF OneTry
<1>2. ASSUME NEW o \in {"retDone", "retFail"}, Leave(r, o) PROVE pc'[r] \notin Flight \cup {"retRead"}
  BY <1>0, <1>2 DEF Leave, Flight, Gates, Delivering
<1>3. CASE RetryTake(r)
  <2>1. pc'[r] = "retRead" /\ ~job'[r].failed /\ ~job'[r].sent /\ ~job'[r].already
    BY <1>0, <1>3 DEF RetryTake, Begin, NoJob
  <2>. QED BY <2>1 DEF OneTry, TriedNot, Delivered, Flight, Gates, Delivering
<1>4. CASE RetryRead(r) \/ RetryDrop(r) \/ Reschedule(r) \/ MarkExhausted(r)
  BY <1>0, <1>1, <1>4 DEF RetryRead, RetryDrop, Reschedule, MarkExhausted, Postpone, Retire,
     Flight, Gates, Delivering
<1>5. CASE Enter(r)
  <2>1. CASE ~enabled
    BY <1>0, <1>1, <1>5, <2>1 DEF Enter, Retire, Flight, Gates, Delivering
  <2>2. CASE enabled
    <3>1. pc[r] = "retRead" /\ TriedNot(r)
      BY <1>0, <1>5 DEF Enter, MayEnter, LocalsAt, OneTry
    <3>2. /\ job'[r].todo = open \cap {ItemDest(r)} /\ job'[r].failed = job[r].failed
          /\ job'[r].sent = job[r].sent /\ job'[r].already = job[r].already
          /\ job'[r].post = Post(r) /\ job'[r].item = job[r].item
          /\ pc'[r] = "gate" /\ retryQueue' = retryQueue
          /\ Settle(Post(r), {ItemDest(r)} \ open)
      BY <1>0, <1>5, <2>2 DEF Enter, Targets, Jobs, Post
    <3>3. ItemDest(r)' = ItemDest(r) /\ Post(r)' = Post(r)
      BY <3>2 DEF ItemDest, Post
    <3>4. Settled(<<Post(r), ItemDest(r)>>)' \/ ItemDest(r) \in job'[r].todo
      BY <3>2, <3>3 DEF Settled, Settle
    <3>. QED BY <3>1, <3>2, <3>3, <3>4 DEF OneTry, TriedNot, Delivered
  <2>. QED BY <2>1, <2>2
<1> DEFINE x == <<Post(r), ItemDest(r)>>
<1>6. ASSUME job'[r].post = Post(r), job'[r].item = job[r].item, retryQueue' = retryQueue
      PROVE  ItemDest(r)' = ItemDest(r) /\ Post(r)' = Post(r)
  BY <1>6 DEF ItemDest, Post
<1>7. Settled(x) => x \notin owed' \/ x \in messageMap'
  <2>1. ~Admit(r)
    BY <1>0 DEF Admit, Straight
  <2>. QED BY <2>1, SettledStays DEF Settled
<1>8. ASSUME UNCHANGED <<job, retryQueue>>, pc[r] \in Flight,
             pc[r] \notin {"sending", "record"}, pc'[r] \in {"deliver", "next"},
             pc'[r] = "deliver" => pc[r] = "gate"
      PROVE  OneTry(r)'
  <2>1. ItemDest(r)' = ItemDest(r) /\ Post(r)' = Post(r) /\ (TriedNot(r)' <=> TriedNot(r))
        /\ (Delivered(r)' <=> Delivered(r))
    BY <1>8, <1>6 DEF TriedNot, Delivered, Post, ItemDest
  <2>. QED BY <1>0, <1>7, <1>8, <2>1 DEF OneTry, Settled, Flight, Delivering
<1>9. ASSUME pc[r] \in {"sending", "record"}, pc'[r] \in Delivering \ {"sending", "record"},
             job'[r].post = Post(r), job'[r].item = job[r].item, retryQueue' = retryQueue,
             job'[r].todo = job[r].todo, pc'[r] # "deliver",
             \/ x \notin owed'
             \/ x \in messageMap'
             \/ job'[r].failed /\ ~job'[r].sent /\ ~job'[r].already
      PROVE  OneTry(r)'
  <2>1. ItemDest(r)' = ItemDest(r) /\ Post(r)' = Post(r)
    BY <1>6, <1>9
  <2>2. job'[r].todo = {}
    BY <1>0, <1>9 DEF OneTry, Flight, Delivering
  <2>. QED BY <1>9, <2>1, <2>2 DEF OneTry, Settled, Delivered, Delivering
<1>10. pc[r] \in {"sending", "record"} =>
          job[r].dest = ItemDest(r) /\ TriedNot(r) /\ job[r].todo = {}
  BY <1>0 DEF OneTry, Flight, Delivering
<1>11. CASE Filter(r)
  <2>1. CASE Leave(r, "retDone")
    BY <1>1, <1>2, <2>1
  <2>2. CASE ~Leave(r, "retDone")
    BY <1>0, <1>8, <1>11, <2>2 DEF Filter, Flight, Gates
  <2>. QED BY <2>1, <2>2
<1>12. CASE Connect(r)
  <2>1. CASE Leave(r, "retDone")
    BY <1>1, <1>2, <2>1
  <2>2. CASE ~Leave(r, "retDone")
    BY <1>0, <1>8, <1>12, <2>2 DEF Connect, Flight, Delivering
  <2>. QED BY <2>1, <2>2
<1>13. CASE PickDest(r)
  <2>1. PICK d \in job[r].todo :
          LET rest == [job[r] EXCEPT !.todo = @ \ {d}]
          IN  \/ /\ job' = [job EXCEPT ![r] = [rest EXCEPT !.already = TRUE]]
                 /\ UNCHANGED pc /\ ArrivedBefore(r, d)
              \/ /\ job' = [job EXCEPT ![r] = [rest EXCEPT !.dest = d]]
                 /\ pc' = [pc EXCEPT ![r] = "sending"]
              \/ /\ job' = [job EXCEPT ![r] = rest] /\ UNCHANGED pc
                 /\ Settle(Post(r), {d})
    BY <1>13 DEF PickDest
  <2> DEFINE rest == [job[r] EXCEPT !.todo = @ \ {d}]
  <2>2. d = ItemDest(r) /\ TriedNot(r) /\ pc[r] = "next" /\ job[r].todo = {d}
    BY <1>0, <1>13 DEF PickDest, OneTry, Flight, Delivering
  <2>3. retryQueue' = retryQueue /\ messageMap' = messageMap
    BY <1>13 DEF PickDest
  <2>4. /\ rest \in Jobs /\ rest.post = Post(r) /\ rest.item = job[r].item /\ rest.todo = {}
        /\ rest.failed = job[r].failed /\ rest.sent = job[r].sent
        /\ rest.already = job[r].already
    BY <1>0, <2>2 DEF Post, Jobs
  <2>5. \/ /\ job'[r] = [rest EXCEPT !.already = TRUE] /\ pc'[r] = "next"
           /\ x \in messageMap
        \/ job'[r] = [rest EXCEPT !.dest = d] /\ pc'[r] = "sending"
        \/ job'[r] = rest /\ pc'[r] = "next" /\ x \notin owed'
    BY <1>0, <2>1, <2>2 DEF ArrivedBefore, Settle
  <2> HIDE DEF rest
  <2>6. job'[r].post = Post(r) /\ job'[r].item = job[r].item /\ job'[r].todo = {}
    BY <2>4, <2>5 DEF Jobs
  <2>7. ItemDest(r)' = ItemDest(r) /\ Post(r)' = Post(r)
    BY <1>6, <2>3, <2>6
  <2>8. CASE pc'[r] = "sending"
    <3>1. job'[r] = [rest EXCEPT !.dest = d]
      BY <2>5, <2>8
    <3>2. job'[r].dest = d /\ ~job'[r].failed /\ ~job'[r].sent /\ ~job'[r].already
      BY <2>2, <2>4, <3>1 DEF TriedNot, Delivered, Jobs
    <3>. QED BY <2>2, <2>6, <2>7, <2>8, <3>2 DEF OneTry, TriedNot, Delivered
  <2>9. CASE pc'[r] = "next" /\ (x \in messageMap' \/ x \notin owed')
    BY <2>6, <2>7, <2>9 DEF OneTry, Settled
  <2>. QED BY <2>3, <2>5, <2>8, <2>9
<1>14. CASE Answered(r)
  <2>1. CASE pc'[r] = "record"
    <3>1. job' = job /\ retryQueue' = retryQueue /\ pc[r] = "sending"
      BY <1>14 DEF Answered
    <3>2. ItemDest(r)' = ItemDest(r) /\ Post(r)' = Post(r) /\ (TriedNot(r)' <=> TriedNot(r))
      BY <3>1 DEF ItemDest, Post, TriedNot, Delivered
    <3>. QED BY <1>10, <2>1, <3>1, <3>2 DEF OneTry
  <2>2. CASE pc'[r] # "record"
    BY <1>0, <1>9, <1>10, <1>14, <2>2 DEF Answered, Settle, Delivering, Post
  <2>. QED BY <2>1, <2>2
<1>15. CASE FailedForNow(r)
  <2>1. /\ job'[r] = [job[r] EXCEPT !.failed = TRUE] /\ pc'[r] = "next" /\ pc[r] = "sending"
        /\ retryQueue' = retryQueue
    BY <1>0, <1>15 DEF FailedForNow
  <2>2. /\ job'[r].post = Post(r) /\ job'[r].item = job[r].item /\ job'[r].todo = job[r].todo
        /\ job'[r].failed /\ ~job'[r].sent /\ ~job'[r].already
    BY <1>0, <1>10, <2>1 DEF Jobs, Post, TriedNot, Delivered
  <2>. QED BY <1>9, <2>1, <2>2 DEF Delivering
<1>16. CASE FailedForGood(r)
  <2>1. /\ job'[r] = [job[r] EXCEPT !.unsendable = TRUE] /\ pc'[r] = "next" /\ pc[r] = "sending"
        /\ retryQueue' = retryQueue /\ Settle(Post(r), {job[r].dest})
    BY <1>0, <1>16 DEF FailedForGood
  <2>2. job'[r].post = Post(r) /\ job'[r].item = job[r].item /\ job'[r].todo = job[r].todo
    BY <1>0, <2>1 DEF Jobs, Post
  <2>3. x \notin owed'
    BY <1>10, <2>1 DEF Settle
  <2>. QED BY <1>9, <2>1, <2>2, <2>3 DEF Delivering
<1>17. CASE Forbidden(r)
  <2>1. CASE Leave(r, "retDone")
    BY <1>1, <1>2, <2>1
  <2>2. CASE ~Leave(r, "retDone")
    <3>1. /\ job' = job /\ pc'[r] = "next" /\ pc[r] = "sending" /\ retryQueue' = retryQueue
          /\ Settle(Post(r), {job[r].dest})
      BY <1>0, <1>17, <2>2 DEF Forbidden
    <3>2. x \notin owed'
      BY <1>10, <3>1 DEF Settle
    <3>. QED BY <1>9, <3>1, <3>2 DEF Delivering, Post
  <2>. QED BY <2>1, <2>2
<1>18. CASE Raised(r) \/ Finish(r)
  <2>1. PICK o \in {"retDone", "retFail"} : Leave(r, o)
    BY <1>18 DEF Raised, Finish
  <2>. QED BY <1>1, <1>2, <2>1
<1>19. CASE Record(r)
  <2>1. /\ job'[r] = [job[r] EXCEPT !.sent = TRUE] /\ pc'[r] = "next" /\ pc[r] = "record"
        /\ retryQueue' = retryQueue /\ messageMap' = messageMap \cup {<<Post(r), job[r].dest>>}
    BY <1>0, <1>19 DEF Record
  <2>2. job'[r].post = Post(r) /\ job'[r].item = job[r].item /\ job'[r].todo = job[r].todo
    BY <1>0, <2>1 DEF Jobs, Post
  <2>3. x \in messageMap'
    BY <1>10, <2>1
  <2>. QED BY <1>9, <2>1, <2>2, <2>3 DEF Delivering
<1>. QED
  BY RetrySteps, <1>3, <1>4, <1>5, <1>11, <1>12, <1>13, <1>14, <1>15, <1>16, <1>17, <1>18, <1>19

-----------------------------------------------------------------------------
(* Who keeps a debt: a row that stays, or a coroutine in delivery.         *)

RowFor(i, x) == retryQueue[i].post = x[1] /\ retryQueue[i].dest = x[2]
Doomed(i) == \E r \in Workers : pc[r] = "retDone" /\ job[r].item = i
InDelivery(r, x) ==
    /\ ~Retrying(r) /\ pc[r] \in Delivering /\ Post(r) = x[1]
    /\ \/ x[2] \in job[r].todo
       \/ x[2] = job[r].dest /\ pc[r] \in {"sending", "count", "enqueue", "record"}
KeptRow(x) == \E i \in ItemIds : RowFor(i, x) /\ ~Doomed(i)
Kept(x) == KeptRow(x) \/ \E r \in Workers : InDelivery(r, x)
DebtsKept == cuts = 0 => \A x \in owed \ messageMap : Kept(x)

\* A retry that is over has delivered, or a rule has settled its pair.
LEMMA DoneIsSettled ==
  ASSUME Core, Straights, Tries, NEW r \in Workers, Step(r), pc'[r] = "retDone"
  PROVE  LET x == <<Post(r), ItemDest(r)>> IN x \notin owed' \/ x \in messageMap
<1>0. /\ pc \in [Workers -> Labels] /\ job \in [Workers -> Jobs] /\ job[r] \in Jobs
      /\ OneTry(r) /\ LocalsAt(r) /\ Straight(r)
  BY DEF Core, TypeOK, Tries, LocalsOK, Straights
<1> DEFINE x == <<Post(r), ItemDest(r)>>
<1> USE DEF Goto, Keep, db
<1>1. Retrying(r)
  <2>1. pc' \in [Workers -> Labels] /\ LocalsAt(r)'
    BY PcType, LocalsHere DEF Core
  <2>. QED BY <2>1 DEF LocalsAt, Retrying
<1>2. CASE RetryRead(r)
  BY <1>0, <1>2 DEF RetryRead, Settle, Postpone, Retire
<1>3. owed' \subseteq owed
  <2>1. ~Admit(r)
    BY <1>0, <1>1 DEF Admit, Straight
  <2>. QED BY <2>1, OwedMoves
<1>4. CASE Filter(r) \/ Connect(r)
  <2>1. pc[r] \in {"gate", "deliver"} /\ Settle(Post(r), job[r].todo)
    BY <1>0, <1>1, <1>4 DEF Filter, Connect, HoldFor
  <2>2. x \notin owed \/ x \in messageMap \/ ItemDest(r) \in job[r].todo
    BY <1>0, <1>1, <2>1 DEF OneTry, Settled, TriedNot, Flight, Gates, Delivering
  <2>. QED BY <1>3, <2>1, <2>2 DEF Settle
<1>5. CASE Forbidden(r)
  <2>1. pc[r] = "sending" /\ Settle(Post(r), job[r].todo \cup {job[r].dest})
    BY <1>0, <1>5 DEF Forbidden
  <2>2. job[r].dest = ItemDest(r)
    BY <1>0, <1>1, <2>1 DEF OneTry, Flight, Delivering
  <2>. QED BY <2>1, <2>2 DEF Settle
<1>6. CASE Finish(r)
  <2>1. pc[r] = "next" /\ job[r].todo = {} /\ ~(job[r].failed /\ ~Delivered(r))
    BY <1>0, <1>1, <1>6 DEF Finish, Leave
  <2>2. x \notin owed \/ x \in messageMap
    BY <1>0, <1>1, <2>1 DEF OneTry, Settled, Flight, Delivering
  <2>. QED BY <1>3, <2>2
<1>7. ~RetryTake(r) /\ ~RetryDrop(r) /\ ~Reschedule(r) /\ ~MarkExhausted(r) /\ ~Enter(r)
  BY <1>0 DEF RetryTake, Begin, RetryDrop, Reschedule, MarkExhausted, Enter, Retire
<1>8. ~PickDest(r) /\ ~Answered(r) /\ ~FailedForNow(r) /\ ~FailedForGood(r) /\ ~Record(r)
  BY <1>0 DEF PickDest, Answered, FailedForNow, FailedForGood, Record
<1>9. ~Raised(r)
  BY <1>0, <1>1 DEF Raised, Leave
<1>. QED BY <1>1, <1>2, <1>4, <1>5, <1>6, <1>7, <1>8, <1>9, RetrySteps

\* A row that keeps a debt goes on keeping it while the debt stands.
LEMMA RowKept ==
  ASSUME Core, LocalsOK', Straights, Tries, NEW r \in Workers, Step(r),
         NEW x \in owed, x \notin messageMap, x \in owed',
         NEW i \in ItemIds, RowFor(i, x), ~Doomed(i)
  PROVE  RowFor(i, x)' /\ ~Doomed(i)'
<1>0. /\ pc \in [Workers -> Labels] /\ job \in [Workers -> Jobs] /\ job[r] \in Jobs
      /\ retryQueue \in [ItemIds -> Items \cup {NoItem}] /\ LocalsAt(r) /\ owed \subseteq Pairs
  BY DEF Core, TypeOK, LocalsOK
<1>1. retryQueue[i] # NoItem /\ x = <<x[1], x[2]>>
  BY <1>0, PostsAssumption DEF RowFor, NoItem, Pairs
<1>2. HasItem(r) /\ job[r].item = i => <<Post(r), ItemDest(r)>> = x
  BY <1>0, <1>1 DEF LocalsAt, RowFor, ItemDest
<1>3. RowFor(i, x)'
  <2>1. CASE retryQueue'[i] = retryQueue[i]
    BY <2>1 DEF RowFor
  <2>2. CASE RetryDrop(r)
    <3>1. job[r].item # i
      BY <2>2 DEF RetryDrop, Doomed
    <3>2. retryQueue'[i] = retryQueue[i]
      BY <1>0, <2>2, <3>1 DEF RetryDrop
    <3>. QED BY <3>2 DEF RowFor
  <2>3. CASE Reschedule(r)
    <3>1. CASE job[r].item = i
      <4>1. <<Post(r), ItemDest(r)>> = x
        BY <1>2, <2>3, <3>1 DEF Reschedule, HasItem
      <4>2. retryQueue' = [retryQueue EXCEPT ![i].attempts = Tried(i)]
        BY <2>3, <3>1, <4>1 DEF Reschedule, Settle
      <4>3. retryQueue'[i].post = retryQueue[i].post /\ retryQueue'[i].dest = retryQueue[i].dest
        BY <1>0, <1>1, <4>2 DEF Items
      <4>. QED BY <4>3 DEF RowFor
    <3>2. CASE job[r].item # i
      <4>1. retryQueue'[i] = retryQueue[i]
        BY <1>0, <2>3, <3>2 DEF Reschedule
      <4>. QED BY <4>1 DEF RowFor
    <3>. QED BY <3>1, <3>2
  <2>. QED BY <1>1, <2>1, <2>2, <2>3, RowsStay DEF Core
<1>4. ~Doomed(i)'
  <2> SUFFICES ASSUME NEW s \in Workers, pc'[s] = "retDone", job'[s].item = i PROVE FALSE
    BY DEF Doomed
  <2>1. CASE s # r
    BY <2>1, StepLocal DEF Core, Others, Doomed
  <2>2. CASE s = r
    <3>1. Retrying(r)
      BY <2>2, LocalsHere DEF Core, LocalsAt, Retrying
    <3>2. HasItem(r) /\ job'[r].item = job[r].item
      <4> USE DEF Goto, Keep, HasItem
      <4>1. ~RetryTake(r) /\ ~RetryDrop(r) /\ ~Reschedule(r) /\ ~MarkExhausted(r) /\ ~Enter(r)
        BY <1>0, <2>2 DEF RetryTake, Begin, RetryDrop, Reschedule, MarkExhausted, Enter, Retire
      <4>2. ~PickDest(r) /\ ~Answered(r) /\ ~FailedForNow(r) /\ ~FailedForGood(r) /\ ~Record(r)
        BY <1>0, <2>2 DEF PickDest, Answered, FailedForNow, FailedForGood, Record
      <4>3. CASE RetryRead(r)
        BY <1>0, <2>2, <4>3 DEF RetryRead, Postpone, Retire
      <4>4. ASSUME NEW o \in {"retDone", "retFail"}, Leave(r, o), pc[r] \in Flight
            PROVE  HasItem(r) /\ job'[r].item = job[r].item
        BY <1>0, <3>1, <4>4 DEF Leave, NoJob
      <4>5. CASE Filter(r) \/ Connect(r) \/ Forbidden(r)
        BY <1>0, <2>2, <3>1, <4>4, <4>5
           DEF Filter, HoldFor, Connect, Forbidden, Flight, Gates, Delivering
      <4>6. CASE Raised(r) \/ Finish(r)
        BY <4>4, <4>6 DEF Raised, Finish, Flight, Delivering
      <4>. QED BY <3>1, <4>1, <4>2, <4>3, <4>5, <4>6, RetrySteps
    <3>3. x \notin owed' \/ x \in messageMap
      BY <1>2, <2>2, <3>2, DoneIsSettled
    <3>. QED BY <3>3
  <2>. QED BY <2>1, <2>2
<1>. QED BY <1>3, <1>4

\* A pair in the hands of a coroutine stays there, or gets a row, or is settled.
LEMMA HandKept ==
  ASSUME Core, LocalsOK', "flood" \notin Faults, "fatal" \notin Faults,
         NEW r \in Workers, Step(r), cuts' = cuts,
         NEW x \in owed, x \notin messageMap, x \in owed', x \notin messageMap',
         InDelivery(r, x)
  PROVE  Kept(x)'
<1>0. /\ pc \in [Workers -> Labels] /\ job \in [Workers -> Jobs] /\ job[r] \in Jobs
      /\ retryQueue \in [ItemIds -> Items \cup {NoItem}] /\ owed \subseteq Pairs
      /\ cuts \in Nat /\ ~Retrying(r) /\ pc[r] \in Delivering
  BY BoundAssumption DEF Core, TypeOK, InDelivery
<1>1. x = <<Post(r), x[2]>>
  BY <1>0 DEF InDelivery, Pairs
<1> USE DEF Goto, Keep, db
<1>2. ASSUME pc'[r] \in Delivering, job'[r].post = Post(r),
             \/ x[2] \in job'[r].todo
             \/ x[2] = job'[r].dest /\ pc'[r] \in {"sending", "count", "enqueue", "record"}
      PROVE  Kept(x)'
  <2>1. InDelivery(r, x)'
    BY <1>0, <1>2 DEF InDelivery, Post, Retrying
  <2>. QED BY <2>1 DEF Kept
<1>3. DeliverySteps(r)
  <2>1. ~Cancel(r)
    BY <1>0 DEF Cancel
  <2>2. ~Sources(r) /\ ~Releases(r) /\ ~Marks(r) /\ ~Retries(r)
    BY <1>0 DEF Sources, LiveTake, SweepRound, SweepTake, SweepAsk, Begin, Questions,
         Releases, ReleaseTake, ReleaseRead, ReleaseDrop, ReleaseTimeout, Delivering,
         Marks, RejectMark, RejectDrop, ClearBatch, MarkBatch, MarkExhausted,
         Retries, RetryRead, RetryDrop, Reschedule
  <2>3. ~GateSteps(r)
    BY <1>0 DEF GateSteps, Enter, MayEnter, StepAside, Aside, Filter, ApprovalGate, GapGate,
         HoldAsk, HoldInsert, Admit, Delivering
  <2>4. ~ReleaseList(r) /\ ~RetryTake(r) /\ ~Reject(r) /\ ~DropBatch(r)
    BY <1>0 DEF ReleaseList, RetryTake, Reject, DropBatch, Begin, Start, Delivering
  <2>. QED BY <2>1, <2>2, <2>3, <2>4 DEF Step, Work
<1>4. CASE Connect(r)
  <2>1. x[2] \in job[r].todo
    BY <1>4 DEF Connect, InDelivery
  <2>2. ~Settle(Post(r), job[r].todo)
    BY <1>1, <2>1 DEF Settle
  <2>. QED BY <1>0, <1>2, <1>4, <2>1, <2>2 DEF Connect, Delivering, Post
<1>5. CASE PickDest(r)
  <2>1. PICK d \in job[r].todo :
          LET rest == [job[r] EXCEPT !.todo = @ \ {d}]
          IN  \/ /\ job' = [job EXCEPT ![r] = [rest EXCEPT !.dest = d]]
                 /\ pc' = [pc EXCEPT ![r] = "sending"]
              \/ /\ job' = [job EXCEPT ![r] = rest] /\ UNCHANGED pc
                 /\ Settle(Post(r), {d})
    BY <1>0, <1>5 DEF PickDest, ArrivedBefore
  <2> DEFINE rest == [job[r] EXCEPT !.todo = @ \ {d}]
  <2>2. rest \in Jobs /\ rest.post = Post(r) /\ rest.todo = job[r].todo \ {d}
    BY <1>0 DEF Post, Jobs
  <2>3. x[2] \in job[r].todo /\ pc[r] = "next"
    BY <1>5 DEF PickDest, InDelivery
  <2>a. Settle(Post(r), {d}) => x[2] # d
    BY <1>1 DEF Settle
  <2>4. \/ job'[r] = [rest EXCEPT !.dest = d] /\ pc'[r] = "sending"
        \/ job'[r] = rest /\ pc'[r] = "next" /\ x[2] # d
    BY <1>0, <2>1, <2>3, <2>a
  <2> HIDE DEF rest
  <2>5. job'[r].post = Post(r) /\ job'[r].todo = job[r].todo \ {d}
        /\ (pc'[r] = "sending" => job'[r].dest = d)
    BY <2>2, <2>4 DEF Jobs
  <2>. QED BY <1>2, <2>3, <2>4, <2>5 DEF Delivering
<1>6. x[2] \in job[r].todo \/ x[2] = job[r].dest
  BY DEF InDelivery
<1>7. CASE Answered(r)
  BY <1>0, <1>1, <1>2, <1>6, <1>7 DEF Answered, Settle, Delivering, Post
<1>8. CASE FailedForNow(r)
  <2>1. pc'[r] = "count" /\ job' = job
    BY <1>0, <1>8 DEF FailedForNow
  <2>. QED BY <1>2, <1>6, <2>1 DEF Delivering, Post
<1>9. CASE FailedForGood(r)
  <2>1. /\ job'[r] = [job[r] EXCEPT !.unsendable = TRUE] /\ pc'[r] = "next"
        /\ x[2] # job[r].dest
    BY <1>0, <1>1, <1>9 DEF FailedForGood, Settle
  <2>2. job'[r].post = Post(r) /\ job'[r].todo = job[r].todo
    BY <1>0, <2>1 DEF Jobs, Post
  <2>. QED BY <1>2, <1>6, <2>1, <2>2 DEF Delivering
<1>10. CASE Forbidden(r)
  <2>1. ~Settle(Post(r), job[r].todo \cup {job[r].dest})
    BY <1>1, <1>6 DEF Settle
  <2>2. job' = job /\ pc'[r] = "next" /\ Settle(Post(r), {job[r].dest})
    BY <1>0, <1>10, <2>1 DEF Forbidden
  <2>. QED BY <1>1, <1>2, <1>6, <2>2 DEF Settle, Delivering, Post
<1>11. ~Raised(r)
  BY DEF Raised
<1>12. CASE Record(r)
  <2>1. /\ job'[r] = [job[r] EXCEPT !.sent = TRUE] /\ pc'[r] = "next"
        /\ x[2] # job[r].dest
    BY <1>0, <1>1, <1>12 DEF Record
  <2>2. job'[r].post = Post(r) /\ job'[r].todo = job[r].todo
    BY <1>0, <2>1 DEF Jobs, Post
  <2>. QED BY <1>2, <1>6, <2>1, <2>2 DEF Delivering
<1>13. CASE CountQueue(r)
  BY <1>0, <1>1, <1>2, <1>6, <1>13 DEF CountQueue, Settle, Delivering, Post
<1>14. CASE Enqueue(r)
  <2>1. PICK i \in ItemIds : /\ retryQueue[i] = NoItem
                             /\ retryQueue' = [retryQueue EXCEPT ![i] =
                                 [post |-> Post(r), dest |-> job[r].dest, attempts |-> 0]]
    BY <1>14 DEF Enqueue
  <2>2. job'[r] = [job[r] EXCEPT !.queued = TRUE] /\ pc'[r] = "next" /\ pc[r] = "enqueue"
    BY <1>0, <1>14 DEF Enqueue
  <2>3. job'[r].post = Post(r) /\ job'[r].todo = job[r].todo
    BY <1>0, <2>2 DEF Jobs, Post
  <2>4. CASE x[2] \in job[r].todo
    BY <1>2, <2>2, <2>3, <2>4 DEF Delivering
  <2>5. CASE x[2] = job[r].dest
    <3>1. RowFor(i, x)'
      BY <1>0, <1>1, <2>1, <2>5 DEF RowFor
    <3>2. ~Doomed(i)'
      <4> SUFFICES ASSUME NEW s \in Workers, pc'[s] = "retDone", job'[s].item = i PROVE FALSE
        BY DEF Doomed
      <4>1. s # r
        BY <2>2
      <4>2. pc[s] = "retDone" /\ job[s].item = i
        BY <4>1, StepLocal DEF Core, Others
      <4>. QED BY <2>1, <4>2 DEF Core, LocalsOK, LocalsAt, HasItem
    <3>. QED BY <3>1, <3>2 DEF Kept, KeptRow
  <2>. QED BY <1>6, <2>4, <2>5
<1>15. CASE Finish(r)
  <2>1. FALSE
    BY <1>15 DEF Finish, InDelivery
  <2>. QED BY <2>1
<1>. QED
  BY <1>3, <1>4, <1>5, <1>7, <1>8, <1>9, <1>10, <1>11, <1>12, <1>13, <1>14, <1>15
     DEF DeliverySteps

\* So every debt is kept after the step of any coroutine.
LEMMA DebtsStep ==
  ASSUME Core, LocalsOK', Straights, Tries, DebtsKept, "flood" \notin Faults,
         "fatal" \notin Faults, NEW r \in Workers, Step(r)
  PROVE  DebtsKept'
<1> SUFFICES ASSUME cuts' = 0, NEW x \in owed', x \notin messageMap' PROVE Kept(x)'
  BY DEF DebtsKept
<1>0. cuts \in Nat /\ (cuts' = cuts \/ cuts' = cuts + 1)
      /\ pc \in [Workers -> Labels] /\ job \in [Workers -> Jobs] /\ job[r] \in Jobs
  BY CutsGrow, BoundAssumption DEF Core, TypeOK
<1>1. cuts = 0 /\ cuts' = cuts
  BY <1>0
<1>2. x \notin messageMap
  BY OnlyRecord DEF Record
<1>3. CASE x \in owed
  <2>1. CASE KeptRow(x)
    <3>1. PICK i \in ItemIds : RowFor(i, x) /\ ~Doomed(i)
      BY <2>1 DEF KeptRow
    <3>2. RowFor(i, x)' /\ ~Doomed(i)'
      BY <1>2, <1>3, <3>1, RowKept
    <3>. QED BY <3>2 DEF Kept, KeptRow
  <2>2. CASE InDelivery(r, x)
    BY <1>1, <1>2, <1>3, <2>2, HandKept
  <2>3. ASSUME NEW s \in Workers, s # r, InDelivery(s, x) PROVE Kept(x)'
    <3>1. InDelivery(s, x)'
      BY <2>3, StepLocal DEF Core, Others, InDelivery, Post, Retrying
    <3>. QED BY <3>1 DEF Kept
  <2>. QED BY <1>1, <1>2, <1>3, <2>1, <2>2, <2>3 DEF DebtsKept, Kept
<1>4. CASE x \notin owed
  <2>1. /\ pc[r] = "admit" /\ Goto(r, "deliver") /\ Keep(r, [job[r] EXCEPT !.unit = TRUE])
        /\ x \in {Post(r)} \X job[r].todo
    BY <1>4, OwedMoves
  <2>2. pc'[r] = "deliver" /\ job'[r].post = Post(r) /\ job'[r].todo = job[r].todo
    BY <1>0, <2>1 DEF Goto, Keep, Post, Jobs
  <2>3. ~Retrying(r)
    BY <2>1 DEF Straights, Straight
  <2>4. InDelivery(r, x)'
    BY <2>1, <2>2, <2>3 DEF InDelivery, Post, Retrying, Delivering
  <2>. QED BY <2>4 DEF Kept
<1>. QED BY <1>3, <1>4

\* The retry worker's try and every debt hold through the steps of the world too.
LEMMA TriesInvariant == Spec => []Tries
<1>1. Init => Tries
  BY DEF Init, Tries, OneTry, Flight, Gates, Delivering
<1>2. Core /\ Straights /\ Tries /\ [Next]_vars => Tries'
  <2> SUFFICES ASSUME Core, Straights, Tries, [Next]_vars PROVE Tries'
    OBVIOUS
  <2>1. ASSUME NEW r \in Workers, Step(r) PROVE Tries'
    BY <2>1, TryHere, TryElsewhere DEF Tries
  <2>2. CASE (\E p \in Posts : Publish(p) \/ Delete(p)) \/ Toggle \/ UNCHANGED vars
    <3>1. UNCHANGED <<pc, job, messageMap, owed, retryQueue>>
      BY <2>2 DEF Publish, Delete, Toggle, vars, db
    <3>. QED
      BY <3>1 DEF Tries, OneTry, TriedNot, Delivered, Settled, ItemDest, Post, Retrying
  <2>3. CASE Crash
    BY <2>3 DEF Crash, Tries, OneTry, Flight, Gates, Delivering
  <2>. QED BY <2>1, <2>2, <2>3, StepOrOuter DEF Outer
<1>. QED BY <1>1, <1>2, CoreInvariant, StraightInvariant, PTL DEF Spec

\* Wherever no flood wait and no account error leaves process, a pair that was
\* admitted and that no rule has settled is delivered, in the retry queue, or in
\* the hands of a coroutine that has yet to send or queue it (README: a failed
\* post waits in the queue); only a cut can lose one.
THEOREM DebtsRemembered ==
  ASSUME "flood" \notin Faults, "fatal" \notin Faults
  PROVE  Spec => []NothingForgotten
<1>1. Init => DebtsKept
  BY DEF Init, DebtsKept
<1>2. Core /\ Core' /\ Straights /\ Tries /\ DebtsKept /\ [Next]_vars => DebtsKept'
  <2> SUFFICES ASSUME Core, Core', Straights, Tries, DebtsKept, [Next]_vars
               PROVE  DebtsKept'
    OBVIOUS
  <2>1. ASSUME NEW r \in Workers, Step(r) PROVE DebtsKept'
    BY <2>1, DebtsStep DEF Core
  <2>2. CASE (\E p \in Posts : Publish(p) \/ Delete(p)) \/ Toggle \/ UNCHANGED vars
    <3>1. UNCHANGED <<pc, job, messageMap, owed, retryQueue, cuts>>
      BY <2>2 DEF Publish, Delete, Toggle, vars, db
    <3>. QED
      BY <3>1 DEF DebtsKept, Kept, KeptRow, RowFor, Doomed, InDelivery, Post, Retrying
  <2>3. CASE Crash
    <3>1. cuts \in Nat /\ cuts' = cuts + 1
      BY <2>3, BoundAssumption DEF Crash, Core, TypeOK
    <3>. QED BY <3>1 DEF DebtsKept
  <2>. QED BY <2>1, <2>2, <2>3, StepOrOuter DEF Outer
<1>3. DebtsKept => NothingForgotten
  <2> SUFFICES ASSUME DebtsKept, cuts = 0, NEW x \in owed \ messageMap
               PROVE  \/ \E i \in ItemIds : retryQueue[i].post = x[1] /\ retryQueue[i].dest = x[2]
                      \/ \E r \in Workers : InHand(r, x)
    BY DEF NothingForgotten
  <2>1. Kept(x)
    BY DEF DebtsKept
  <2>2. \A r \in Workers : InDelivery(r, x) => InHand(r, x)
    BY DEF InDelivery, InHand, Flight
  <2>. QED BY <2>1, <2>2 DEF Kept, KeptRow, RowFor
<1>. QED BY <1>1, <1>2, <1>3, CoreInvariant, StraightInvariant, TriesInvariant, PTL DEF Spec

-----------------------------------------------------------------------------
(* CopyDelivery implements PostDelivery.  Each step of a coroutine shows   *)
(* one copy, writes one row of the map, ticks posts, cuts, or changes      *)
(* nothing the promise speaks of.  That a copy is within the promise is    *)
(* what the invariants above say of a coroutine about to send.             *)

\* Who is about to write a row has shown the post.
ShownFirst == \A r \in Workers : pc[r] = "record" => copies[<<Post(r), job[r].dest>>] > 0

\* With approval on, who is past the gate has the tick.
Gated == Approval => Ticked

\* A copy is never taken back.
LEMMA CopiesStay ==
  ASSUME TypeOK, NEW r \in Workers, Step(r), NEW x \in Pairs
  PROVE  copies[x] > 0 => copies'[x] > 0
<1>1. copies[x] \in Nat /\ copies \in [Pairs -> Nat]
  BY DEF TypeOK
<1>2. CASE Shown(r)
  BY <1>1, <1>2 DEF Shown
<1>3. CASE copies' = copies
  BY <1>1, <1>3
<1>. QED BY <1>2, <1>3, OnlyAnswer DEF Answered, FailedForNow

\* Only a send that succeeded leads to the writing of a row.
LEMMA IntoRecord ==
  ASSUME Core, NEW r \in Workers, Step(r), pc'[r] = "record"
  PROVE  pc[r] = "sending" /\ Shown(r) /\ job' = job
<1>0. TypeOK /\ pc \in [Workers -> Labels]
  BY DEF Core, TypeOK
<1> USE DEF Goto, Begin, Start, Retire
<1>1. ASSUME NEW o \in {"retDone", "retFail"}, Leave(r, o) PROVE FALSE
  BY <1>0, <1>1 DEF Leave
<1>2. pc[r] # "record"
  BY <1>0, <1>1, RecordOrCut DEF Record, Cancel
<1>3. ~Sources(r)
  <2>1. ~LiveTake(r) /\ ~SweepRound(r) /\ ~SweepTake(r)
    BY <1>0 DEF LiveTake, SweepRound, SweepTake
  <2>2. ~SweepAsk(r)
    BY <1>0 DEF SweepAsk, AfterQuestion, Questions
  <2>. QED BY <2>1, <2>2 DEF Sources
<1>4. ~Releases(r)
  BY <1>0 DEF Releases, ReleaseTake, ReleaseRead, ReleaseDrop, ReleaseTimeout
<1>5. ~Marks(r) /\ ~Retries(r)
  BY <1>0 DEF Marks, RejectMark, RejectDrop, ClearBatch, MarkBatch, MarkExhausted,
              Retries, RetryRead, RetryDrop, Reschedule, Postpone
<1>6. ~ReleaseList(r) /\ ~RetryTake(r) /\ ~Reject(r) /\ ~DropBatch(r) /\ ~Cancel(r)
  BY <1>0, <1>1 DEF ReleaseList, RetryTake, Reject, DropBatch, Cancel
<1>7. ~Enter(r) /\ ~StepAside(r) /\ ~Filter(r) /\ ~ApprovalGate(r) /\ ~GapGate(r)
  BY <1>0, <1>1 DEF Enter, StepAside, Filter, ApprovalGate, GapGate, HoldFor
<1>8. ~HoldInsert(r) /\ ~Admit(r)
  BY <1>0, <1>1 DEF HoldInsert, Admit
<1>9. ~HoldAsk(r)
  <2>1. job[r].want \in HoldKinds \cup {"approval", "none"}
    BY DEF Core, TypeOK, Jobs
  <2>2. pc[r] \in {"isWaiting", "recheck"} => job[r].want # "none"
    BY DEF Core, LocalsOK, LocalsAt
  <2>3. SUFFICES ASSUME HoldAsk(r) PROVE FALSE
    OBVIOUS
  <2>4. \/ pc'[r] = "insert"
        \/ pc[r] = "recheck" /\ job[r].want # "hours" /\ pc'[r] = AfterHold[job[r].want]
    BY <1>0, <1>1, <2>3 DEF HoldAsk
  <2>. QED BY <2>1, <2>2, <2>4 DEF AfterHold, HoldKinds
<1>10. DeliverySteps(r) => Answered(r)
  BY <1>0, <1>1, <1>2
     DEF DeliverySteps, Connect, PickDest, FailedForNow, FailedForGood, Forbidden,
         Raised, Record, CountQueue, Enqueue, Finish
<1>11. Answered(r)
  BY <1>3, <1>4, <1>5, <1>6, <1>7, <1>8, <1>9, <1>10 DEF Step, Work, GateSteps
<1>. QED BY <1>0, <1>11 DEF Answered

\* Only the owner's button adds ticks, and it touches nothing else of the promise.
LEMMA OnlyList ==
  ASSUME NEW r \in Workers, Step(r)
  PROVE  ReleaseList(r) \/ approvedBy' = approvedBy
<1>1. CASE Sources(r)
  BY <1>1 DEF Sources, LiveTake, SweepRound, SweepTake, SweepAsk
<1>2. CASE Releases(r)
  BY <1>2 DEF Releases, ReleaseTake, ReleaseRead, ReleaseDrop, ReleaseTimeout
<1>3. CASE Marks(r) \/ Retries(r)
  BY <1>3 DEF Marks, RejectMark, RejectDrop, ClearBatch, MarkBatch, MarkExhausted,
              Retries, RetryRead, RetryDrop, Reschedule
<1>4. CASE RetryTake(r) \/ Reject(r) \/ DropBatch(r) \/ Cancel(r)
  BY <1>4 DEF RetryTake, Reject, DropBatch, Cancel
<1>5. CASE GateSteps(r)
  BY <1>5 DEF GateSteps, Enter, StepAside, Filter, ApprovalGate, GapGate, HoldAsk,
              HoldInsert, Admit
<1>6. CASE DeliverySteps(r)
  BY <1>6 DEF DeliverySteps, Connect, PickDest, Answered, FailedForNow, FailedForGood,
              Forbidden, Raised, Record, CountQueue, Enqueue, Finish
<1>. QED
  BY <1>1, <1>2, <1>3, <1>4, <1>5, <1>6 DEF Step, Work

\* A coroutine is cut by a cancellation or by an answer that never came.
LEMMA OnlyCut ==
  ASSUME NEW r \in Workers, Step(r)
  PROVE  Cancel(r) \/ FailedForNow(r) \/ cuts' = cuts
<1>1. CASE Sources(r)
  BY <1>1 DEF Sources, LiveTake, SweepRound, SweepTake, SweepAsk
<1>2. CASE Releases(r)
  BY <1>2 DEF Releases, ReleaseTake, ReleaseRead, ReleaseDrop, ReleaseTimeout
<1>3. CASE Marks(r) \/ Retries(r)
  BY <1>3 DEF Marks, RejectMark, RejectDrop, ClearBatch, MarkBatch, MarkExhausted,
              Retries, RetryRead, RetryDrop, Reschedule
<1>4. CASE ReleaseList(r) \/ RetryTake(r) \/ Reject(r) \/ DropBatch(r)
  BY <1>4 DEF ReleaseList, RetryTake, Reject, DropBatch
<1>5. CASE GateSteps(r)
  BY <1>5 DEF GateSteps, Enter, StepAside, Filter, ApprovalGate, GapGate, HoldAsk,
              HoldInsert, Admit
<1>6. CASE DeliverySteps(r)
  BY <1>6 DEF DeliverySteps, Connect, PickDest, Answered, FailedForGood,
              Forbidden, Raised, Record, CountQueue, Enqueue, Finish
<1>. QED
  BY <1>1, <1>2, <1>3, <1>4, <1>5, <1>6 DEF Step, Work

\* Whoever writes a row has shown the post, for ever.
LEMMA ShownInvariant == Spec => []ShownFirst
<1>1. Init => ShownFirst
  BY DEF Init, ShownFirst
<1>2. Core /\ ShownFirst /\ [Next]_vars => ShownFirst'
  <2> SUFFICES ASSUME Core, ShownFirst, [Next]_vars PROVE ShownFirst'
    OBVIOUS
  <2>1. ASSUME NEW r \in Workers, Step(r), NEW s \in Workers, pc'[s] = "record"
        PROVE  copies'[<<Post(s)', job'[s].dest>>] > 0
    <3>1. CASE s = r
      <4>1. pc[s] = "sending" /\ Shown(s) /\ job' = job
        BY <2>1, <3>1, IntoRecord
      <4>2. <<Post(s), job[s].dest>> \in Pairs
        BY <4>1 DEF Core, LocalsOK, LocalsAt, Busy, Pairs
      <4>. QED BY <4>1, <4>2 DEF Shown, Core, TypeOK, Post
    <3>2. CASE s # r
      <4>1. pc'[s] = pc[s] /\ job'[s] = job[s]
        BY <2>1, <3>2, StepLocal DEF Core, Others
      <4>2. <<Post(s), job[s].dest>> \in Pairs
        BY <2>1, <4>1 DEF Core, LocalsOK, LocalsAt, Busy, Pairs
      <4>. QED BY <2>1, <4>1, <4>2, CopiesStay DEF ShownFirst, Core, Post
    <3>. QED BY <3>1, <3>2
  <2>2. CASE \E p \in Posts : Publish(p) \/ Delete(p)
    BY <2>2 DEF Publish, Delete, ShownFirst, Post
  <2>3. CASE Toggle
    BY <2>3 DEF Toggle, ShownFirst, Post
  <2>4. CASE Crash
    BY <2>4 DEF Crash, ShownFirst
  <2>5. CASE UNCHANGED vars
    BY <2>5 DEF vars, ShownFirst, Post
  <2>. QED BY <2>1, <2>2, <2>3, <2>4, <2>5, StepOrOuter DEF Outer, ShownFirst
<1>. QED BY <1>1, <1>2, CoreInvariant, PTL DEF Spec

\* With approval on, who is past the gate has the tick, for ever.
LEMMA GatedInvariant ==
  ASSUME ~SlowGates
  PROVE  Spec => []Gated
<1>1. CASE Approval
  <2>1. Ticked => Gated
    BY DEF Gated
  <2>2. Spec => []Ticked
    BY <1>1, TickedInvariant
  <2>. QED BY <2>1, <2>2, PTL
<1>2. CASE ~Approval
  <2>1. TypeOK => Gated
    BY <1>2 DEF Gated
  <2>. QED BY <2>1, TypeCorrect, PTL
<1>. QED BY <1>1, <1>2

\* A coroutine sends only what the promise lets it show.
LEMMA MayShow ==
  ASSUME SkipDuplicates, Core, Unsent, CopiesCounted, Gated,
         NEW r \in Workers, pc[r] = "sending"
  PROVE  LET x == <<Post(r), job[r].dest>>
         IN  /\ x \in Pairs /\ x \notin messageMap /\ copies[x] <= cuts
             /\ Approval => x[1] \in approvedBy
<1> DEFINE x == <<Post(r), job[r].dest>>
<1>1. x \in Pairs
  BY DEF Core, LocalsOK, LocalsAt, Busy, Pairs
<1>2. x \notin messageMap
  BY DEF Unsent, UnsentAt
<1>3. \A s \in Workers : ~RecordingAt(s, x)
  BY DEF RecordingAt, Core, OneHandler, Flight, Delivering
<1>4. copies[x] <= cuts
  BY <1>1, <1>2, <1>3 DEF CopiesCounted, Counted
<1>5. Approval => x[1] \in approvedBy
  BY DEF Gated, Ticked, TickedAt, Passed, Delivering
<1>. QED BY <1>1, <1>2, <1>4, <1>5

\* Every step of a coroutine is a step of the promise.
LEMMA StepPromised ==
  ASSUME SkipDuplicates, Core, Unsent, CopiesCounted, Gated, ShownFirst,
         NEW r \in Workers, Step(r)
  PROVE  [Promise!Next]_(Promise!promised)
<1> DEFINE x == <<Post(r), job[r].dest>>
<1> USE DEF Promise!Next, Promise!promised
<1>1. CASE Record(r)
  <2>1. x \in Pairs /\ copies[x] > 0
    BY <1>1 DEF Record, ShownFirst, Core, LocalsOK, LocalsAt, Busy, Pairs
  <2>2. Promise!Note(x)
    BY <1>1, <2>1 DEF Record, Promise!Note
  <2>. QED BY <2>1, <2>2 DEF Pairs
<1>2. CASE ReleaseList(r)
  <2>1. /\ \E ticked \in SUBSET Posts : approvedBy' = approvedBy \cup ticked
        /\ UNCHANGED <<copies, messageMap, cuts>>
    <3> DEFINE listed == {<<p, rowId[p]>> : p \in {q \in Posts : pendingPosts[q] = Reason(r)}}
    <3>1. PICK some \in SUBSET listed :
             approvedBy' = IF Role[r] = "owner"
                           THEN approvedBy \cup {y[1] : y \in some} ELSE approvedBy
      BY <1>2 DEF ReleaseList
    <3>2. {y[1] : y \in some} \subseteq Posts
      OBVIOUS
    <3>3. approvedBy' = approvedBy \cup {y[1] : y \in some} \/ approvedBy' = approvedBy \cup {}
      BY <3>1
    <3>4. UNCHANGED <<copies, messageMap, cuts>>
      BY <1>2 DEF ReleaseList, db
    <3>. QED BY <3>2, <3>3, <3>4
  <2>. QED BY <2>1 DEF Promise!Allow
<1>3. CASE Answered(r) \/ FailedForNow(r)
  <2>1. pc[r] = "sending" /\ UNCHANGED <<messageMap, approvedBy>>
    BY <1>3 DEF Answered, FailedForNow, db
  <2>2. CASE copies' = copies /\ cuts' = cuts
    BY <2>1, <2>2
  <2>3. CASE Shown(r) /\ cuts' \in {cuts, cuts + 1}
    <3>1. Promise!Show(x)
      BY <2>1, <2>3, MayShow DEF Promise!Show, Shown
    <3>. QED BY <2>1, <3>1, MayShow DEF Pairs
  <2>. QED BY <1>3, <2>2, <2>3 DEF Answered, FailedForNow
<1>4. CASE Cancel(r)
  BY <1>4 DEF Cancel, db, Promise!Cut
<1>5. CASE ~Record(r) /\ ~ReleaseList(r) /\ ~Answered(r) /\ ~FailedForNow(r) /\ ~Cancel(r)
  BY <1>5, OnlyRecord, OnlyAnswer, OnlyList, OnlyCut
<1>. QED BY <1>1, <1>2, <1>3, <1>4, <1>5

\* With duplicates skipped, as is the default, and gates quicker than
\* IN_FLIGHT_WAIT, the coroutines together keep the promise of PostDelivery:
\* each copy is allowed by the owner, comes before its row, and comes again
\* only after a crash, a cancellation or a lost answer.
THEOREM Implements ==
  ASSUME SkipDuplicates, ~SlowGates
  PROVE  Spec => DeliversAsPromised
<1> DEFINE Inv == Core /\ Unsent /\ CopiesCounted /\ Gated /\ ShownFirst
<1>1. Init => Promise!Init
  BY DEF Init, Promise!Init, Pairs
<1>2. Inv /\ [Next]_vars => [Promise!Next]_(Promise!promised)
  <2> SUFFICES ASSUME Inv, [Next]_vars PROVE [Promise!Next]_(Promise!promised)
    OBVIOUS
  <2>1. ASSUME NEW r \in Workers, Step(r) PROVE [Promise!Next]_(Promise!promised)
    BY <2>1, StepPromised
  <2>2. CASE \E p \in Posts : Publish(p) \/ Delete(p)
    BY <2>2 DEF Publish, Delete, db, Promise!promised
  <2>3. CASE Toggle
    BY <2>3 DEF Toggle, Promise!promised
  <2>4. CASE Crash
    BY <2>4 DEF Crash, db, Promise!Next, Promise!Cut
  <2>5. CASE UNCHANGED vars
    BY <2>5 DEF vars, db, Promise!promised
  <2>. QED BY <2>1, <2>2, <2>3, <2>4, <2>5, StepOrOuter DEF Outer
<1>3. Spec => []Gated
  BY GatedInvariant
<1>. QED
  BY <1>1, <1>2, <1>3, CoreInvariant, UnsentInvariant, CopiesInvariant, ShownInvariant, PTL
     DEF Spec, DeliversAsPromised, Promise!Spec
=============================================================================
