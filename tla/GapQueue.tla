------------------------------ MODULE GapQueue ------------------------------
(***************************************************************************)
(* The pace of one task: min_gap_seconds and the hours it may publish in.  *)
(* CopyDelivery leaves out time; this module keeps the time and leaves out *)
(* what a post meets besides the two clocks.  A coroutine asks next_slot,  *)
(* then holds the post until that slot or sends it, and only after the     *)
(* send writes last_copy_at: between these another coroutine may ask.      *)
(*                                                                         *)
(* Instants are kept relative to now: release_at of a row is the time left *)
(* until it, last_copy_at the time since it.  What is more than a gap ago  *)
(* makes no difference to next_slot, so both stop there.                   *)
(***************************************************************************)
EXTENDS Integers, FiniteSets, FiniteSetsExt

CONSTANTS
    Posts,        \* ids of the posts of the source
    Workers,      \* the coroutines
    Role,         \* "live", "sweep" or "release"
    Gap,          \* cfg.min_gap_seconds, in ticks
    Hours,        \* the task has active hours, so they may close
    HoldOutside,  \* cfg.hold_outside_hours
    Day,          \* ticks the hours stay open
    Night         \* ticks from closing to next_window_open

ASSUME PostsAreIds == Posts \subseteq Nat \ {0} /\ IsFiniteSet(Posts)
ASSUME RolesGiven == Role \in [Workers -> {"live", "sweep", "release"}]
ASSUME Clock == Gap \in Nat \ {0} /\ Day \in Nat \ {0} /\ Night \in Nat \ {0}
ASSUME Switches == Hours \in BOOLEAN /\ HoldOutside \in BOOLEAN

VARIABLES
    place,     \* where each post is
    due,       \* ticks until release_at of its PendingPost row
    lastCopy,  \* ticks since last_copy_at
    opens,     \* ticks until the hours open; while they are, minus the time since
    holder,    \* ghost: the coroutine that inserted its row
    pc,        \* where each coroutine stands
    job        \* its post, its slot, whether the post has waited, its list

vars == <<place, due, lastCopy, opens, holder, pc, job>>

Places == {"future", "heard", "missed", "queue", "hand", "shown"}
NoJob == [post |-> 0, slot |-> 0, waited |-> FALSE, rows |-> {}]
Latest == Gap * Cardinality(Posts) + Night
Queue == {p \in Posts : place[p] = "queue"}
InOrder(S) == CHOOSE p \in S : \A q \in S : p <= q

Init ==
    /\ place = [p \in Posts |-> "future"]
    /\ due = [p \in Posts |-> 0]
    /\ lastCopy = Gap
    /\ opens \in IF Hours THEN 1 - Day .. Night ELSE {0}
    /\ holder = [p \in Posts |-> "none"]
    /\ pc = [r \in Workers |-> "idle"]
    /\ job = [r \in Workers |-> NoJob]

-----------------------------------------------------------------------------
(* The clocks and the source.                                              *)

Past(t) == IF t > -Gap THEN t - 1 ELSE t
Later(t) == IF t < Gap THEN t + 1 ELSE t

Tick ==
    /\ due' = [p \in Posts |-> Past(due[p])]
    /\ lastCopy' = Later(lastCopy)
    /\ job' = [r \in Workers |-> [job[r] EXCEPT !.slot = Past(@)]]
    /\ opens' = IF ~Hours THEN 0 ELSE IF opens = 1 - Day THEN Night ELSE opens - 1
    /\ UNCHANGED <<place, holder, pc>>

\* A post appears; its update is heard or lost.
Publish(p) ==
    /\ place[p] = "future"
    /\ \A q \in Posts : q < p => place[q] # "future"
    /\ \E how \in {"heard", "missed"} : place' = [place EXCEPT ![p] = how]
    /\ UNCHANGED <<due, lastCopy, opens, holder, pc, job>>

-----------------------------------------------------------------------------
(* Who hands a post to process.                                            *)

Take(r, p, waited, rows) ==
    /\ pc[r] = "idle"
    /\ place' = [place EXCEPT ![p] = "hand"]
    /\ pc' = [pc EXCEPT ![r] = "gate"]
    /\ job' = [job EXCEPT ![r] = [NoJob EXCEPT !.post = p, !.waited = waited, !.rows = rows]]
    /\ holder' = [holder EXCEPT ![p] = "none"]
    /\ UNCHANGED <<due, lastCopy, opens>>

LiveTake(r) ==
    /\ Role[r] = "live"
    /\ LET heard == {p \in Posts : place[p] = "heard"}
       IN  heard # {} /\ Take(r, InOrder(heard), FALSE, {})

\* The sweeper: above the greatest delivered id, if there is one.
SweepTake(r) ==
    /\ Role[r] = "sweep"
    /\ LET sent == {p \in Posts : place[p] = "shown"}
           fresh == {p \in Posts : place[p] = "missed" /\ \A q \in sent : q < p}
       IN  sent # {} /\ fresh # {} /\ Take(r, InOrder(fresh), FALSE, {})

\* run_once lists the rows that are due ...
ReleaseList(r) ==
    /\ Role[r] = "release"
    /\ pc[r] = "idle"
    /\ job[r].rows = {}
    /\ LET ripe == {p \in Queue : due[p] <= 0}
       IN  /\ ripe # {}
           /\ job' = [job EXCEPT ![r] = [NoJob EXCEPT !.rows = ripe]]
    /\ UNCHANGED <<place, due, lastCopy, opens, holder, pc>>

\* ... and releases them by release_at: the row is dropped, then processed.
ReleaseTake(r) ==
    /\ Role[r] = "release"
    /\ \E p \in job[r].rows :
        /\ \A q \in job[r].rows : due[p] <= due[q]
        /\ Take(r, p, TRUE, job[r].rows \ {p})

-----------------------------------------------------------------------------
(* The two gates of process, and what lies behind them.                    *)

SlotBesideQueue == Max({0, Gap - lastCopy})
\* next_slot: a gap after the last publication and after every row waiting.
NextSlot == Max({0, Gap - lastCopy} \cup {due[p] + Gap : p \in Queue})

Leave(r, to) ==
    /\ place' = [place EXCEPT ![job[r].post] = to]
    /\ pc' = [pc EXCEPT ![r] = "idle"]
    /\ job' = [job EXCEPT ![r] = [NoJob EXCEPT !.rows = job[r].rows]]

Hold(r, slot) ==
    /\ pc' = [pc EXCEPT ![r] = "insert"]
    /\ job' = [job EXCEPT ![r].slot = slot]
    /\ UNCHANGED place

\* Outside the hours a post is held if the owner wants that and it has not
\* waited yet; otherwise it is skipped.
HoursGate(r) ==
    /\ pc[r] = "gate"
    /\ opens > 0
    /\ IF HoldOutside /\ ~job[r].waited THEN Hold(r, opens) ELSE Leave(r, "missed")
    /\ UNCHANGED <<due, lastCopy, opens, holder>>

\* Within them min_gap_seconds is asked, of released posts too.
GapGate(r) ==
    /\ pc[r] = "gate"
    /\ opens <= 0
    /\ IF NextSlot > 0 THEN Hold(r, NextSlot)
       ELSE pc' = [pc EXCEPT ![r] = "send"] /\ UNCHANGED <<place, job>>
    /\ UNCHANGED <<due, lastCopy, opens, holder>>

Insert(r) ==
    /\ pc[r] = "insert"
    /\ due' = [due EXCEPT ![job[r].post] = job[r].slot]
    /\ holder' = [holder EXCEPT ![job[r].post] = r]
    /\ Leave(r, "queue")
    /\ UNCHANGED <<lastCopy, opens>>

Send(r) ==
    /\ pc[r] = "send"
    /\ place' = [place EXCEPT ![job[r].post] = "shown"]
    /\ pc' = [pc EXCEPT ![r] = "bump"]
    /\ UNCHANGED <<due, lastCopy, opens, holder, job>>

\* _bump writes last_copy_at, after the send.
Bump(r) ==
    /\ pc[r] = "bump"
    /\ lastCopy' = 0
    /\ Leave(r, "shown")
    /\ UNCHANGED <<due, opens, holder>>

Work(r) == \/ LiveTake(r) \/ SweepTake(r) \/ ReleaseList(r) \/ ReleaseTake(r)
           \/ HoursGate(r) \/ GapGate(r) \/ Insert(r) \/ Send(r) \/ Bump(r)

Next == \/ Tick
        \/ \E p \in Posts : Publish(p)
        \/ \E r \in Workers : Work(r)

Spec == Init /\ [][Next]_vars

\* Time passes, and the event loop comes round to every coroutine.
FairSpec == Spec /\ WF_vars(Tick) /\ \A r \in Workers : WF_vars(Work(r))

-----------------------------------------------------------------------------
TypeOK ==
    /\ place \in [Posts -> Places]
    /\ due \in [Posts -> -Gap .. Latest]
    /\ lastCopy \in 0 .. Gap
    /\ opens \in 1 - Day .. Night
    /\ holder \in [Posts -> Workers \cup {"none"}]
    /\ pc \in [Workers -> {"idle", "gate", "insert", "send", "bump"}]
    /\ job \in [Workers -> [post : Posts \cup {0}, slot : -Gap .. Latest,
                            waited : BOOLEAN, rows : SUBSET Posts]]

\* Of the rows that wait for their turn, and not for the opening, those that one
\* coroutine inserted are a gap apart, whatever the others asked for and inserted
\* in between (next_slot: ten posts at once must not get one time).
Paced == {p \in Queue : due[p] > -Gap /\ ~(Hours /\ due[p] = opens)}

SlotsApart ==
    \A p, q \in Paced :
        (p # q /\ holder[p] = holder[q] /\ due[p] <= due[q]) => due[q] - due[p] >= Gap

\* A post that waits for its turn is published in the end (README: a burst of
\* twenty posts is spread out with the gap).
HeldGoesOut ==
    \A p \in Posts : place[p] = "queue" ~> place[p] = "shown"
=============================================================================
