------------------------------ MODULE History ------------------------------
(***************************************************************************)
(* Copying the old posts of a channel (services/history.py, started from   *)
(* handlers/history.py). A dialogue reserves as many units as it was asked *)
(* to copy posts and starts the customer's job, or gives them back because *)
(* a job is running. The job lives in memory; it ends when it is done, was *)
(* cancelled, or met an error before its first post.                       *)
(***************************************************************************)
EXTENDS Entitlement

CONSTANT MaxKills  \* bound: kills of the process

ASSUME KillAssumption == MaxKills \in Nat

VARIABLES
    backfill,  \* HistoryCopier._jobs: state, posts asked for, groups left, cancelled
    kills

history == <<ledger, backfill, kills>>

NoBackfill == [state |-> "none", total |-> 0, left |-> 0, cancelled |-> FALSE]

HistoryInit == EntitlementInit /\ backfill = NoBackfill /\ kills = 0

-----------------------------------------------------------------------------
Running == backfill.state \in {"collect", "copy"}

\* got_count, once it has a grant: start finds a job running, or makes one.
Start(c) ==
    \/ Running /\ Release(c) /\ UNCHANGED <<backfill, kills>>
    \/ /\ ~Running /\ Use(c)
       /\ backfill' = [NoBackfill EXCEPT !.state = "collect", !.total = s[c].quota + s[c].credit]
       /\ UNCHANGED kills

\* _copy_history reads the channel, which may hold fewer posts; albums are one group.
Collect ==
    /\ backfill.state = "collect"
    /\ \E n \in 0 .. backfill.total : backfill' = [backfill EXCEPT !.state = "copy", !.left = n]
    /\ UNCHANGED <<ledger, kills>>

Over == [backfill EXCEPT !.state = "finished"]
CollectFails ==
    /\ backfill.state = "collect"
    /\ backfill' = Over
    /\ UNCHANGED <<ledger, kills>>

\* One group: sent, not sent, or refused by a flood wait, it counts as done.
CopyGroup ==
    /\ backfill.state = "copy" /\ backfill.left > 0 /\ ~backfill.cancelled
    /\ backfill' = [backfill EXCEPT !.left = @ - 1]
    /\ UNCHANGED <<ledger, kills>>

Finish ==
    /\ backfill.state = "copy" /\ (backfill.left = 0 \/ backfill.cancelled)
    /\ backfill' = Over
    /\ UNCHANGED <<ledger, kills>>

\* cb_cancel
Cancel ==
    /\ Running
    /\ backfill' = [backfill EXCEPT !.cancelled = TRUE]
    /\ UNCHANGED <<ledger, kills>>

Kill ==
    /\ kills < MaxKills
    /\ kills' = kills + 1
    /\ backfill' = NoBackfill
    /\ s' = [c \in Spenders |-> Idle]
    /\ spent' = spent + AllHeld
    /\ UNCHANGED <<usage, credits, overlap, asks>>

JobStep == Collect \/ CollectFails \/ CopyGroup \/ Finish
HistoryNext ==
    \/ \E c \in Spenders : Reserving(c) /\ UNCHANGED <<backfill, kills>>
    \/ \E c \in Spenders : Start(c)
    \/ \E c \in Spenders : Returning(c) /\ UNCHANGED <<backfill, kills>>
    \/ JobStep \/ Cancel \/ Kill
HistorySpec == HistoryInit /\ [][HistoryNext]_history /\ WF_history(JobStep)

-----------------------------------------------------------------------------
HistoryTypeOK ==
    /\ EntitlementTypeOK
    /\ backfill.state \in {"none", "collect", "copy", "finished"}
    /\ backfill.total \in Nat /\ backfill.left \in 0 .. backfill.total /\ backfill.cancelled \in BOOLEAN
    /\ kills \in 0 .. MaxKills
=============================================================================
