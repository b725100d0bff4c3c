------------------------------ MODULE EditSync ------------------------------
(***************************************************************************)
(* A copied post follows the edits and the deletion of its source          *)
(* (services/copier.py: sync_edit, _edit_by_bot, _restamp, _sync_delete).  *)
(* A row of message_map for every destination keeps the fingerprint of the *)
(* text that was copied; an edit whose text has the fingerprint of the     *)
(* first row is taken for none.                                            *)
(*                                                                         *)
(* In account mode Telegram tells of an edit, and every update has a       *)
(* coroutine of its own; in simple mode the poller looks at the post every *)
(* minute.  A fingerprint stands for its text.  Before all that, process   *)
(* sends the post to its destinations and writes the row of each.          *)
(***************************************************************************)
EXTENDS Naturals, Sequences, SequencesExt

CONSTANTS
    Wordings,   \* texts the owner of the source chooses from
    First,      \* the one the post had when it was sent
    Targets,    \* the destinations
    Syncs,      \* coroutines of updates; the poller is one of them
    Gone,       \* shown by a destination that has no such message
    MaxEdits,   \* bound: edits of the source
    MaxFaults   \* bound: edits or deletions Telegram refuses, updates that get lost

ASSUME EditAssumption == First \in Wordings /\ Gone \notin Wordings

VARIABLES
    wording,    \* the text of the source, Gone when it is deleted
    edits,
    shown,      \* what each destination shows
    unsent,     \* destinations process has not sent to yet
    rows,       \* destinations with a row, in the order of their ids
    stamp,      \* content_hash of the rows
    sync,       \* the coroutines
    simple,     \* Task.mode
    faults,
    atOnce,    \* ghost: an edit was begun while another, or process, was at work
    half        \* ghost: the last edit did not reach all destinations

source == <<wording, edits, simple>>
copied == <<shown, unsent, rows, stamp>>
ghosts == <<atOnce, half>>
syncVars == <<source, copied, sync, faults, ghosts>>

NoSync == [pc |-> "idle", text |-> First, left |-> <<>>, settled |-> TRUE]

SyncInit ==
    /\ wording = First /\ edits = 0
    /\ shown = [d \in Targets |-> Gone] /\ unsent = Targets
    /\ rows = <<>> /\ stamp = [d \in Targets |-> First]
    /\ sync = [h \in Syncs |-> NoSync]
    /\ simple \in BOOLEAN
    /\ faults = 0 /\ atOnce = FALSE /\ half = FALSE

Recorded(d) == d \in ToSet(rows)
Fault == faults < MaxFaults /\ faults' = faults + 1
Done(h) == sync' = [sync EXCEPT ![h] = NoSync]

-----------------------------------------------------------------------------
(* process: what it sends, and the fingerprint, are of the post as it came. *)

SendTo(d) ==
    /\ d \in unsent
    /\ unsent' = unsent \ {d}
    /\ shown' = [shown EXCEPT ![d] = First]
    /\ UNCHANGED <<rows, stamp, sync, faults, source, ghosts>>

RecordOf(d) ==
    /\ d \notin unsent /\ ~Recorded(d)
    /\ rows' = Append(rows, d)
    /\ stamp' = [stamp EXCEPT ![d] = First]
    /\ UNCHANGED <<shown, unsent, sync, faults, source, ghosts>>

Sending == \E d \in Targets : ~Recorded(d)

-----------------------------------------------------------------------------
(* The source, and who tells of it.                                        *)

Told(h, pc, text) == sync' = [sync EXCEPT ![h] = [NoSync EXCEPT !.pc = pc, !.text = text]]

\* An edit, which may change nothing but a counter of views.
EditSource(text) ==
    /\ wording # Gone /\ edits < MaxEdits /\ edits' = edits + 1
    /\ wording' = text
    /\ \/ ~simple /\ (\E h \in Syncs : sync[h].pc = "idle" /\ Told(h, "read", text)) /\ UNCHANGED faults
       \/ ~simple /\ Fault /\ UNCHANGED sync
       \/ simple /\ UNCHANGED <<sync, faults>>
    /\ UNCHANGED <<simple, copied, ghosts>>

\* The deletion, of which the poller never hears.
DeleteSource ==
    /\ wording # Gone /\ wording' = Gone
    /\ IF simple THEN UNCHANGED sync
       ELSE \E h \in Syncs : sync[h].pc = "idle" /\ Told(h, "find", First)
    /\ UNCHANGED <<edits, simple, faults, copied, ghosts>>

\* A round of the poller reads the post; it makes one after the other.
Poll(h) ==
    /\ simple /\ wording # Gone /\ edits > 0
    /\ \A i \in Syncs : sync[i].pc = "idle"
    /\ Told(h, "read", wording)
    /\ UNCHANGED <<faults, source, copied, ghosts>>

-----------------------------------------------------------------------------
(* sync_edit.                                                              *)

Baseline == stamp[Head(rows)]

\* The rows are read: without any, or with a fingerprint that says nothing has
\* changed, that is all.
ReadRows(h) ==
    /\ sync[h].pc = "read"
    /\ IF rows = <<>> \/ Baseline = sync[h].text
       THEN Done(h) /\ UNCHANGED atOnce
       ELSE /\ sync' = [sync EXCEPT ![h].pc = "edit", ![h].left = rows]
            /\ atOnce' = (atOnce \/ Sending \/ \E i \in Syncs : sync[i].pc = "edit")
    /\ UNCHANGED <<faults, half, source, copied>>

Target(h) == Head(sync[h].left)
Goes(h, settled) ==
    sync' = [sync EXCEPT ![h].left = Tail(@), ![h].settled = @ /\ settled]

\* One destination.  A message that is gone counts as settled, and so does, for
\* the bot alone, one that shows the text already.  (So does one that Telegram finds
\* too old to be edited, which is left out.)
EditCopy(h) ==
    /\ sync[h].pc = "edit" /\ sync[h].left # <<>>
    /\ LET d == Target(h)
       IN  /\ shown' = [shown EXCEPT ![d] = IF @ = Gone THEN Gone ELSE sync[h].text]
           /\ Goes(h, simple \/ shown[d] # sync[h].text)
    /\ UNCHANGED <<unsent, rows, stamp, faults, source, ghosts>>

\* Telegram refuses for now: a flood wait, the network.
EditRefused(h) ==
    /\ sync[h].pc = "edit" /\ sync[h].left # <<>>
    /\ Fault /\ Goes(h, FALSE)
    /\ UNCHANGED <<source, copied, ghosts>>

\* For a mutant: the fingerprint moves whether or not all went well.
StampAnyway(h) ==
    /\ sync[h].pc = "edit" /\ sync[h].left = <<>>
    /\ stamp' = [d \in Targets |-> IF Recorded(d) THEN sync[h].text ELSE stamp[d]]
    /\ half' = FALSE /\ Done(h)
    /\ UNCHANGED <<shown, unsent, rows, faults, atOnce, source>>

\* _restamp: the fingerprint moves, on all rows there are by now, only when all
\* destinations are settled.
Restamp(h) ==
    /\ sync[h].pc = "edit" /\ sync[h].left = <<>>
    /\ stamp' = [d \in Targets |->
                   IF sync[h].settled /\ Recorded(d) THEN sync[h].text ELSE stamp[d]]
    /\ half' = ~sync[h].settled
    /\ Done(h)
    /\ UNCHANGED <<shown, unsent, rows, faults, atOnce, source>>

-----------------------------------------------------------------------------
(* _sync_delete: what Telegram refuses is not tried again.                 *)

FindRows(h) ==
    /\ sync[h].pc = "find"
    /\ sync' = [sync EXCEPT ![h].pc = "delete", ![h].left = rows]
    /\ UNCHANGED <<faults, source, copied, ghosts>>

DeleteCopy(h) ==
    /\ sync[h].pc = "delete" /\ sync[h].left # <<>>
    /\ \/ shown' = [shown EXCEPT ![Target(h)] = Gone] /\ UNCHANGED faults
       \/ Fault /\ UNCHANGED shown
    /\ Goes(h, TRUE)
    /\ UNCHANGED <<unsent, rows, stamp, source, ghosts>>

DeleteEnds(h) ==
    /\ sync[h].pc = "delete" /\ sync[h].left = <<>>
    /\ Done(h)
    /\ UNCHANGED <<faults, source, copied, ghosts>>
-----------------------------------------------------------------------------
SyncStep(h) ==
    \/ Poll(h) \/ ReadRows(h) \/ EditCopy(h) \/ EditRefused(h) \/ Restamp(h)
    \/ FindRows(h) \/ DeleteCopy(h) \/ DeleteEnds(h)
SyncWork == \E h \in Syncs : SyncStep(h)

SyncNext ==
    \/ \E d \in Targets : SendTo(d) \/ RecordOf(d)
    \/ \E text \in Wordings : EditSource(text)
    \/ DeleteSource
    \/ SyncWork

SyncSpec == SyncInit /\ [][SyncNext]_syncVars /\ WF_syncVars(SyncWork)

-----------------------------------------------------------------------------
SyncTypeOK ==
    /\ wording \in Wordings \cup {Gone} /\ edits \in 0 .. MaxEdits /\ simple \in BOOLEAN
    /\ shown \in [Targets -> Wordings \cup {Gone}] /\ unsent \subseteq Targets
    /\ rows \in Seq(Targets) /\ stamp \in [Targets -> Wordings]
    /\ sync \in [Syncs -> [pc : {"idle", "read", "edit", "find", "delete"}, text : Wordings,
                           left : Seq(Targets), settled : BOOLEAN]]
    /\ faults \in 0 .. MaxFaults /\ atOnce \in BOOLEAN /\ half \in BOOLEAN

\* In simple mode the destinations come to show what the source shows, whatever
\* was refused on the way (copier.py: the fingerprint moves only when the work is
\* done, or the half-done post stays half-done for ever); unless the owner takes
\* an edit back that reached some of them only, or edits overlapped.
EditsLand ==
    simple => []<>(\/ wording = Gone \/ atOnce \/ (half /\ Baseline = wording)
                   \/ \A d \in ToSet(rows) : shown[d] = wording)
=============================================================================
