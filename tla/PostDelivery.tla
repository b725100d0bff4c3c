---------------------------- MODULE PostDelivery ----------------------------
(***************************************************************************)
(* What a copy task promises, whoever does the work and in whatever order: *)
(* a destination shows a post if the owner allows it, the task then writes *)
(* down that it does, and what is written down is never shown again.  A    *)
(* cut (a crash, a cancellation, a lost answer) may come before the note,  *)
(* and then the post may be shown once more.  CopyDelivery implements it.  *)
(***************************************************************************)
EXTENDS Integers

CONSTANTS
    Posts, Dests,
    AsksOwner  \* the owner must allow each post

VARIABLES
    shown,     \* how often each destination shows each post
    noted,     \* which of them the task knows of
    allowed,   \* posts the owner allowed
    cuts       \* interruptions so far

promised == <<shown, noted, allowed, cuts>>

Init ==
    /\ shown = [x \in Posts \X Dests |-> 0]
    /\ noted = {} /\ allowed = {} /\ cuts = 0

\* The answer that the post arrived may be lost: a cut by itself.
Show(x) ==
    /\ x \notin noted /\ shown[x] <= cuts
    /\ AsksOwner => x[1] \in allowed
    /\ shown' = [shown EXCEPT ![x] = @ + 1]
    /\ cuts' \in {cuts, cuts + 1}
    /\ UNCHANGED <<noted, allowed>>

Note(x) ==
    /\ shown[x] > 0
    /\ noted' = noted \cup {x}
    /\ UNCHANGED <<shown, allowed, cuts>>

Allow ==
    /\ \E ticked \in SUBSET Posts : allowed' = allowed \cup ticked
    /\ UNCHANGED <<shown, noted, cuts>>

Cut == cuts' = cuts + 1 /\ UNCHANGED <<shown, noted, allowed>>

Next == Allow \/ Cut \/ \E x \in Posts \X Dests : Show(x) \/ Note(x)

Spec == Init /\ [][Next]_promised
=============================================================================
