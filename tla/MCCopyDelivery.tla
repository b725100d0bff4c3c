--------------------------- MODULE MCCopyDelivery ---------------------------
(* Instances of CopyDelivery for TLC: who runs, and what may go wrong.      *)
EXTENDS CopyDelivery, TLC

CONSTANTS live, live2, sweep, release, owner1, owner2, retry, main, extra, i1, i2, i3

RoleOf == [r \in Workers |-> CASE r \in {live, live2} -> "live"
                               [] r = sweep -> "sweep"
                               [] r = release -> "release"
                               [] r = retry -> "retry"
                               [] OTHER -> "owner"]
OwnersAndItems == Permutations({owner1, owner2}) \cup Permutations(ItemIds)
=============================================================================
