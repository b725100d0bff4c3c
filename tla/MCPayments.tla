----------------------------- MODULE MCPayments -----------------------------
(* Instances of Payments: two customers, two requests, one hash and one code, *)
(* and the four kinds of coroutine that decide.  part says what a behaviour   *)
(* is about, so that the state spaces add up and do not multiply:             *)
(*   decide   one customer's requests by card and coin, with a code, decided  *)
(*            by an admin, the checker and her own check, and one kill;       *)
(*   prove    two customers who send the same hash for whatever they asked    *)
(*            for, again and again;                                           *)
(*   gate     the bank gateway's page beside an admin.                        *)
EXTENDS Payments

CONSTANTS q1, q2, ann, bob, d1, d2, gate, h1

VARIABLE part

pay == <<vars, part>>

\* The state after ann has made her first request, without a code: which of two ids came
\* first makes no difference.
InitOneMade ==
    /\ row = [q \in Requests |-> IF q = q1 THEN [NoRow EXCEPT !.st = "pending", !.user = ann]
                                 ELSE NoRow]
    /\ flow = [u \in Users |-> NoFlow]
    /\ used = 0
    /\ uses = [q \in Requests |-> 0]
    /\ rewards = [q \in Requests |-> "none"]
    /\ chain = {} /\ atBank = {}
    /\ proc = [c \in Coroutines |-> Idle]
    /\ given = [q \in Requests |-> 0]
    /\ credited = [q \in Requests |-> 0]
    /\ bought = [h \in Hashes |-> {}]
    /\ loose = {}
    /\ crashes = 0

PayInit == InitOneMade /\ part \in {"decide", "prove", "gate"}

\* A proof that has been sent is not sent again.
ProvenOnce == \A u \in Users, q \in Requests :
    HasProof(q) /\ flow'[u].req = q => flow'[u] = flow[u]

Without(method) == \A q \in Requests : row'[q].method # method

\* What a part leaves out never begins: no fair action is cut short.
PayNext ==
    /\ Next
    /\ part # "prove" => proc'[bob] = Idle /\ flow'[bob] = NoFlow /\ ProvenOnce
    /\ part # "gate" => Without("gate")
    /\ part # "decide" => crashes' = 0 /\ \A u \in Users : proc'[u].pc = "open" => ~proc'[u].yes
    /\ part = "prove" => proc'[d1] = Idle
    /\ part = "gate" => chain' = {} /\ Without("coin")
    /\ UNCHANGED part

PaySpec == PayInit /\ [][PayNext]_pay /\ Scheduled
=============================================================================
