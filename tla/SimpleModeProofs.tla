-------------------------- MODULE SimpleModeProofs --------------------------
(***************************************************************************)
(* Proofs about SimpleMode, for any number of accounts, channels, tasks,   *)
(* readers and posts: EachPostOnce.                                        *)
(*                                                                         *)
(* NothingPassedOver is not inductive: the poller reads the mark, then the *)
(* source, then offers, and moves the mark of whatever lease is there by   *)
(* then.  PollInv says what it has in hand at each of these steps.  A mark *)
(* meanwhile only falls (MarksFall): a lease goes with its mark, or is     *)
(* made anew without one; WalkKeeps is that argument, and the lemmas       *)
(* named IsFine show that every step of the leasing code has the premise.  *)
(***************************************************************************)
EXTENDS SimpleMode, TLAPS

P == proc[Poller]

\* A coroutine that leases, and the poller at a source, have one.
AtSource ==
    \A c \in Coroutines :
        /\ P.pc \notin {"idle", "round"} => P.src \in Sources
        /\ proc[c].pc \in {"find", "drop", "choose", "insert"} => proc[c].src \in Sources

\* A mark is of a post there is, and goes with its lease.
MarksTrue ==
    \A s \in Sources : /\ lease[s].seen <= top[s]
                       /\ ~Leased(s) => lease[s].seen = 0

\* What is owed is above a mark, and of a task that is on and in the round.
OwedAbove ==
    \A x \in owed :
        /\ 0 < lease[SourceOf[x[1]]].seen /\ lease[SourceOf[x[1]]].seen < x[2]
        /\ x[1] \in on /\ (P.pc # "idle" => x[1] \in P.jobs)

\* What the poller knows of its source: before it reads, no mark has passed
\* the one it has; then whatever is owed up to the newest post is in its hands.
OwedHere == {x \in owed : SourceOf[x[1]] = P.src}
InHand ==
    /\ P.pc = "read" => /\ lease[P.src].seen <= P.seen /\ P.seen <= top[P.src]
                        /\ \A x \in OwedHere : P.seen < x[2]
    /\ P.pc \in {"offer", "record", "remember"} => P.newest <= top[P.src]
    /\ P.pc \in {"offer", "record"} => \A x \in OwedHere : x[2] <= P.newest => x \in P.left
    /\ P.pc = "remember" => \A x \in OwedHere : P.newest < x[2]

\* A copy shown is recorded, about to be, or its row was lost.
Shown(x) == IF x \in delivered \cup P.sent THEN 1 ELSE 0
CopiesTold ==
    /\ \A x \in Pairs : copies[x] <= unrecorded[x] + Shown(x)
    /\ P.pc # "record" => P.sent = {}

PollInv == TypeOK /\ AtSource /\ MarksTrue /\ OwedAbove /\ InHand /\ CopiesTold

-----------------------------------------------------------------------------
\* A coroutine that returns is idle, or the poller goes on with its round.
LEMMA RestIs ==
    ASSUME TypeOK, NEW c \in Coroutines
    PROVE  /\ Rest(c) \in Locals /\ Rest(c).pc \in {"idle", "round"} /\ Rest(c).sent = {}
           /\ Rest(c).pc # "idle" => Rest(c).jobs = proc[c].jobs /\ proc[c].todo # {}
<1>1. proc[c] \in Locals
  BY DEF TypeOK
<1>2. Idle \in Locals
  BY DEF Idle, Locals, Steps, Ids
<1>3. [Idle EXCEPT !.pc = "round", !.todo = proc[c].todo, !.jobs = proc[c].jobs] \in Locals
  BY <1>1, <1>2 DEF Locals, Idle, Steps, Ids
<1>. QED BY <1>1, <1>2, <1>3 DEF Rest, Idle


\* A coroutine changes its step.
LEMMA StepLocal ==
    ASSUME NEW l \in Locals, NEW x \in Steps
    PROVE  /\ [l EXCEPT !.pc = x] \in Locals /\ [l EXCEPT !.pc = x].pc = x
           /\ [l EXCEPT !.pc = x].src = l.src /\ [l EXCEPT !.pc = x].jobs = l.jobs
           /\ [l EXCEPT !.pc = x].sent = l.sent
  BY DEF Locals

\* A step between sources and leases: nothing is in the hands of the poller.
Away == {"read", "offer", "record", "remember"}
WalksTo(c, m) ==
    /\ m \in Locals /\ proc' = [proc EXCEPT ![c] = m]
    /\ m.pc \in {"find", "drop", "choose", "insert"} => m.src \in Sources
    /\ c = Poller => /\ P.sent = {} /\ m.sent = {} /\ m.pc \notin Away
                     /\ m.pc \notin {"idle", "round"} => m.src \in Sources
                     /\ m.pc # "idle" => \/ P.pc # "idle" /\ m.jobs = P.jobs
                                         \/ m.jobs = on
Walks(c) == \E m : WalksTo(c, m)

\* Leases go, with their marks and what was owed under them, or come without a mark.
MarksFall ==
    /\ owed' \subseteq owed
    /\ \A s \in Sources : /\ lease'[s].seen \in {0, lease[s].seen}
                          /\ ~Leased(s)' => lease'[s].seen = 0
    /\ \A x \in owed' : lease'[SourceOf[x[1]]].seen = lease[SourceOf[x[1]]].seen
    /\ UNCHANGED <<on, top, delivered, copies, unrecorded>>

PollParts == AtSource /\ MarksTrue /\ OwedAbove /\ InHand /\ CopiesTold

\* Where everybody stands after a step of one of them.
LEMMA OneWalks ==
    ASSUME TypeOK, NEW c \in Coroutines, NEW m, proc' = [proc EXCEPT ![c] = m]
    PROVE  /\ proc'[c] = m /\ \A d \in Coroutines \ {c} : proc'[d] = proc[d]
           /\ Poller \in Coroutines /\ (c # Poller => P' = P)
           /\ m \in Locals => proc' \in [Coroutines -> Locals]
  BY DEF TypeOK, P, Coroutines

\* Such a step keeps the invariant.
LEMMA WalkKeeps ==
    ASSUME PollInv, NEW c \in Coroutines, Walks(c), MarksFall
    PROVE  PollParts'
<1>. PICK m : WalksTo(c, m)
  BY DEF Walks
<1>0. TypeOK /\ SourceOf \in [Tasks -> Sources] /\ Poller \in Coroutines
  BY SourceAssumption DEF PollInv, Coroutines
<1>1. /\ proc'[c] = m /\ \A d \in Coroutines \ {c} : proc'[d] = proc[d]
      /\ c # Poller => P' = P
      /\ c = Poller => P' = m
  BY <1>0, OneWalks DEF P, WalksTo
<1>2. AtSource'
  BY <1>1 DEF AtSource, PollInv, P, WalksTo
<1>3. \A s \in Sources : /\ lease[s].seen \in Nat /\ top[s] \in Nat
                         /\ lease'[s].seen \in Nat /\ lease'[s].seen <= lease[s].seen
  BY <1>0, NumberAssumption DEF TypeOK, MarksFall
<1>4. MarksTrue'
  BY <1>3 DEF MarksFall, MarksTrue, PollInv
<1>5. \A x \in owed : x \in Pairs /\ SourceOf[x[1]] \in Sources /\ x[1] \in Tasks /\ x[2] \in Nat
  BY <1>0, NumberAssumption DEF TypeOK, Pairs, Posts
<1>6. OwedAbove'
  BY <1>1, <1>5 DEF MarksFall, OwedAbove, PollInv, WalksTo
<1>7. InHand'
  <2>1. CASE c = Poller
    BY <1>1, <2>1 DEF InHand, Away, WalksTo
  <2>2. CASE c # Poller
    <3>1. P' = P /\ OwedHere' \subseteq OwedHere
      BY <1>1, <2>2 DEF OwedHere, MarksFall
    <3>2. P.pc \in Away => P.src \in Sources
      BY DEF PollInv, AtSource, Away, Coroutines
    <3>3. P \in Locals
      BY <1>0 DEF P, TypeOK
    <3>4. P.seen \in Nat
      BY <3>3 DEF Locals
    <3>. QED BY <1>3, <3>1, <3>2, <3>4 DEF InHand, PollInv, MarksFall, Away
  <2>. QED BY <2>1, <2>2
<1>8. CopiesTold'
  <2>1. P'.sent = P.sent /\ (P'.pc # "record" => P.pc # "record" \/ P.sent = {})
    BY <1>1 DEF WalksTo
  <2>. QED BY <2>1 DEF CopiesTold, Shown, MarksFall, PollInv
<1>. QED BY <1>2, <1>4, <1>6, <1>7, <1>8 DEF PollParts

AccountRow == [exists : BOOLEAN, enabled : BOOLEAN, state : {"ok", "flood", "banned"}]
LeaseType == [by : Accounts \cup {NoOne}, seen : 0 .. MaxPost, id : Ids]
quiet == <<on, top, delivered, copies, unrecorded>>

\* No lease changes.
LEMMA LeasesStay ==
    ASSUME PollInv, UNCHANGED <<lease, owed, quiet>>
    PROVE  MarksFall /\ lease' \in [Sources -> LeaseType] /\ owed' \subseteq Pairs
<1>1. \A s \in Sources : Leased(s)' = Leased(s)
  BY DEF Leased
<1>. QED BY <1>1 DEF quiet, MarksFall, PollInv, MarksTrue, TypeOK, LeaseType

\* Some go.
LEMMA LeasesGo ==
    ASSUME PollInv, NEW S \in SUBSET Sources, Forget(S), UNCHANGED quiet
    PROVE  MarksFall /\ lease' \in [Sources -> LeaseType] /\ owed' \subseteq Pairs
<1>0. TypeOK /\ MarksTrue /\ SourceOf \in [Tasks -> Sources]
  BY SourceAssumption DEF PollInv
<1>1. NoLease \in LeaseType /\ NoLease.seen = 0 /\ NoLease.by = NoOne
  BY NumberAssumption DEF NoLease, LeaseType, Ids
<1>2. \A s \in Sources : lease[s] \in LeaseType
  BY <1>0 DEF TypeOK, LeaseType
<1>3. lease' = [s \in Sources |-> IF s \in S THEN NoLease ELSE lease[s]]
  BY DEF Forget
<1>4. owed' \subseteq owed /\ owed \subseteq Pairs
      /\ \A x \in owed' : x[1] \in Tasks /\ SourceOf[x[1]] \in Sources \ S
  <2>1. owed' \subseteq owed /\ owed \subseteq Pairs
    BY <1>0 DEF Forget, TypeOK
  <2>2. \A x \in owed' : x \in Pairs /\ x[1] \in Tasks /\ SourceOf[x[1]] \in Sources
    BY <1>0, <2>1 DEF Pairs
  <2>3. \A x \in owed' : SourceOf[x[1]] \notin S
    BY <2>2 DEF Forget, PairsOf
  <2>. QED BY <2>1, <2>2, <2>3
<1>5. lease' \in [Sources -> LeaseType]
  BY <1>1, <1>2, <1>3
<1>6. \A s \in Sources : lease'[s] = IF s \in S THEN NoLease ELSE lease[s]
  BY <1>3
<1>7. \A s \in Sources : /\ lease'[s].seen \in {0, lease[s].seen}
                         /\ ~Leased(s)' => lease'[s].seen = 0
  BY <1>0, <1>1, <1>6 DEF Leased, MarksTrue
<1>8. \A x \in owed' : lease'[SourceOf[x[1]]] = lease[SourceOf[x[1]]]
  BY <1>4, <1>6
<1>9. MarksFall
  BY <1>4, <1>7, <1>8 DEF MarksFall, quiet
<1>. QED BY <1>4, <1>5, <1>9

\* One comes, for a source that has none.
LEMMA LeaseComes ==
    ASSUME PollInv, NEW s \in Sources, ~Leased(s), NEW a \in Accounts \cup {NoOne}, NEW i \in Ids,
           lease' = [lease EXCEPT ![s] = [by |-> a, seen |-> 0, id |-> i]],
           UNCHANGED <<owed, quiet>>
    PROVE  MarksFall /\ lease' \in [Sources -> LeaseType] /\ owed' \subseteq Pairs
<1>. DEFINE new == [by |-> a, seen |-> 0, id |-> i]
<1>0. TypeOK /\ MarksTrue /\ OwedAbove /\ SourceOf \in [Tasks -> Sources]
  BY SourceAssumption DEF PollInv
<1>1. new \in LeaseType /\ new.seen = 0
  BY NumberAssumption DEF LeaseType
<1>2. lease \in [Sources -> LeaseType] /\ owed \subseteq Pairs
  BY <1>0 DEF TypeOK, LeaseType
<1>. HIDE DEF new
<1>3. lease' = [lease EXCEPT ![s] = new]
  BY DEF new
<1>4. lease' \in [Sources -> LeaseType]
  BY <1>1, <1>2, <1>3
<1>5. \A z \in Sources : lease'[z] = IF z = s THEN new ELSE lease[z]
  BY <1>2, <1>3
<1>6. \A z \in Sources : /\ lease'[z].seen \in {0, lease[z].seen}
                         /\ ~Leased(z)' => lease'[z].seen = 0
  BY <1>0, <1>1, <1>5 DEF Leased, MarksTrue
<1>7. lease[s].seen = 0
  BY <1>0 DEF MarksTrue
<1>8. \A x \in owed : SourceOf[x[1]] \in Sources \ {s}
  BY <1>0, <1>2, <1>7 DEF OwedAbove, Pairs
<1>. QED BY <1>2, <1>4, <1>5, <1>6, <1>8 DEF MarksFall, quiet

\* A walk that changes no other table than the leases and the accounts is sound.
Fine(c) == Walks(c) /\ MarksFall /\ TypeOK'

\* A step that walks with the marks falling is fine, if what it writes has its type.
LEMMA FineStep ==
    ASSUME PollInv, NEW c \in Coroutines, NEW m, WalksTo(c, m), MarksFall,
           lease' \in [Sources -> LeaseType], owed' \subseteq Pairs,
           account' \in [Accounts -> AccountRow], key' = key,
           client' \in [Accounts -> {"none", "good", "dead"}],
           trouble' \in 0 .. MaxTrouble
    PROVE  Fine(c)
<1>1. TypeOK /\ proc' \in [Coroutines -> Locals]
  BY OneWalks DEF PollInv, WalksTo
<1>2. UNCHANGED <<key, on, top, delivered, copies, unrecorded>>
  BY DEF MarksFall
<1>3. TypeOK'
  BY <1>1, <1>2 DEF TypeOK, LeaseType, AccountRow
<1>. QED BY <1>3 DEF Fine, Walks

\* The accounts and the clients stay.
LEMMA FineTurn ==
    ASSUME PollInv, NEW c \in Coroutines, NEW m, WalksTo(c, m), MarksFall,
           lease' \in [Sources -> LeaseType], owed' \subseteq Pairs,
           UNCHANGED <<account, key, client, trouble>>
    PROVE  Fine(c)
  BY FineStep DEF PollInv, TypeOK, AccountRow

\* A coroutine that returns is idle, or the poller goes on with its round.
LEMMA ReturnWalks ==
    ASSUME PollInv, NEW c \in Coroutines, ~At(c, "record"), ~At(c, "idle"), Return(c)
    PROVE  WalksTo(c, Rest(c))
<1>1. TypeOK /\ (P.pc # "record" => P.sent = {})
  BY DEF PollInv, CopiesTold
<1>. QED BY <1>1, RestIs DEF Return, WalksTo, At, P, Away

\* Only the step changes.
LEMMA GotoWalks ==
    ASSUME PollInv, NEW c \in Coroutines, ~At(c, "record"), ~At(c, "idle"), ~At(c, "round"),
           NEW x \in Steps \ Away,
           x \in {"find", "drop", "choose", "insert"} => proc[c].src \in Sources, Goto(c, x)
    PROVE  WalksTo(c, [proc[c] EXCEPT !.pc = x])
<1>. DEFINE m == [proc[c] EXCEPT !.pc = x]
<1>1. TypeOK /\ (P.pc # "record" => P.sent = {}) /\ AtSource
  BY DEF PollInv, CopiesTold
<1>2. proc[c] \in Locals
  BY <1>1 DEF TypeOK
<1>3. m \in Locals /\ m.pc = x /\ m.src = proc[c].src /\ m.jobs = proc[c].jobs
               /\ m.sent = proc[c].sent
  <2>. x \in Steps
    OBVIOUS
  <2>. QED BY <1>2, StepLocal
<1>4. m.src = proc[c].src /\ m.jobs = proc[c].jobs /\ m.sent = proc[c].sent
  BY <1>3
<1>5. proc' = [proc EXCEPT ![c] = m]
  BY DEF Goto
<1>. HIDE DEF m
<1>6. WalksTo(c, m)
  BY <1>1, <1>3, <1>4, <1>5 DEF WalksTo, P, At, Away, AtSource
<1>. QED BY <1>6 DEF m

-----------------------------------------------------------------------------
\* Who leases, step by step.
LEMMA FindIsFine ==
    ASSUME PollInv, NEW c \in Coroutines, Find(c)
    PROVE  Fine(c)
<1>. DEFINE held == lease[proc[c].src]
            who == IF account[held.by].exists THEN held.by ELSE NoOne
<1>. PICK l, a, i, b : l = proc[c] /\ a = held.by /\ i = held.id /\ b = who
  OBVIOUS
<1>. DEFINE m1 == [l EXCEPT !.pc = "client", !.by = a]
            m2 == [l EXCEPT !.pc = "drop", !.id = i, !.by = b]
<1>0. /\ TypeOK /\ AtSource /\ proc[c].src \in Sources /\ l \in Locals /\ l.pc = "find"
      /\ P.pc # "record" => P.sent = {}
  BY DEF PollInv, AtSource, Find, At, TypeOK, CopiesTold
<1>1. held \in LeaseType
  BY <1>0 DEF TypeOK, LeaseType
<1>2. a \in Accounts \cup {NoOne} /\ i \in Ids /\ b \in Accounts \cup {NoOne}
  BY <1>1 DEF LeaseType
<1>3. \/ Goto(c, "choose")
      \/ proc' = [proc EXCEPT ![c] = m1]
      \/ proc' = [proc EXCEPT ![c] = m2]
  BY DEF Find
<1>4. UNCHANGED <<account, key, client, lease, owed, quiet, trouble>>
  BY DEF Find, world, quiet
<1>5. MarksFall /\ lease' \in [Sources -> LeaseType] /\ owed' \subseteq Pairs
  BY <1>4, LeasesStay
<1>. HIDE DEF held, who
<1>7. m1 \in Locals /\ m1.pc = "client" /\ m1.src = l.src /\ m1.jobs = l.jobs /\ m1.sent = l.sent
  BY <1>0, <1>2 DEF Locals, Steps
<1>8. m2 \in Locals /\ m2.pc = "drop" /\ m2.src = l.src /\ m2.jobs = l.jobs /\ m2.sent = l.sent
  BY <1>0, <1>2 DEF Locals, Steps
<1>. HIDE DEF m1, m2
<1>9. CASE Goto(c, "choose")
  BY <1>0, <1>4, <1>5, <1>9, GotoWalks, FineTurn DEF Steps, Away, At
<1>10. CASE proc' = [proc EXCEPT ![c] = m1]
  <2>1. WalksTo(c, m1)
    BY <1>0, <1>7, <1>10 DEF WalksTo, P, At, Away, AtSource
  <2>. QED BY <1>4, <1>5, <2>1, FineTurn
<1>11. CASE proc' = [proc EXCEPT ![c] = m2]
  <2>1. WalksTo(c, m2)
    BY <1>0, <1>8, <1>11 DEF WalksTo, P, At, Away, AtSource
  <2>. QED BY <1>4, <1>5, <2>1, FineTurn
<1>. QED BY <1>3, <1>9, <1>10, <1>11

\* The rotten lease is deleted, and its mark with it: what it owed is not owed.
LEMMA DropLeaseIsFine ==
    ASSUME PollInv, NEW c \in Coroutines, DropLease(c)
    PROVE  Fine(c)
<1>. DEFINE s == proc[c].src
            gone == {x \in {s} : Leased(x) /\ lease[x].id = proc[c].id}
<1>. PICK l : l = proc[c]
  OBVIOUS
<1>. DEFINE m == [l EXCEPT !.pc = "choose", !.by = NoOne, !.id = 0]
<1>0. /\ TypeOK /\ AtSource /\ s \in Sources /\ l \in Locals /\ l.pc = "drop"
      /\ P.pc # "record" => P.sent = {}
  BY DEF PollInv, AtSource, DropLease, At, TypeOK, CopiesTold
<1>1. UNCHANGED <<account, key, client, quiet, trouble>>
  BY DEF DropLease, world, quiet
<1>2. CASE Return(c) /\ UNCHANGED <<lease, owed>>
  BY <1>0, <1>1, <1>2, LeasesStay, ReturnWalks, FineTurn DEF At
<1>3. CASE proc' = [proc EXCEPT ![c] = m] /\ Forget(gone)
  <2>1. m \in Locals /\ m.pc = "choose" /\ m.src = l.src /\ m.jobs = l.jobs /\ m.sent = l.sent
    BY <1>0 DEF Locals, Steps, Ids
  <2>. HIDE DEF m
  <2>2. WalksTo(c, m)
    BY <1>0, <1>3, <2>1 DEF WalksTo, P, At, Away, AtSource
  <2>3. gone \in SUBSET Sources
    BY <1>0
  <2>. HIDE DEF gone
  <2>. QED BY <1>1, <1>3, <2>2, <2>3, LeasesGo, FineTurn
<1>. QED BY <1>2, <1>3 DEF DropLease

\* An account is chosen for the source, or none; no mark moves.
LEMMA ChooseIsFine ==
    ASSUME PollInv, NEW c \in Coroutines, Choose(c)
    PROVE  Fine(c)
<1>. PICK l : l = proc[c]
  OBVIOUS
<1>0. /\ TypeOK /\ AtSource /\ proc[c].src \in Sources /\ l \in Locals /\ l.pc = "choose"
      /\ P.pc # "record" => P.sent = {}
  BY DEF PollInv, AtSource, Choose, At, TypeOK, CopiesTold
<1>1. UNCHANGED <<account, key, client, lease, owed, quiet, trouble>>
  BY DEF Choose, world, quiet
<1>2. MarksFall /\ lease' \in [Sources -> LeaseType] /\ owed' \subseteq Pairs
  BY <1>1, LeasesStay
<1>3. CASE Return(c)
  BY <1>0, <1>1, <1>2, <1>3, ReturnWalks, FineTurn DEF At
<1>4. ASSUME NEW a \in Accounts, proc' = [proc EXCEPT ![c].pc = "insert", ![c].by = a]
      PROVE  Fine(c)
  <2>. DEFINE m == [l EXCEPT !.pc = "insert", !.by = a]
  <2>1. m \in Locals /\ m.pc = "insert" /\ m.src = l.src /\ m.jobs = l.jobs /\ m.sent = l.sent
    BY <1>0 DEF Steps, Locals
  <2>2. proc' = [proc EXCEPT ![c] = m]
    BY <1>4
  <2>. HIDE DEF m
  <2>3. WalksTo(c, m)
    BY <1>0, <2>1, <2>2 DEF WalksTo, P, At, Away, AtSource
  <2>. QED BY <1>1, <1>2, <2>3, FineTurn
<1>. QED BY <1>3, <1>4 DEF Choose

\* A new lease has no mark yet, and a lost race leaves the lease that is there.
LEMMA InsertIsFine ==
    ASSUME PollInv, NEW c \in Coroutines, InsertLease(c)
    PROVE  Fine(c)
<1>. DEFINE s == proc[c].src
<1>0. /\ TypeOK /\ AtSource /\ s \in Sources /\ proc[c] \in Locals /\ proc[c].pc = "insert"
      /\ proc[c].by \in Accounts \cup {NoOne}
  BY DEF PollInv, AtSource, InsertLease, At, TypeOK, Locals
<1>1. UNCHANGED <<account, key, client, owed, quiet, trouble>>
  BY DEF InsertLease, world, quiet
<1>2. CASE Leased(s)
  <2>1. Return(c) /\ lease' = lease
    BY <1>2 DEF InsertLease
  <2>. QED BY <1>0, <1>1, <2>1, LeasesStay, ReturnWalks, FineTurn DEF At
<1>3. CASE ~Leased(s)
  <2>1. PICK i \in Ids : lease' = [lease EXCEPT ![s] = [by |-> proc[c].by, seen |-> 0, id |-> i]]
    BY <1>3 DEF InsertLease
  <2>2. MarksFall /\ lease' \in [Sources -> LeaseType] /\ owed' \subseteq Pairs
    BY <1>0, <1>1, <1>3, <2>1, LeaseComes
  <2>3. Goto(c, "client")
    BY <1>3 DEF InsertLease
  <2>. QED BY <1>0, <1>1, <2>2, <2>3, GotoWalks, FineTurn DEF Steps, Away, At
<1>. QED BY <1>2, <1>3

\* A client that connects, or is refused, moves no mark.
LEMMA ConnectIsFine ==
    ASSUME PollInv, NEW c \in Coroutines, Connect(c)
    PROVE  Fine(c)
<1>0. /\ TypeOK /\ proc[c].pc = "client" /\ proc[c] \in Locals
  BY DEF PollInv, Connect, At, TypeOK
<1>1. UNCHANGED <<account, key, lease, owed, quiet, trouble>>
  BY DEF Connect, world, quiet
<1>2. MarksFall /\ lease' \in [Sources -> LeaseType] /\ owed' \subseteq Pairs
  BY <1>1, LeasesStay
<1>3. client' \in [Accounts -> {"none", "good", "dead"}]
  BY <1>0 DEF Connect, TypeOK
<1>4. Goto(c, "seen") \/ Goto(c, "ban") \/ Return(c)
  BY DEF Connect, HasClient
<1>5. \E m : WalksTo(c, m)
  BY <1>0, <1>4, GotoWalks, ReturnWalks DEF Steps, Away, At
<1>. QED BY <1>0, <1>1, <1>2, <1>3, <1>5, FineStep DEF TypeOK, AccountRow

\* All the leases of a banned account go, with their marks.
LEMMA BanIsFine ==
    ASSUME PollInv, NEW c \in Coroutines, Ban(c)
    PROVE  Fine(c)
<1>. DEFINE a == proc[c].by
            gone == {s \in Sources : lease[s].by = a}
<1>0. TypeOK /\ proc[c].pc = "ban"
  BY DEF PollInv, Ban, At
<1>1. UNCHANGED <<key, client, quiet, trouble>> /\ Forget(gone)
  BY DEF Ban, world, quiet
<1>2. MarksFall /\ lease' \in [Sources -> LeaseType] /\ owed' \subseteq Pairs
  <2>1. gone \in SUBSET Sources
    OBVIOUS
  <2>. HIDE DEF gone
  <2>. QED BY <1>1, <2>1, LeasesGo
<1>3. account' \in [Accounts -> AccountRow]
  <2>. PICK b, r : b = a /\ r = account[a]
    OBVIOUS
  <2>. DEFINE new == [r EXCEPT !.enabled = FALSE, !.state = "banned"]
  <2>1. account' = account \/ account' = [account EXCEPT ![b] = new]
    BY DEF Ban
  <2>2. account \in [Accounts -> AccountRow] /\ (b \in Accounts => r \in AccountRow)
    BY <1>0 DEF TypeOK, AccountRow
  <2>3. b \in Accounts => new \in AccountRow
    BY <2>2 DEF AccountRow
  <2>. HIDE DEF new
  <2>. QED BY <2>1, <2>2, <2>3
<1>4. WalksTo(c, Rest(c))
  BY <1>0, ReturnWalks DEF Ban, At
<1>. QED BY <1>0, <1>1, <1>2, <1>3, <1>4, FineStep DEF TypeOK

\* A step of leasing is one of these.
LEMMA LeasingIsFine ==
    ASSUME PollInv, NEW c \in Coroutines, Leasing(c)
    PROVE  Fine(c)
  BY FindIsFine, DropLeaseIsFine, ChooseIsFine, InsertIsFine, ConnectIsFine, BanIsFine DEF Leasing

\* A reader asks for the client of a source.
LEMMA AskIsFine ==
    ASSUME PollInv, NEW c \in Coroutines, Ask(c)
    PROVE  Fine(c)
<1>. PICK l : l = proc[c]
  OBVIOUS
<1>0. /\ TypeOK /\ c # Poller /\ l \in Locals
  BY PollerAssumption DEF PollInv, Ask, TypeOK
<1>1. UNCHANGED <<account, key, client, lease, owed, quiet, trouble>>
  BY DEF Ask, world, quiet
<1>2. MarksFall /\ lease' \in [Sources -> LeaseType] /\ owed' \subseteq Pairs
  BY <1>1, LeasesStay
<1>3. ASSUME NEW s \in Sources, proc' = [proc EXCEPT ![c].pc = "find", ![c].src = s]
      PROVE  Fine(c)
  <2>. DEFINE m == [l EXCEPT !.pc = "find", !.src = s]
  <2>1. m \in Locals /\ m.pc = "find" /\ m.src = s
    BY <1>0 DEF Locals, Steps
  <2>2. proc' = [proc EXCEPT ![c] = m]
    BY <1>3
  <2>. HIDE DEF m
  <2>3. WalksTo(c, m)
    BY <1>0, <2>1, <2>2 DEF WalksTo
  <2>. QED BY <1>1, <1>2, <2>3, FineTurn
<1>4. ASSUME NEW a \in Accounts, proc' = [proc EXCEPT ![c].pc = "client", ![c].by = a]
      PROVE  Fine(c)
  <2>. DEFINE m == [l EXCEPT !.pc = "client", !.by = a]
  <2>1. m \in Locals /\ m.pc = "client"
    BY <1>0 DEF Locals, Steps
  <2>2. proc' = [proc EXCEPT ![c] = m]
    BY <1>4
  <2>. HIDE DEF m
  <2>3. WalksTo(c, m)
    BY <1>0, <2>1, <2>2 DEF WalksTo
  <2>. QED BY <1>1, <1>2, <2>3, FineTurn
<1>. QED BY <1>3, <1>4 DEF Ask

\* Steps of the poller between its sources.
LEMMA RoundIsFine ==
    ASSUME PollInv, Round
    PROVE  Fine(Poller)
<1>. DEFINE m == [Idle EXCEPT !.pc = "round", !.jobs = on, !.todo = Wanted(on)]
<1>0. /\ TypeOK /\ P.pc = "idle" /\ P.sent = {} /\ Poller \in Coroutines
  BY DEF PollInv, Round, At, CopiesTold, P, Coroutines
<1>1. UNCHANGED <<account, key, client, lease, owed, quiet, trouble>>
  BY DEF Round, world, quiet
<1>2. MarksFall /\ lease' \in [Sources -> LeaseType] /\ owed' \subseteq Pairs
  BY <1>1, LeasesStay
<1>3. on \subseteq Tasks /\ Wanted(on) \subseteq Sources
  BY <1>0, SourceAssumption DEF TypeOK, Wanted
<1>4. m \in Locals /\ m.pc = "round" /\ m.jobs = on /\ m.sent = {}
  BY <1>3 DEF Idle, Locals, Steps, Ids
<1>5. proc' = [proc EXCEPT ![Poller] = m]
  BY DEF Round
<1>. HIDE DEF m
<1>6. WalksTo(Poller, m)
  BY <1>0, <1>4, <1>5 DEF WalksTo, Away
<1>. QED BY <1>0, <1>1, <1>2, <1>6, FineTurn

\* The poller takes the next source of its round.
LEMMA NextSourceIsFine ==
    ASSUME PollInv, NextSource
    PROVE  Fine(Poller)
<1>. PICK l : l = proc[Poller]
  OBVIOUS
<1>0. /\ TypeOK /\ P.pc = "round" /\ P.sent = {} /\ Poller \in Coroutines /\ l \in Locals
  BY DEF PollInv, NextSource, At, CopiesTold, P, Coroutines, TypeOK
<1>1. UNCHANGED <<account, key, client, lease, owed, quiet, trouble>>
  BY DEF NextSource, world, quiet
<1>2. MarksFall /\ lease' \in [Sources -> LeaseType] /\ owed' \subseteq Pairs
  BY <1>1, LeasesStay
<1>3. PICK s \in l.todo : proc' = [proc EXCEPT ![Poller].pc = "find", ![Poller].src = s,
                                              ![Poller].todo = @ \ {s}]
  BY DEF NextSource
<1>. DEFINE m == [l EXCEPT !.pc = "find", !.src = s, !.todo = @ \ {s}]
<1>4. s \in Sources
  BY <1>0 DEF Locals
<1>5. m \in Locals /\ m.pc = "find" /\ m.src = s /\ m.jobs = l.jobs /\ m.sent = l.sent
  BY <1>0, <1>4 DEF Locals, Steps
<1>6. proc' = [proc EXCEPT ![Poller] = m]
  BY <1>3
<1>. HIDE DEF m
<1>7. WalksTo(Poller, m)
  BY <1>0, <1>4, <1>5, <1>6 DEF WalksTo, Away, P
<1>. QED BY <1>0, <1>1, <1>2, <1>7, FineTurn

\* A read that comes to nothing, and what is noted of the account.
LEMMA ReadEnds ==
    ASSUME PollInv, ReadFails \/ ReadDead \/ ReadFlooded \/ MarkFlood
    PROVE  Fine(Poller)
<1>0. /\ TypeOK /\ P.pc \in {"read", "flood"} /\ Poller \in Coroutines
  BY DEF PollInv, ReadFails, ReadDead, ReadFlooded, MarkFlood, At, P, Coroutines, TypeOK
<1>1. UNCHANGED <<key, client, lease, owed, quiet>>
  BY DEF ReadFails, ReadDead, ReadFlooded, MarkFlood, world, quiet
<1>2. MarksFall /\ lease' \in [Sources -> LeaseType] /\ owed' \subseteq Pairs
  BY <1>1, LeasesStay
<1>3. account' \in [Accounts -> AccountRow]
  <2>1. CASE account' = account
    BY <1>0, <2>1 DEF TypeOK, AccountRow
  <2>2. CASE MarkFlood
    <3>. PICK b, r : b = P.by /\ r = account[b]
      OBVIOUS
    <3>. DEFINE new == [r EXCEPT !.state = "flood"]
    <3>1. account' = account \/ account' = [account EXCEPT ![b] = new]
      BY <2>2 DEF MarkFlood, P
    <3>2. account \in [Accounts -> AccountRow] /\ (b \in Accounts => r \in AccountRow)
      BY <1>0 DEF TypeOK, AccountRow
    <3>3. b \in Accounts => new \in AccountRow
      BY <3>2 DEF AccountRow
    <3>. HIDE DEF new
    <3>. QED BY <3>1, <3>2, <3>3
  <2>. QED BY <2>1, <2>2 DEF ReadFails, ReadDead, ReadFlooded
<1>4. trouble' \in 0 .. MaxTrouble
  BY <1>0, NumberAssumption DEF TypeOK, ReadFails, ReadDead, ReadFlooded, MarkFlood, world, Happens
<1>5. Return(Poller) \/ Goto(Poller, "ban") \/ Goto(Poller, "flood")
  BY DEF ReadFails, ReadDead, ReadFlooded, MarkFlood
<1>6. \E m : WalksTo(Poller, m)
  BY <1>0, <1>5, GotoWalks, ReturnWalks DEF Steps, Away, At, P
<1>. QED BY <1>0, <1>1, <1>2, <1>3, <1>4, <1>6, FineStep DEF TypeOK

-----------------------------------------------------------------------------
\* PublicPoller._poll: the poller stays at its source.
StaysTo(m) ==
    /\ m \in Locals /\ proc' = [proc EXCEPT ![Poller] = m]
    /\ P.pc \in {"seen", "read", "offer", "record"} /\ m.pc \in Away \cup {"record"}
    /\ m.src = P.src /\ m.jobs = P.jobs
    /\ owed' \subseteq owed
    /\ UNCHANGED <<account, key, client, lease, on, top, unrecorded, trouble>>

\* A step of the poller at its source keeps what concerns the marks.
LEMMA StayKeeps ==
    ASSUME PollInv, NEW m, StaysTo(m), copies' \in [Pairs -> Nat], delivered' \subseteq Pairs
    PROVE  /\ TypeOK' /\ AtSource' /\ MarksTrue' /\ OwedAbove' /\ P' = m
           /\ P.src \in Sources /\ OwedHere' \subseteq OwedHere /\ P \in Locals
<1>0. TypeOK /\ Poller \in Coroutines
  BY DEF PollInv, Coroutines
<1>1. /\ proc' \in [Coroutines -> Locals] /\ P' = m
      /\ \A d \in Coroutines \ {Poller} : proc'[d] = proc[d]
  BY <1>0, OneWalks DEF StaysTo, P
<1>2. TypeOK'
  BY <1>0, <1>1 DEF TypeOK, StaysTo
<1>3. P.src \in Sources
  BY <1>0 DEF PollInv, AtSource, StaysTo
<1>4. AtSource'
  <2>1. m.pc \notin {"find", "drop", "choose", "insert"} /\ m.src \in Sources
    BY <1>3 DEF StaysTo, Away
  <2>. QED BY <1>1, <2>1 DEF AtSource, PollInv, P
<1>5. MarksTrue'
  BY DEF MarksTrue, PollInv, StaysTo, Leased
<1>6. OwedAbove'
  BY <1>1 DEF OwedAbove, PollInv, StaysTo
<1>7. OwedHere' \subseteq OwedHere
  BY <1>1 DEF OwedHere, StaysTo
<1>8. P \in Locals
  BY <1>0 DEF TypeOK, P
<1>. QED BY <1>1, <1>2, <1>3, <1>4, <1>5, <1>6, <1>7, <1>8

\* The mark is read, and whatever is owed is above it.
LEMMA ReadMarkKeeps ==
    ASSUME PollInv, ReadMark
    PROVE  PollInv'
<1>. PICK l, n : l = P /\ n = Mark
  OBVIOUS
<1>. DEFINE m == [l EXCEPT !.pc = "read", !.seen = n]
<1>0. /\ TypeOK /\ P.pc = "seen" /\ P.sent = {} /\ l \in Locals /\ P.src \in Sources
  BY DEF PollInv, ReadMark, At, CopiesTold, AtSource, P, TypeOK, Coroutines
<1>1. /\ lease[P.src].seen \in Nat /\ lease[P.src].seen = n /\ n <= top[P.src]
      /\ \A x \in OwedHere : n < x[2]
  <2>1. lease[P.src].seen \in Nat
    BY <1>0, NumberAssumption DEF TypeOK
  <2>2. lease[P.src].seen = n /\ n <= top[P.src]
    BY <1>0 DEF Mark, Src, P, PollInv, MarksTrue
  <2>. QED BY <2>1, <2>2 DEF PollInv, OwedAbove, OwedHere
<1>2. m \in Locals /\ m.pc = "read" /\ m.src = l.src /\ m.jobs = l.jobs /\ m.sent = l.sent /\ m.seen = n
  BY <1>0, <1>1 DEF Locals, Steps
<1>3. proc' = [proc EXCEPT ![Poller] = m]
  BY DEF ReadMark, P
<1>. HIDE DEF m
<1>4. StaysTo(m) /\ UNCHANGED <<copies, delivered, owed>>
  BY <1>0, <1>2, <1>3 DEF StaysTo, ReadMark, world, Away
<1>5. /\ TypeOK' /\ AtSource' /\ MarksTrue' /\ OwedAbove' /\ P' = m
      /\ P.src \in Sources /\ OwedHere' \subseteq OwedHere
  BY <1>0, <1>4, StayKeeps DEF TypeOK
<1>6. InHand'
  BY <1>0, <1>1, <1>2, <1>4, <1>5 DEF InHand, StaysTo
<1>7. CopiesTold'
  BY <1>0, <1>2, <1>4, <1>5 DEF CopiesTold, PollInv, Shown, StaysTo
<1>. QED BY <1>5, <1>6, <1>7 DEF PollInv

\* A post that is owed, can be read and is not missed is offered.
LEMMA OwedIsOffered ==
    ASSUME PollInv, P.pc = "read", NEW x \in OwedHere, x[2] \notin Missed(Src, P.seen), x[2] <= top[Src]
    PROVE  x \in JobsOf(Src) \X Fresh /\ P.seen > 0
<1>0. TypeOK /\ P \in Locals /\ P.src \in Sources /\ Src = P.src
  BY DEF PollInv, TypeOK, P, Coroutines, AtSource, Src
<1>1. x \in Pairs /\ x \in owed /\ SourceOf[x[1]] = P.src /\ x[2] \in Posts /\ x[1] \in Tasks
  BY <1>0 DEF OwedHere, TypeOK, Pairs
<1>2. P.seen \in Nat /\ P.seen < x[2] /\ lease[P.src].seen <= P.seen /\ 0 < lease[P.src].seen
  BY <1>0, <1>1 DEF PollInv, InHand, OwedAbove, Locals
<1>3. lease[P.src].seen \in Nat /\ top[P.src] \in Nat /\ x[2] \in Nat /\ Lookback \in Nat
  BY <1>0, <1>1, NumberAssumption DEF TypeOK, Posts
<1>4. x[2] \in Window(Src)
  BY <1>0, <1>1, <1>2, <1>3 DEF Window, Missed
<1>5. x[2] \in Fresh
  BY <1>2, <1>4 DEF Fresh, P
<1>6. x[1] \in JobsOf(Src)
  BY <1>0, <1>1 DEF JobsOf, P, PollInv, OwedAbove
<1>. QED BY <1>1, <1>2, <1>3, <1>5, <1>6 DEF Pairs

\* The source is read: what is owed up to the newest post is in hand, or
\* the first reading marks the newest post and owes nothing.
LEMMA ReadSourceKeeps ==
    ASSUME PollInv, ReadSource
    PROVE  PollInv'
<1>0. /\ TypeOK /\ P.pc = "read" /\ P.sent = {} /\ P \in Locals /\ P.src \in Sources /\ Src = P.src
      /\ Poller \in Coroutines
  BY DEF PollInv, ReadSource, At, CopiesTold, AtSource, P, TypeOK, Coroutines, Src
<1>1. CASE Fresh = {}
  <2>1. UNCHANGED <<account, key, client, lease, owed, quiet, trouble>> /\ Return(Poller)
    BY <1>1 DEF ReadSource, world, quiet
  <2>2. MarksFall /\ lease' \in [Sources -> LeaseType] /\ owed' \subseteq Pairs
    BY <2>1, LeasesStay
  <2>3. Fine(Poller)
    BY <1>0, <2>1, <2>2, ReturnWalks, FineTurn DEF At, P
  <2>. QED BY <1>0, <2>3, WalkKeeps DEF Fine, PollParts, PollInv
<1>2. CASE Fresh # {}
  <2>. PICK l, n, x, y : /\ l = P /\ n = top[P.src]
                         /\ x = (IF P.seen = 0 THEN "remember" ELSE "offer")
                         /\ y = (IF P.seen = 0 THEN {} ELSE JobsOf(Src) \X Fresh)
    OBVIOUS
  <2>. DEFINE m == [l EXCEPT !.newest = n, !.by = NoOne, !.pc = x, !.left = y]
  <2>1. n \in Nat /\ y \in SUBSET Pairs /\ x \in {"remember", "offer"}
    <3>1. JobsOf(Src) \subseteq Tasks
      BY <1>0 DEF JobsOf, Locals, P
    <3>2. Fresh \subseteq Posts
      BY DEF Fresh, Window
    <3>. QED BY <1>0, <3>1, <3>2 DEF Pairs, TypeOK
  <2>2. /\ m \in Locals /\ m.pc = x /\ m.src = l.src /\ m.jobs = l.jobs /\ m.sent = l.sent
        /\ m.newest = n /\ m.left = y
    BY <1>0, <2>1 DEF Locals, Steps
  <2>3. proc' = [proc EXCEPT ![Poller] = m]
    BY <1>0, <1>2 DEF ReadSource, P
  <2>4. owed' = {z \in owed : ~(SourceOf[z[1]] = Src /\ z[2] \in Missed(Src, P.seen))}
    BY <1>2 DEF ReadSource, P
  <2>. HIDE DEF m
  <2>5. StaysTo(m) /\ UNCHANGED <<copies, delivered>>
    BY <1>0, <2>1, <2>2, <2>3, <2>4 DEF StaysTo, ReadSource, world, Away
  <2>6. /\ TypeOK' /\ AtSource' /\ MarksTrue' /\ OwedAbove' /\ P' = m
        /\ P.src \in Sources /\ OwedHere' \subseteq OwedHere
    BY <1>0, <2>5, StayKeeps DEF TypeOK
  <2>7. \A z \in OwedHere' : z \in OwedHere /\ z[2] \notin Missed(Src, P.seen)
    BY <1>0, <2>2, <2>4, <2>6 DEF OwedHere
  <2>8. \A z \in OwedHere' : z[2] <= n => z \in JobsOf(Src) \X Fresh /\ P.seen > 0
    BY <1>0, <2>7, OwedIsOffered
  <2>9. \A z \in OwedHere' : z[2] \in Nat
    BY <1>0, <2>7, NumberAssumption DEF OwedHere, TypeOK, Pairs, Posts
  <2>10. InHand'
    BY <1>0, <2>1, <2>2, <2>5, <2>6, <2>8, <2>9 DEF InHand, StaysTo
  <2>11. CopiesTold'
    BY <1>0, <2>1, <2>2, <2>5, <2>6 DEF CopiesTold, PollInv, Shown, StaysTo
  <2>. QED BY <2>6, <2>10, <2>11 DEF PollInv
<1>. QED BY <1>1, <1>2

\* A post is dealt with: it is neither in hand nor owed any more.
LEMMA DoneKeeps ==
    ASSUME PollInv, P.pc \in {"offer", "record"}, NEW x, Done(x),
           UNCHANGED <<account, key, client, lease, on, top, copies, unrecorded, trouble>>,
           delivered' = delivered \cup P.sent
    PROVE  PollInv'
<1>0. /\ TypeOK /\ P \in Locals /\ P.src \in Sources /\ P.sent \subseteq Pairs
  BY DEF PollInv, AtSource, P, TypeOK, Coroutines, Locals
<1>. PICK l, y : l = P /\ y = P.left \ {x}
  OBVIOUS
<1>. DEFINE m == [l EXCEPT !.pc = "offer", !.left = y, !.sent = {}]
<1>1. y \in SUBSET Pairs
  BY <1>0 DEF Locals
<1>2. /\ m \in Locals /\ m.pc = "offer" /\ m.src = l.src /\ m.jobs = l.jobs /\ m.sent = {}
      /\ m.newest = l.newest /\ m.left = y
  BY <1>0, <1>1 DEF Locals, Steps
<1>3. proc' = [proc EXCEPT ![Poller] = m] /\ owed' = owed \ {x}
  BY DEF Done, P
<1>. HIDE DEF m
<1>4. StaysTo(m)
  BY <1>0, <1>2, <1>3 DEF StaysTo, Away
<1>5. /\ TypeOK' /\ AtSource' /\ MarksTrue' /\ OwedAbove' /\ P' = m
      /\ P.src \in Sources /\ OwedHere' \subseteq OwedHere
  BY <1>0, <1>4, StayKeeps DEF TypeOK
<1>6. InHand'
  BY <1>2, <1>3, <1>4, <1>5 DEF InHand, PollInv, StaysTo, OwedHere
<1>7. CopiesTold'
  <2>1. \A z \in Pairs : Shown(z)' = Shown(z)
    BY <1>2, <1>5 DEF Shown
  <2>. QED BY <1>2, <1>5, <2>1 DEF CopiesTold, PollInv
<1>. QED BY <1>5, <1>6, <1>7 DEF PollInv

\* The oldest pair is offered: it was delivered before, or is sent now.
LEMMA OfferKeeps ==
    ASSUME PollInv, Offer
    PROVE  PollInv'
<1>0. /\ TypeOK /\ P.pc = "offer" /\ P.sent = {} /\ P \in Locals /\ P.src \in Sources
  BY DEF PollInv, Offer, At, CopiesTold, AtSource, P, TypeOK, Coroutines
<1>1. UNCHANGED <<account, key, client, lease, on, top, delivered, unrecorded, trouble>>
  BY DEF Offer
<1>. PICK x \in Oldest :
        \/ Done(x) /\ UNCHANGED copies
        \/ /\ ~AlreadySent(x)
           /\ copies' = [copies EXCEPT ![x] = @ + 1]
           /\ proc' = [proc EXCEPT ![Poller].pc = "record", ![Poller].sent = {x}]
           /\ UNCHANGED owed
  BY DEF Offer
<1>2. CASE Done(x) /\ UNCHANGED copies
  BY <1>0, <1>1, <1>2, DoneKeeps
<1>3. CASE /\ ~AlreadySent(x)
           /\ copies' = [copies EXCEPT ![x] = @ + 1]
           /\ proc' = [proc EXCEPT ![Poller].pc = "record", ![Poller].sent = {x}]
           /\ UNCHANGED owed
  <2>. PICK l, y : l = P /\ y = {x}
    OBVIOUS
  <2>. DEFINE m == [l EXCEPT !.pc = "record", !.sent = y]
  <2>1. y \in SUBSET Pairs /\ x \in Pairs
    BY <1>0 DEF Oldest, P, Locals
  <2>2. /\ m \in Locals /\ m.pc = "record" /\ m.src = l.src /\ m.jobs = l.jobs /\ m.sent = {x}
        /\ m.newest = l.newest /\ m.left = l.left
    BY <1>0, <2>1 DEF Locals, Steps
  <2>3. proc' = [proc EXCEPT ![Poller] = m]
    BY <1>3 DEF P
  <2>. HIDE DEF m
  <2>4. StaysTo(m)
    BY <1>0, <1>1, <1>3, <2>2, <2>3 DEF StaysTo
  <2>5. copies \in [Pairs -> Nat] /\ copies' \in [Pairs -> Nat] /\ unrecorded \in [Pairs -> Nat]
    BY <1>0, <1>3, <2>1 DEF TypeOK
  <2>6. /\ TypeOK' /\ AtSource' /\ MarksTrue' /\ OwedAbove' /\ P' = m
        /\ P.src \in Sources /\ OwedHere' \subseteq OwedHere
    BY <1>0, <1>1, <2>4, <2>5, StayKeeps DEF TypeOK
  <2>7. InHand'
    BY <1>0, <2>2, <2>4, <2>6 DEF InHand, PollInv, StaysTo
  <2>8. CopiesTold'
    <3>1. \A z \in Pairs : /\ Shown(z) \in {0, 1} /\ Shown(z)' \in {0, 1}
                           /\ z # x => Shown(z)' = Shown(z)
      BY <1>0, <1>1, <2>2, <2>6 DEF Shown
    <3>2. Shown(x) = 0 /\ Shown(x)' = 1
      BY <1>0, <1>3, <2>2, <2>6 DEF Shown, AlreadySent
    <3>3. \A z \in Pairs : copies'[z] = IF z = x THEN copies[z] + 1 ELSE copies[z]
      BY <1>3, <2>5
    <3>4. \A z \in Pairs : copies[z] <= unrecorded[z] + Shown(z)
      BY DEF PollInv, CopiesTold
    <3>5. \A z \in Pairs : copies'[z] <= unrecorded'[z] + Shown(z)'
      BY <1>1, <2>1, <2>5, <3>1, <3>2, <3>3, <3>4
    <3>. QED BY <2>2, <2>6, <3>5 DEF CopiesTold
  <2>. QED BY <2>6, <2>7, <2>8 DEF PollInv
<1>. QED BY <1>2, <1>3

\* The row of the copy is written.
LEMMA RecordKeeps ==
    ASSUME PollInv, Record
    PROVE  PollInv'
  BY DoneKeeps DEF Record, At, P

\* Nothing is in hand any more, so nothing up to the newest post is owed.
LEMMA RoundOverKeeps ==
    ASSUME PollInv, RoundOver
    PROVE  PollInv'
<1>. PICK l : l = P
  OBVIOUS
<1>. DEFINE m == [l EXCEPT !.pc = "remember"]
<1>0. /\ TypeOK /\ P.pc = "offer" /\ P.sent = {} /\ P \in Locals /\ P.left = {}
      /\ owed \subseteq Pairs /\ P.newest \in Nat
  BY DEF PollInv, RoundOver, At, CopiesTold, P, TypeOK, Coroutines, Locals
<1>1. /\ m \in Locals /\ m.pc = "remember" /\ m.src = l.src /\ m.jobs = l.jobs /\ m.sent = {}
      /\ m.newest = l.newest
  BY <1>0 DEF Locals, Steps
<1>2. proc' = [proc EXCEPT ![Poller] = m]
  BY DEF RoundOver, Goto, P
<1>. HIDE DEF m
<1>3. StaysTo(m) /\ UNCHANGED <<copies, delivered, owed>>
  BY <1>0, <1>1, <1>2 DEF StaysTo, RoundOver, world, Away
<1>4. /\ TypeOK' /\ AtSource' /\ MarksTrue' /\ OwedAbove' /\ P' = m
      /\ P.src \in Sources /\ OwedHere' \subseteq OwedHere
  BY <1>0, <1>3, StayKeeps DEF TypeOK
<1>5. \A x \in OwedHere : x[2] \in Nat
  BY <1>0, NumberAssumption DEF OwedHere, Pairs, Posts
<1>6. InHand'
  BY <1>0, <1>1, <1>3, <1>4, <1>5 DEF InHand, PollInv, StaysTo
<1>7. CopiesTold'
  BY <1>0, <1>1, <1>3, <1>4 DEF CopiesTold, PollInv, Shown, StaysTo
<1>. QED BY <1>4, <1>6, <1>7 DEF PollInv

\* The mark rises to the newest post that was offered: what is owed is above it.
LEMMA RememberKeeps ==
    ASSUME PollInv, Remember
    PROVE  PollInv'
<1>. DEFINE s == P.src
            m == Rest(Poller)
<1>0. /\ TypeOK /\ P.pc = "remember" /\ P.sent = {} /\ P \in Locals
      /\ s \in Sources /\ Poller \in Coroutines
      /\ owed \subseteq Pairs /\ P.newest \in Nat
  BY DEF PollInv, Remember, At, CopiesTold, P, TypeOK, Coroutines, Locals, AtSource
<1>1. WalksTo(Poller, m) /\ m.pc \in {"idle", "round"}
  BY <1>0, ReturnWalks, RestIs DEF Remember, At, P
<1>. HIDE DEF m
<1>2. UNCHANGED <<account, key, client, owed, on, top, delivered, copies, unrecorded, trouble>>
  BY DEF Remember, world
<1>3. /\ proc' \in [Coroutines -> Locals] /\ P' = m
      /\ \A d \in Coroutines \ {Poller} : proc'[d] = proc[d]
  BY <1>0, <1>1, OneWalks DEF WalksTo, P
<1>4. /\ lease \in [Sources -> LeaseType] /\ P.newest <= top[s] /\ top[s] \in 0 .. MaxPost
  BY <1>0 DEF TypeOK, LeaseType, PollInv, InHand
<1>. PICK r, n : r = lease[s] /\ n = P.newest
  OBVIOUS
<1>. DEFINE new == [r EXCEPT !.seen = n]
<1>5. r \in LeaseType /\ n \in 0 .. MaxPost
  BY <1>0, <1>4, NumberAssumption
<1>6. new \in LeaseType /\ new.seen = n /\ new.by = r.by
  BY <1>5 DEF LeaseType
<1>7. lease' = lease \/ (n > lease[s].seen /\ Leased(s) /\ lease' = [lease EXCEPT ![s] = new])
  BY DEF Remember, Src, NewMark, P
<1>. HIDE DEF new
<1>8. lease' \in [Sources -> LeaseType]
  BY <1>0, <1>4, <1>6, <1>7
<1>9. TypeOK'
  BY <1>0, <1>2, <1>3, <1>8 DEF TypeOK, LeaseType
<1>10. /\ \A z \in Sources \ {s} : lease'[z] = lease[z]
       /\ lease'[s].seen \in {lease[s].seen, n} /\ lease'[s].by = lease[s].by
       /\ lease'[s].seen >= lease[s].seen /\ (lease'[s].seen = lease[s].seen \/ Leased(s))
  <2>1. lease[s].seen \in Nat
    BY <1>0, <1>4, NumberAssumption DEF LeaseType
  <2>. QED BY <1>0, <1>4, <1>5, <1>6, <1>7, <2>1
<1>11. AtSource'
  BY <1>1, <1>3 DEF AtSource, PollInv, P
<1>12. MarksTrue'
  BY <1>2, <1>4, <1>10 DEF MarksTrue, PollInv, Leased
<1>13. OwedAbove'
  <2>. SUFFICES ASSUME NEW x \in owed
                PROVE  /\ 0 < lease'[SourceOf[x[1]]].seen /\ lease'[SourceOf[x[1]]].seen < x[2]
                       /\ x[1] \in on /\ (m.pc # "idle" => x[1] \in m.jobs)
    BY <1>2, <1>3 DEF OwedAbove
  <2>1. /\ 0 < lease[SourceOf[x[1]]].seen /\ lease[SourceOf[x[1]]].seen < x[2]
        /\ x[1] \in on /\ x[1] \in P.jobs
    BY <1>0 DEF OwedAbove, PollInv
  <2>2. SourceOf[x[1]] \in Sources
    BY <1>0, SourceAssumption DEF Pairs
  <2>3. SourceOf[x[1]] = s => n < x[2]
    BY <1>0 DEF PollInv, InHand, OwedHere
  <2>4. lease[s].seen \in Nat /\ n \in Nat
    BY <1>0, <1>4, <1>5, NumberAssumption DEF LeaseType
  <2>5. m.pc # "idle" => x[1] \in m.jobs
    BY <1>1, <2>1 DEF WalksTo
  <2>. QED BY <1>10, <2>1, <2>2, <2>3, <2>4, <2>5
<1>14. InHand'
  BY <1>1, <1>3 DEF InHand
<1>15. CopiesTold'
  BY <1>0, <1>1, <1>2, <1>3 DEF CopiesTold, PollInv, Shown, WalksTo
<1>. QED BY <1>9, <1>11, <1>12, <1>13, <1>14, <1>15 DEF PollInv

-----------------------------------------------------------------------------
\* The world.
LEMMA StandKeeps ==
    ASSUME PollInv, UNCHANGED <<proc, top, delivered, copies, unrecorded>>,
           owed' \subseteq owed,
           \A x \in owed' : x[1] \in on' /\ lease'[SourceOf[x[1]]].seen = lease[SourceOf[x[1]]].seen,
           \A s \in Sources : /\ lease'[s].seen \in {0, lease[s].seen}
                              /\ ~Leased(s)' => lease'[s].seen = 0
    PROVE  PollParts'
<1>0. TypeOK /\ P' = P /\ AtSource'
  BY DEF PollInv, P, AtSource
<1>1. \A s \in Sources : lease[s].seen \in Nat /\ top[s] \in Nat /\ lease'[s].seen <= lease[s].seen
  BY <1>0, NumberAssumption DEF TypeOK
<1>2. MarksTrue'
  BY <1>1 DEF MarksTrue, PollInv
<1>3. OwedAbove'
  BY <1>0 DEF OwedAbove, PollInv
<1>4. OwedHere' \subseteq OwedHere
  BY <1>0 DEF OwedHere
<1>5. InHand'
  <2>1. P.pc \in Away => P.src \in Sources
    BY DEF PollInv, AtSource, Away, Coroutines
  <2>2. P \in Locals
    BY <1>0 DEF P, TypeOK, Coroutines
  <2>3. P.seen \in Nat
    BY <2>2 DEF Locals
  <2>4. P.pc = "read" => /\ lease[P.src].seen \in Nat
                         /\ lease'[P.src].seen <= lease[P.src].seen
                         /\ lease'[P.src].seen \in {0, lease[P.src].seen}
    BY <1>1, <2>1 DEF Away
  <2>. QED BY <1>0, <1>4, <2>1, <2>3, <2>4 DEF InHand, PollInv, Away
<1>6. CopiesTold'
  BY <1>0 DEF CopiesTold, PollInv, Shown
<1>. QED BY <1>0, <1>2, <1>3, <1>5, <1>6 DEF PollParts

\* What does not touch leases, posts and tasks.
LEMMA ElsewhereKeeps ==
    ASSUME PollInv, UNCHANGED <<proc, top, delivered, copies, unrecorded, lease, owed, on>>
    PROVE  PollParts'
  BY StandKeeps DEF PollInv, OwedAbove, MarksTrue, Leased

\* Sessions die, connections break, the panel adds and drops accounts.
LEMMA WorldKeeps ==
    ASSUME PollInv, NEW a \in Accounts,
           SessionDies(a) \/ Disconnected(a) \/ Toggle(a) \/ Drop(a) \/ Login(a)
    PROVE  PollInv'
<1>0. TypeOK
  BY DEF PollInv
<1>1. trouble' \in 0 .. MaxTrouble
  BY <1>0, NumberAssumption DEF SessionDies, Disconnected, Toggle, Drop, Login, Happens, TypeOK
<1>2. CASE SessionDies(a)
  <2>1. TypeOK'
    BY <1>0, <1>1, <1>2 DEF SessionDies, TypeOK
  <2>. QED BY <1>2, <2>1, ElsewhereKeeps DEF SessionDies, PollParts, PollInv
<1>3. CASE Disconnected(a)
  <2>1. TypeOK'
    BY <1>0, <1>1, <1>3 DEF Disconnected, TypeOK
  <2>. QED BY <1>3, <2>1, ElsewhereKeeps DEF Disconnected, PollParts, PollInv
<1>4. CASE Toggle(a)
  <2>1. account' \in [Accounts -> AccountRow]
    <3>. PICK r, x : r = account[a] /\ x = (~r.enabled /\ r.state # "banned")
      OBVIOUS
    <3>1. account \in [Accounts -> AccountRow] /\ r \in AccountRow /\ x \in BOOLEAN
      BY <1>0 DEF TypeOK, AccountRow
    <3>2. [r EXCEPT !.enabled = x] \in AccountRow
      BY <3>1 DEF AccountRow
    <3>3. account' = [account EXCEPT ![a] = [r EXCEPT !.enabled = x]]
      BY <1>4 DEF Toggle
    <3>. QED BY <3>1, <3>2, <3>3
  <2>2. TypeOK'
    BY <1>0, <1>1, <1>4, <2>1 DEF Toggle, TypeOK, AccountRow
  <2>. QED BY <1>4, <2>2, ElsewhereKeeps DEF Toggle, PollParts, PollInv
<1>5. CASE Drop(a)
  <2>. DEFINE gone == {s \in Sources : lease[s].by = a}
  <2>1. gone \in SUBSET Sources /\ Forget(gone) /\ UNCHANGED quiet
    BY <1>5 DEF Drop, quiet
  <2>. HIDE DEF gone
  <2>2. MarksFall /\ lease' \in [Sources -> LeaseType] /\ owed' \subseteq Pairs
    BY <2>1, LeasesGo
  <2>3. account' \in [Accounts -> AccountRow]
    <3>1. NoRow \in AccountRow
      BY DEF NoRow, AccountRow
    <3>. QED BY <1>0, <1>5, <3>1 DEF Drop, TypeOK, AccountRow
  <2>4. TypeOK'
    BY <1>0, <1>1, <1>5, <2>2, <2>3 DEF Drop, TypeOK, AccountRow, LeaseType
  <2>5. PollParts'
    BY <1>5, <2>2, StandKeeps DEF Drop, MarksFall, PollInv, OwedAbove
  <2>. QED BY <2>4, <2>5 DEF PollParts, PollInv
<1>6. CASE Login(a)
  <2>1. [exists |-> TRUE, enabled |-> TRUE, state |-> "ok"] \in AccountRow
    BY DEF AccountRow
  <2>2. account' \in [Accounts -> AccountRow]
    BY <1>0, <1>6, <2>1 DEF Login, TypeOK, AccountRow
  <2>3. TypeOK'
    BY <1>0, <1>1, <1>6, <2>2 DEF Login, TypeOK, AccountRow
  <2>. QED BY <1>6, <2>3, ElsewhereKeeps DEF Login, PollParts, PollInv
<1>. QED BY <1>2, <1>3, <1>4, <1>5, <1>6

\* A task that is switched is owed nothing from before.
LEMMA SwitchKeeps ==
    ASSUME PollInv, NEW t \in Tasks, Switch(t)
    PROVE  PollInv'
<1>0. TypeOK
  BY DEF PollInv
<1>1. TypeOK'
  BY <1>0, NumberAssumption DEF Switch, Happens, TypeOK
<1>2. \A x \in owed' : x \in owed /\ x[1] \in on'
  BY DEF Switch, PollInv, OwedAbove
<1>3. \A s \in Sources : Leased(s)' = Leased(s)
  BY DEF Switch, Leased
<1>4. PollParts'
  BY <1>2, <1>3, StandKeeps DEF Switch, PollInv, MarksTrue
<1>. QED BY <1>1, <1>4 DEF PollParts, PollInv

\* What is published is newer than every mark and than what the poller has read.
LEMMA PublishKeeps ==
    ASSUME PollInv, NEW s \in Sources, Publish(s)
    PROVE  PollInv'
<1>0. /\ TypeOK /\ P' = P /\ AtSource' /\ P \in Locals
      /\ P.pc \in Away \cup {"record"} => P.src \in Sources
  BY DEF PollInv, P, AtSource, Publish, TypeOK, Coroutines, Away
<1>1. /\ \A z \in Sources : /\ top[z] \in Nat /\ top'[z] \in Nat
                            /\ top[z] <= top'[z] /\ lease[z].seen \in Nat
      /\ top'[s] = top[s] + 1 /\ top' \in [Sources -> 0 .. MaxPost]
  BY <1>0, NumberAssumption DEF TypeOK, Publish
<1>2. \A x \in owed' : \/ x \in owed
                       \/ /\ x \in Pairs /\ SourceOf[x[1]] = s /\ lease[s].seen > 0 /\ x[1] \in on
                          /\ x[2] = top[s] + 1 /\ (P.pc = "idle" \/ x[1] \in P.jobs)
  BY DEF Publish, PairsOf, At, P
<1>3. TypeOK'
  BY <1>0, <1>1, <1>2 DEF TypeOK, Publish
<1>4. \A z \in Sources : lease[z].seen <= top[z]
  BY DEF PollInv, MarksTrue
<1>5. lease' = lease /\ UNCHANGED <<on, delivered, copies, unrecorded>>
  BY DEF Publish
<1>6. MarksTrue'
  BY <1>1, <1>4, <1>5 DEF MarksTrue, PollInv, Leased
<1>7. OwedAbove'
  BY <1>0, <1>1, <1>2, <1>4, <1>5 DEF OwedAbove, PollInv
<1>8. InHand'
  <2>1. \A x \in OwedHere' : x \in OwedHere \/ (P.src = s /\ x[2] = top[s] + 1 /\ lease[s].seen > 0)
    BY <1>0, <1>2 DEF OwedHere
  <2>2. P.seen \in Nat /\ P.newest \in Nat
    BY <1>0 DEF Locals
  <2>. QED BY <1>0, <1>1, <1>5, <2>1, <2>2 DEF InHand, PollInv, Away
<1>9. CopiesTold'
  BY <1>0, <1>5 DEF CopiesTold, PollInv, Shown
<1>. QED BY <1>0, <1>3, <1>6, <1>7, <1>8, <1>9 DEF PollInv

\* Whose row a crash has lost is told among the unrecorded.
LEMMA CrashKeeps ==
    ASSUME PollInv, Crash
    PROVE  PollInv'
<1>0. TypeOK /\ Idle \in Locals /\ Idle.pc = "idle" /\ Idle.sent = {} /\ Poller \in Coroutines
  BY DEF PollInv, Idle, Locals, Steps, Ids, Coroutines
<1>1. proc' = [c \in Coroutines |-> Idle]
  BY DEF Crash
<1>2. P' = Idle
  BY <1>0, <1>1 DEF P
<1>3. /\ unrecorded' \in [Pairs -> Nat]
      /\ \A x \in Pairs : /\ unrecorded'[x] + Shown(x)' >= unrecorded[x] + Shown(x)
                          /\ unrecorded[x] \in Nat
  BY <1>0, <1>2 DEF Crash, TypeOK, Shown, P
<1>4. TypeOK'
  BY <1>0, <1>1, <1>3, NumberAssumption DEF TypeOK, Crash, Happens
<1>5. AtSource' /\ InHand'
  BY <1>0, <1>1, <1>2 DEF AtSource, InHand
<1>6. MarksTrue' /\ OwedAbove'
  BY <1>0, <1>2 DEF MarksTrue, OwedAbove, PollInv, Leased, Crash
<1>7. CopiesTold'
  <2>1. \A x \in Pairs : /\ copies[x] \in Nat /\ unrecorded'[x] \in Nat
                         /\ Shown(x) \in {0, 1} /\ Shown(x)' \in {0, 1}
    BY <1>0, <1>3 DEF TypeOK, Shown
  <2>2. \A x \in Pairs : copies'[x] <= unrecorded'[x] + Shown(x)'
    BY <1>3, <2>1 DEF Crash, PollInv, CopiesTold
  <2>. QED BY <1>0, <1>2, <2>2 DEF CopiesTold
<1>. QED BY <1>4, <1>5, <1>6, <1>7 DEF PollInv

\* At the start there is no lease, no mark and nothing owed.
LEMMA PollBegins == Init => PollInv
<1>. SUFFICES ASSUME Init PROVE PollInv
  OBVIOUS
<1>0. Idle \in Locals /\ Idle.pc = "idle" /\ Idle.sent = {} /\ Poller \in Coroutines
  BY DEF Idle, Locals, Steps, Ids, Coroutines
<1>1. P = Idle /\ proc = [c \in Coroutines |-> Idle]
  BY <1>0 DEF Init, P
<1>2. NoLease \in LeaseType /\ NoLease.seen = 0 /\ NoLease.by = NoOne
  BY NumberAssumption DEF NoLease, LeaseType, Ids
<1>3. [exists |-> TRUE, enabled |-> TRUE, state |-> "ok"] \in AccountRow
  BY DEF AccountRow
<1>4. TypeOK
  BY <1>0, <1>1, <1>2, <1>3, NumberAssumption DEF TypeOK, Init, LeaseType, AccountRow
<1>5. AtSource /\ InHand /\ OwedAbove
  BY <1>0, <1>1 DEF AtSource, InHand, OwedAbove, Init
<1>6. MarksTrue
  BY <1>2, NumberAssumption DEF MarksTrue, Leased, Init
<1>7. CopiesTold
  BY <1>0, <1>1 DEF CopiesTold, Shown, Init
<1>. QED BY <1>4, <1>5, <1>6, <1>7 DEF PollInv

\* Every step of SimpleMode keeps the invariant.
LEMMA PollStep == PollInv /\ [Next]_vars => PollInv'
<1>. SUFFICES ASSUME PollInv, [Next]_vars PROVE PollInv'
  OBVIOUS
<1>1. ASSUME NEW c \in Coroutines, Fine(c) PROVE PollInv'
  BY <1>1, WalkKeeps DEF Fine, PollParts, PollInv
<1>2. CASE Polling
  <2>1. Poller \in Coroutines
    BY DEF Coroutines
  <2>. QED BY <1>1, <1>2, <2>1, RoundIsFine, NextSourceIsFine, ReadEnds, ReadMarkKeeps, ReadSourceKeeps,
              OfferKeeps, RecordKeeps, RoundOverKeeps, RememberKeeps DEF Polling
<1>3. ASSUME NEW c \in Coroutines, Ask(c) \/ Leasing(c) PROVE PollInv'
  BY <1>1, <1>3, AskIsFine, LeasingIsFine
<1>4. CASE UNCHANGED vars
  <2>1. TypeOK'
    BY <1>4 DEF PollInv, TypeOK, vars
  <2>. QED BY <1>4, <2>1, ElsewhereKeeps DEF vars, PollParts, PollInv
<1>. QED BY <1>2, <1>3, <1>4, WorldKeeps, SwitchKeeps, PublishKeeps, CrashKeeps DEF Next

\* The marks, what is owed and what the poller has in hand agree in every state.
THEOREM PollInvariant == Spec => []PollInv
  BY PollBegins, PollStep, PTL DEF Spec

\* However leases are lost, taken over and re-created, sessions die and the process
\* crashes: no mark passes a post before it was offered, and none is copied twice but
\* for a crash between the send and its row (PublicPoller._poll).
THEOREM PostsOnce == Spec => []EachPostOnce
<1>1. PollInv => EachPostOnce
  <2>. SUFFICES ASSUME PollInv PROVE EachPostOnce
    OBVIOUS
  <2>0. TypeOK /\ SourceOf \in [Tasks -> Sources]
    BY SourceAssumption DEF PollInv
  <2>1. \A x \in owed : SourceOf[x[1]] \in Sources
    BY <2>0 DEF TypeOK, Pairs
  <2>2. NothingPassedOver
    BY <2>1 DEF NothingPassedOver, PollInv, OwedAbove, MarksTrue
  <2>3. PolledOnce
    BY <2>0 DEF PolledOnce, PollInv, CopiesTold, Shown, TypeOK
  <2>. QED BY <2>2, <2>3 DEF EachPostOnce
<1>. QED BY PollInvariant, <1>1, PTL
=============================================================================
