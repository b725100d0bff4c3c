------------------------ MODULE SubscriptionsProofs ------------------------
(***************************************************************************)
(* Proofs about Subscriptions, for any number of users, plans, handlers    *)
(* and gift codes, and for any interleaving and any failures:              *)
(*                                                                         *)
(*   TypeCorrect     every variable keeps its type;                        *)
(*   BalanceCovered  no balance becomes negative;                          *)
(*   LedgerFollows   a balance differs from its entries only where a       *)
(*                   credit wrote over a change it had not seen;           *)
(*   GiftGivenOnce   a gift code gives one subscription;                   *)
(*   PaidIsGranted   a purchase is granted, about to be, or died with its  *)
(*                   coroutine, and nothing is granted unpaid;             *)
(*   RenewedOnceUnlessBoth  a subscription is renewed again only when its  *)
(*                   mark was lost and its place in the order disturbed.   *)
(*                                                                         *)
(* The type invariant is inductive only with what a coroutine knows at     *)
(* each step (Sound), with the lists it works on (Listed), and with        *)
(* NeverNegative, for a balance is what a credit remembers.                *)
(*                                                                         *)
(* The last theorem rests on RenewInv: with no failure the loop's marks    *)
(* tell who was renewed (MarkTells), and with no disturbance the ends do   *)
(* (EndTells), each by itself.                                             *)
(***************************************************************************)
EXTENDS Subscriptions, FiniteSetTheorems, TLAPS

\* The steps of a handler that grants a plan.
Granted == {"take", "pay", "current", "close", "insert", "claim", "own", "commission", "mark"}

\* What the locals of a coroutine hold at each of its steps.
Sound(p) ==
    /\ p.seen >= 0
    /\ p.pc \notin {"days", "shift"} => p.amount >= 0
    /\ p.pc \in {"pay", "credit", "write"} => p.payer \in Users
    /\ p.pc \in {"days", "shift"} => p.id \in Ids
    /\ p.pc \in Granted => /\ p.user \in Users /\ p.plan \in Plans
                           /\ p.does = "sale" => p.payer \in Resellers
                           /\ p.does = "gift" => p.gift \in Gifts
                           /\ p.does = "renewal" => p.id \in Ids
    /\ p.pc = "take" => p.does = "gift"
    /\ p.pc = "pay" => p.does \in {"sale", "renewal"}
    /\ p.pc \in {"claim", "own"} => p.does = "sale"
    /\ p.pc = "mark" => p.does = "renewal"
    /\ p.replace => p.does = "order"
    /\ p.pc = "close" => p.replace
    /\ p.pc = "renew" => ~p.replace
Good == {p \in Locals : Sound(p)}

\* The subscriptions on a coroutine's list, and the one it adjusts, are there.
Held(p) == p.todo \cup {i \in Ids : p.pc \in {"days", "shift"} /\ p.id = i}
Listed == \A c \in Coroutines : \A i \in Held(proc[c]) : sub[i] \in Row

IInv == TypeOK /\ NeverNegative /\ (\A c \in Coroutines : Sound(proc[c])) /\ Listed

\* The locals of an idle coroutine.
LEMMA IdleGood == Idle \in Good /\ Idle.pc = "idle" /\ Idle.todo = {}
  BY DEF Idle, Good, Locals, Sound, Steps, Granted

\* The names of the steps are names of steps.
LEMMA StepNames ==
    /\ Granted \subseteq Steps
    /\ {"credit", "write", "days", "shift", "revoke", "renew"} \subseteq Steps
  BY DEF Steps, Granted

\* The locals of a renewer about to deal with the rest of its list.
LEMMA RenewGood ==
    ASSUME NEW S \in SUBSET Ids
    PROVE  [Idle EXCEPT !.pc = "renew", !.todo = S] \in Good
<1>1. [Idle EXCEPT !.pc = "renew", !.todo = S] \in Locals
  BY IdleGood, StepNames DEF Good, Locals
<1>2. Sound([Idle EXCEPT !.pc = "renew", !.todo = S])
  BY DEF Idle, Sound, Granted
<1> QED
  BY <1>1, <1>2 DEF Good

\* So is what a finished coroutine is left with.
LEMMA NextGood == ASSUME NEW p \in Locals PROVE NextInLine(p) \in Good
<1>1. p.todo \in SUBSET Ids
  BY DEF Locals
<1> QED
  BY <1>1, IdleGood, RenewGood DEF NextInLine

\* A handler that starts to grant a plan knows for whom and which.
LEMMA GrantingGood ==
    ASSUME NEW does \in {"trial", "order", "gesture"}, NEW u \in Users, NEW p \in Plans,
           NEW r \in BOOLEAN, r => does = "order"
    PROVE  /\ Granting(does, u, p) \in Good
           /\ [Granting(does, u, p) EXCEPT !.replace = r] \in Good
<1>1. "current" \in Steps
  BY DEF Steps
<1>2. Granting(does, u, p) \in Locals
  BY <1>1, IdleGood DEF Granting, Good, Locals
<1>3. [Granting(does, u, p) EXCEPT !.replace = r] \in Locals
  BY <1>2 DEF Locals
<1>4. Sound(Granting(does, u, p))
  BY DEF Granting, Idle, Sound
<1>5. Sound([Granting(does, u, p) EXCEPT !.replace = r])
  BY DEF Granting, Idle, Sound
<1> QED
  BY <1>2, <1>3, <1>4, <1>5 DEF Good

\* The subscriptions a read finds are rows.
LEMMA FoundRows ==
    ASSUME TypeOK, NEW u \in Users, NEW i \in Active(u)
    PROVE  i \in Ids /\ sub[i] \in Row /\ sub[i].user = u
<1>1. i \in Ids /\ sub[i].user = u
  BY DEF Active, Had
<1>2. sub[i] # NoSub
  BY <1>1, NothingIsApart DEF NoSub
<1> QED
  BY <1>1, <1>2 DEF TypeOK

\* All holds at the start.
LEMMA InvInit == Init => IInv
<1> SUFFICES ASSUME Init PROVE IInv
  OBVIOUS
<1>1. \A c \in Coroutines : proc[c] = Idle
  BY DEF Init
<1>2. Listed
  BY <1>1, IdleGood DEF Listed, Held
<1>3. \A c \in Coroutines : Sound(proc[c])
  BY <1>1, IdleGood DEF Good
<1>4. TypeOK
  <2>1. proc \in [Coroutines -> Locals]
    BY IdleGood DEF Init, Good
  <2>2. 0 \in 0 .. MaxDay /\ 0 \in 0 .. MaxAsked /\ 0 \in 0 .. MaxFailures
    BY BoundsAreNumbers
  <2>3. lost \in [Users -> BOOLEAN] /\ disturbed \in BOOLEAN
    BY DEF Init
  <2> QED
    BY <2>1, <2>2, <2>3 DEF Init, TypeOK
<1>5. NeverNegative
  BY DEF Init, NeverNegative
<1> QED
  BY <1>2, <1>3, <1>4, <1>5 DEF IInv

\* From one step of a grant to another nothing that Sound asks is lost.
LEMMA GotoGood ==
    ASSUME NEW p \in Good, p.pc \in Granted, NEW s \in Granted \ {"take", "pay", "close"},
           s \in {"claim", "own"} => p.does = "sale",
           s = "mark" => p.does = "renewal"
    PROVE  [p EXCEPT !.pc = s] \in Good
<1>1. [p EXCEPT !.pc = s] \in Locals
  BY StepNames DEF Good, Locals
<1>2. Sound([p EXCEPT !.pc = s])
  BY DEF Good, Locals, Sound, Granted
<1> QED
  BY <1>1, <1>2 DEF Good

\* What a coroutine may write and what it may remember stays within its type.
LEMMA ProcStep == IInv /\ [Next]_vars => proc' \in [Coroutines -> Good]
<1> SUFFICES ASSUME IInv, [Next]_vars PROVE proc' \in [Coroutines -> Good]
  OBVIOUS
<1>0. proc \in [Coroutines -> Good]
  BY DEF IInv, TypeOK, Good
<1>c. Chats \subseteq Coroutines /\ Renewer \in Coroutines
  BY DEF Coroutines
<1>d. day \in Nat /\ sub \in [Ids -> Row \cup {NoSub}] /\ TypeOK
  BY BoundsAreNumbers DEF IInv, TypeOK
<1>e. ASSUME NEW c \in Coroutines, NEW r \in Good, proc' = [proc EXCEPT ![c] = r]
      PROVE  proc' \in [Coroutines -> Good]
  BY <1>e, <1>0
<1>f. ASSUME NEW c \in Coroutines, Finish(c) PROVE proc' \in [Coroutines -> Good]
  <2>1. NextInLine(proc[c]) \in Good
    BY <1>0, NextGood DEF Good
  <2> QED
    BY <1>e, <1>f, <2>1 DEF Finish
<1>g. ASSUME NEW c \in Coroutines, proc[c].pc \in Granted, NEW s \in Granted \ {"take", "pay", "close"},
             s \in {"claim", "own"} => proc[c].does = "sale",
             s = "mark" => proc[c].does = "renewal", Goto(c, s)
      PROVE  proc' \in [Coroutines -> Good]
  <2>1. [proc[c] EXCEPT !.pc = s] \in Good
    BY <1>0, <1>g, GotoGood
  <2>2. proc' = [proc EXCEPT ![c] = [proc[c] EXCEPT !.pc = s]]
    BY <1>g, <1>0 DEF Goto
  <2> QED
    BY <1>e, <2>1, <2>2
<1>1. ASSUME NEW c \in Chats, Start(c) PROVE proc' \in [Coroutines -> Good]
  <2>0. c \in Coroutines
    BY <1>c
  <2>1. ASSUME NEW u \in Users, StartTrial(c, u) PROVE proc' \in [Coroutines -> Good]
    <3>1. Granting("trial", u, Trial) \in Good
      BY GrantingGood, PlansHavePrices
    <3> QED
      BY <1>e, <2>0, <2>1, <3>1 DEF StartTrial, Begin
  <2>2. ASSUME NEW u \in Users, Approve(c, u) PROVE proc' \in [Coroutines -> Good]
    <3>1. order[u] \in Request
      BY <1>d, <2>2 DEF Approve, TypeOK
    <3>2. [Granting("order", u, order[u].plan) EXCEPT !.replace = order[u].replace] \in Good
      BY <3>1, GrantingGood DEF Request
    <3> QED
      BY <1>e, <2>0, <2>2, <3>2 DEF Approve, Begin
  <2>3. ASSUME NEW u \in Users, Revoke(c, u) PROVE proc' \in [Coroutines -> Good]
    <3> DEFINE r == [Idle EXCEPT !.pc = "revoke", !.todo = Active(u), !.seen = day]
    <3>1. Active(u) \in SUBSET Ids /\ day \in Int
      BY <1>d DEF Active, Had
    <3>2. r \in Locals
      BY <3>1, IdleGood, StepNames DEF Good, Locals
    <3>3. Sound(r)
      BY <1>d DEF Idle, Sound, Granted
    <3> QED
      BY <1>e, <2>0, <2>3, <3>2, <3>3 DEF Revoke, Begin, Good
  <2>4. ASSUME NEW u \in Users, NEW p \in Plans, GrantPlan(c, u, p)
        PROVE  proc' \in [Coroutines -> Good]
    <3>1. Granting("gesture", u, p) \in Good
      BY GrantingGood
    <3> QED
      BY <1>e, <2>0, <2>4, <3>1 DEF GrantPlan, Begin
  <2>5. ASSUME NEW u \in Users, NEW g \in Gifts, Redeem(c, u, g)
        PROVE  proc' \in [Coroutines -> Good]
    <3> DEFINE r == [Granting("gift", u, GiftPlan[g]) EXCEPT !.pc = "take", !.gift = g]
    <3>1. "take" \in Steps /\ GiftPlan[g] \in Plans
      BY PlansHavePrices DEF Steps
    <3>2. r \in Locals
      BY <3>1, IdleGood DEF Granting, Good, Locals
    <3>3. Sound(r)
      BY <3>1 DEF Granting, Idle, Sound
    <3> QED
      BY <1>e, <2>0, <2>5, <3>2, <3>3 DEF Redeem, Begin, Good
  <2>6. ASSUME NEW r \in Resellers, NEW u \in Users, NEW p \in Plans, Sell(c, r, u, p)
        PROVE  proc' \in [Coroutines -> Good]
    <3> DEFINE q == [Granting("sale", u, p) EXCEPT !.pc = "pay", !.payer = r, !.amount = Cut[p]]
    <3>1. "pay" \in Steps /\ Cut[p] \in Int /\ Cut[p] >= 0 /\ r \in Users
      BY PlansHavePrices, PeopleAreUsers DEF Steps
    <3>2. q \in Locals
      BY <3>1, IdleGood DEF Granting, Good, Locals
    <3>3. Sound(q)
      BY <3>1 DEF Granting, Idle, Sound
    <3> QED
      BY <1>e, <2>0, <2>6, <3>2, <3>3 DEF Sell, Begin, Good
  <2>7. ASSUME NEW u \in Users, NEW n \in Sums, PayIn(c, u, n)
        PROVE  proc' \in [Coroutines -> Good]
    <3> DEFINE r == [Idle EXCEPT !.pc = "credit", !.payer = u, !.amount = n]
    <3>1. n \in Int /\ n >= 0
      BY BoundsAreNumbers
    <3>2. r \in Locals
      BY <3>1, IdleGood, StepNames DEF Good, Locals
    <3>3. Sound(r)
      BY <3>1 DEF Idle, Sound, Granted
    <3> QED
      BY <1>e, <2>0, <2>7, <3>2, <3>3 DEF PayIn, Begin, Good
  <2>8. ASSUME NEW u \in Users, NEW n \in Shifts, AdjustDays(c, u, n)
        PROVE  proc' \in [Coroutines -> Good]
    <3>1. PICK i \in Farthest(u) :
            proc' = [proc EXCEPT ![c] = [Idle EXCEPT !.pc = "days", !.id = i, !.amount = n]]
      BY <2>8 DEF AdjustDays, Begin
    <3>2. i \in Ids /\ n \in Int
      BY <3>1, BoundsAreNumbers DEF Farthest, Active, Had
    <3>3. [Idle EXCEPT !.pc = "days", !.id = i, !.amount = n] \in Locals
      BY <3>2, IdleGood, StepNames DEF Good, Locals
    <3>4. Sound([Idle EXCEPT !.pc = "days", !.id = i, !.amount = n])
      BY <3>2 DEF Idle, Sound, Granted
    <3> QED
      BY <1>e, <2>0, <3>1, <3>3, <3>4 DEF Good
  <2> QED
    BY <1>1, <2>1, <2>2, <2>3, <2>4, <2>5, <2>6, <2>7, <2>8, PeopleAreUsers DEF Start
<1>2. ASSUME NEW u \in Users, NEW p \in Plans, Order(u, p) PROVE proc' \in [Coroutines -> Good]
  BY <1>0, <1>2 DEF Order
<1>3. ASSUME NEW u \in Users, NEW n \in Sums, TakeBack(u, n) PROVE proc' \in [Coroutines -> Good]
  BY <1>0, <1>3 DEF TakeBack
<1>4. CASE ListDue
  <2>1. PICK S \in SUBSET Ids :
          proc' = [proc EXCEPT ![Renewer] = [Idle EXCEPT !.pc = "renew", !.todo = S]]
    BY <1>4 DEF ListDue, Begin
  <2> QED
    BY <1>c, <1>e, <2>1, RenewGood
<1>5. CASE TryRenew
  <2> DEFINE me == proc[Renewer]
             left(i) == [me EXCEPT !.todo = @ \ {i}]
             next(i) == [left(i) EXCEPT !.pc = "pay", !.does = "renewal", !.user = sub[i].user,
                           !.payer = sub[i].user, !.amount = Price[sub[i].plan],
                           !.plan = sub[i].plan, !.id = i]
  <2>1. PICK i \in me.todo :
          proc' = [proc EXCEPT ![Renewer] = next(i)]
          \/ proc' = [proc EXCEPT ![Renewer] = NextInLine(left(i))]
    BY <1>5 DEF TryRenew
  <2>2. i \in Ids /\ me \in Good /\ sub[i] \in Row /\ me.pc = "renew"
    BY <1>0, <1>c, <1>5, <2>1 DEF TryRenew, At, Good, Locals, IInv, Listed, Held
  <2>3. left(i) \in Locals
    BY <2>2 DEF Good, Locals
  <2>4. "pay" \in Steps /\ Price[sub[i].plan] \in Int /\ Price[sub[i].plan] >= 0
    BY <2>2, PlansHavePrices DEF Steps, Row
  <2>5. next(i) \in Locals
    BY <2>2, <2>3, <2>4 DEF Locals, Row
  <2>6. Sound(next(i))
    BY <2>2, <2>4 DEF Sound, Row, Good, Locals
  <2>7. NextInLine(left(i)) \in Good
    BY <2>3, NextGood
  <2> QED
    BY <1>c, <1>e, <2>1, <2>5, <2>6, <2>7 DEF Good
<1>6. ASSUME NEW c \in Coroutines, Work(c) PROVE proc' \in [Coroutines -> Good]
  <2> DEFINE p == proc[c]
  <2>0. p \in Good
    BY <1>0
  <2>1. CASE Pay(c)
    <3>1. p.pc \in Granted
      BY <2>1 DEF Pay, At, Granted
    <3> QED
      BY <1>f, <1>g, <2>1, <3>1 DEF Pay, Granted
  <2>2. CASE ReadBalance(c)
    <3> DEFINE r == [p EXCEPT !.pc = "write", !.seen = wallet[p.payer]]
    <3>1. proc' = [proc EXCEPT ![c] = r]
      BY <1>0, <2>2 DEF ReadBalance
    <3>2. p.payer \in Users /\ p.amount >= 0
      BY <2>0, <2>2 DEF ReadBalance, At, Good, Sound
    <3>3. wallet[p.payer] \in Int /\ wallet[p.payer] >= 0
      BY <3>2, <1>d DEF TypeOK, IInv, NeverNegative
    <3>4. r \in Locals
      BY <2>0, <3>3, StepNames DEF Good, Locals
    <3>5. Sound(r)
      BY <2>0, <3>2, <3>3 DEF Good, Locals, Sound, Granted
    <3> QED
      BY <1>e, <3>1, <3>4, <3>5 DEF Good
  <2>3. CASE WriteBalance(c)
    BY <1>f, <2>3 DEF WriteBalance
  <2>4. CASE TakeGift(c)
    <3>1. p.pc \in Granted
      BY <2>4 DEF TakeGift, At, Granted
    <3> QED
      BY <1>f, <1>g, <2>4, <3>1 DEF TakeGift, Granted
  <2>5. CASE Current(c)
    <3> DEFINE one == [p EXCEPT !.pc = "insert", !.seen = day]
               two(i) == IF p.replace
                         THEN [p EXCEPT !.pc = "close", !.seen = day, !.todo = {i}]
                         ELSE [p EXCEPT !.pc = "insert", !.seen = sub[i].ends]
    <3>0. p.pc = "current" /\ p.user \in Users
      BY <2>0, <2>5 DEF Current, At, Good, Sound, Granted
    <3>1. proc' = [proc EXCEPT ![c] = one]
          \/ \E i \in Farthest(p.user) : proc' = [proc EXCEPT ![c] = two(i)]
      BY <2>5 DEF Current
    <3>2. "close" \in Steps /\ "insert" \in Steps /\ day \in Int
      BY <1>d DEF Steps
    <3>3. one \in Good
      <4>1. one \in Locals
        BY <2>0, <3>2 DEF Good, Locals
      <4>2. Sound(one)
        BY <2>0, <3>0, <1>d DEF Good, Locals, Sound, Granted
      <4> QED
        BY <4>1, <4>2 DEF Good
    <3>4. ASSUME NEW i \in Farthest(p.user) PROVE two(i) \in Good
      <4>1. i \in Ids /\ sub[i].ends \in Int /\ sub[i].ends >= 0
        BY <3>0, <1>d, FoundRows DEF Farthest, Row
      <4>2. two(i) \in Locals
        BY <2>0, <3>2, <4>1 DEF Good, Locals
      <4>3. Sound(two(i))
        BY <2>0, <3>0, <1>d, <4>1 DEF Good, Locals, Sound, Granted
      <4> QED
        BY <4>2, <4>3 DEF Good
    <3> QED
      BY <1>e, <3>1, <3>3, <3>4
  <2>6. CASE Close(c)
    <3> DEFINE r == [p EXCEPT !.pc = "insert", !.todo = {}]
    <3>1. proc' = [proc EXCEPT ![c] = r]
      BY <1>0, <2>6 DEF Close
    <3>2. p.pc = "close" /\ "insert" \in Steps
      BY <2>6 DEF Close, At, Steps
    <3>3. r \in Locals
      BY <2>0, <3>2 DEF Good, Locals
    <3>4. Sound(r)
      BY <2>0, <3>2 DEF Good, Locals, Sound, Granted
    <3> QED
      BY <1>e, <3>1, <3>3, <3>4 DEF Good
  <2>7. CASE Insert(c)
    <3>1. p.pc \in Granted /\ proc' = [proc EXCEPT ![c] = Then(p)]
      BY <2>7 DEF Insert, At, Granted
    <3>2. Then(p) \in Good
      BY <2>0, <3>1, GotoGood, IdleGood DEF Then, Granted
    <3> QED
      BY <1>e, <3>1, <3>2
  <2>8. CASE ReadDays(c)
    <3> DEFINE r == [p EXCEPT !.pc = "shift", !.seen = sub[p.id].ends]
    <3>1. proc' = [proc EXCEPT ![c] = r]
      BY <1>0, <2>8 DEF ReadDays
    <3>2. p.pc = "days" /\ p.id \in Ids
      BY <2>0, <2>8 DEF ReadDays, At, Good, Sound
    <3>3. sub[p.id].ends \in Int /\ sub[p.id].ends >= 0
      BY <3>2, <1>d DEF Row, NoSub
    <3>4. r \in Locals
      BY <2>0, <3>3, StepNames DEF Good, Locals
    <3>5. Sound(r)
      BY <2>0, <3>2, <3>3 DEF Good, Locals, Sound, Granted
    <3> QED
      BY <1>e, <3>1, <3>4, <3>5 DEF Good
  <2>9. CASE ShiftDays(c)
    BY <1>f, <2>9 DEF ShiftDays
  <2>10. CASE EndAll(c)
    BY <1>e, <2>10, IdleGood DEF EndAll
  <2>11. CASE Claim(c)
    <3>1. p.pc \in Granted /\ p.does = "sale"
      BY <2>0, <2>11 DEF Claim, At, Granted, Good, Sound
    <3> QED
      BY <1>f, <1>g, <2>11, <3>1 DEF Claim, Granted
  <2>12. CASE Own(c)
    BY <1>f, <2>12 DEF Own
  <2>13. CASE Commission(c)
    <3> DEFINE o == owner[p.user]
               share == Price[p.plan] - Cut[p.plan]
               r == [Idle EXCEPT !.pc = "credit", !.payer = o, !.amount = share]
    <3>1. \/ o \in Users /\ share > 0 /\ proc' = [proc EXCEPT ![c] = r]
          \/ Finish(c)
      BY <2>13, PeopleAreUsers DEF Commission
    <3>2. p.plan \in Plans
      BY <2>0, <2>13 DEF Commission, At, Good, Sound, Granted
    <3>3. share \in Int
      BY <3>2, PlansHavePrices
    <3>4. ASSUME o \in Users, share > 0 PROVE r \in Good
      <4> HIDE DEF o, share
      <4>1. r \in Locals
        BY <3>3, <3>4, IdleGood, StepNames DEF Good, Locals
      <4>2. Sound(r)
        BY <3>3, <3>4 DEF Idle, Sound, Granted
      <4> QED
        BY <4>1, <4>2 DEF Good
    <3> QED
      BY <1>e, <1>f, <3>1, <3>4
  <2>14. CASE Mark(c)
    BY <1>f, <2>14 DEF Mark
  <2> QED
    BY <1>6, <2>1, <2>2, <2>3, <2>4, <2>5, <2>6, <2>7, <2>8, <2>9, <2>10, <2>11, <2>12, <2>13,
       <2>14 DEF Work
<1>7. ASSUME NEW c \in Coroutines, Raise(c) PROVE proc' \in [Coroutines -> Good]
  <2>1. NextInLine(proc[c]) \in Good
    BY <1>0, NextGood DEF Good
  <2> QED
    BY <1>e, <1>7, <2>1, IdleGood DEF Raise
<1>8. CASE Tick
  BY <1>0, <1>8 DEF Tick
<1>9. CASE Crash
  BY <1>9, IdleGood DEF Crash
<1>10. CASE UNCHANGED vars
  BY <1>0, <1>10 DEF vars
<1> QED
  BY <1>1, <1>2, <1>3, <1>4, <1>5, <1>6, <1>7, <1>8, <1>9, <1>10, PeopleAreUsers DEF Next

\* The table of subscriptions keeps its type, and no row of it goes away.
LEMMA SubStep ==
    IInv /\ [Next]_vars => /\ sub' \in [Ids -> Row \cup {NoSub}]
                           /\ \A i \in Ids : sub[i] \in Row => sub'[i] \in Row
<1> SUFFICES ASSUME IInv, [Next]_vars
             PROVE  /\ sub' \in [Ids -> Row \cup {NoSub}]
                    /\ \A i \in Ids : sub[i] \in Row => sub'[i] \in Row
  OBVIOUS
<1>0. sub \in [Ids -> Row \cup {NoSub}] /\ day \in Nat
  BY BoundsAreNumbers DEF IInv, TypeOK
<1>1. ASSUME NEW c \in Coroutines, Close(c) \/ Insert(c) \/ ShiftDays(c) \/ EndAll(c)
      PROVE  /\ sub' \in [Ids -> Row \cup {NoSub}]
             /\ \A i \in Ids : sub[i] \in Row => sub'[i] \in Row
  <2> DEFINE p == proc[c]
  <2>0. p \in Locals /\ Sound(p) /\ \A i \in p.todo : sub[i] \in Row
    BY DEF IInv, TypeOK, Listed, Held
  <2>1. CASE Close(c)
    <3>1. sub' = [i \in Ids |-> IF i \in p.todo THEN [sub[i] EXCEPT !.ends = day] ELSE sub[i]]
      BY <2>1 DEF Close
    <3> QED
      BY <1>0, <2>0, <3>1 DEF Row
  <2>2. CASE EndAll(c)
    <3>1. sub' = [i \in Ids |-> IF i \in p.todo THEN [sub[i] EXCEPT !.ends = p.seen] ELSE sub[i]]
      BY <2>2 DEF EndAll
    <3>2. p.seen \in Nat
      BY <2>0 DEF Sound, Locals
    <3> QED
      BY <1>0, <2>0, <3>1, <3>2 DEF Row
  <2>3. CASE Insert(c)
    <3>1. PICK j \in Ids : sub' = [sub EXCEPT ![j] =
                         [user |-> p.user, plan |-> p.plan, ends |-> p.seen + Days[p.plan]]]
      BY <2>3 DEF Insert
    <3>2. p.user \in Users /\ p.plan \in Plans
      BY <2>0, <2>3 DEF Insert, At, Sound, Granted
    <3>3. p.seen + Days[p.plan] \in Nat
      BY <2>0, <3>2, PlansHavePrices DEF Sound, Locals
    <3> QED
      BY <1>0, <3>1, <3>2, <3>3 DEF Row
  <2>4. CASE ShiftDays(c)
    <3> DEFINE e == Shifted(p.seen, p.amount)
    <3>1. sub' = [sub EXCEPT ![p.id] = [sub[p.id] EXCEPT !.ends = e]]
      BY <1>0, <2>4 DEF ShiftDays
    <3>3. p.id \in Ids /\ p.id \in Held(p)
      BY <2>0, <2>4 DEF ShiftDays, At, Sound, Held
    <3>4. sub[p.id] \in Row
      BY <3>3 DEF IInv, Listed
    <3>2. e \in Nat
      BY <1>0, <2>0 DEF Locals, Shifted
    <3> HIDE DEF e
    <3> QED
      BY <1>0, <3>1, <3>3, <3>4, <3>2 DEF Row
  <2> QED
    BY <1>1, <2>1, <2>2, <2>3, <2>4
<1> QED
  BY <1>0, <1>1
  DEF Next, Start, Work, StartTrial, Approve, Revoke, GrantPlan, Redeem, Sell, PayIn, AdjustDays,
      Order, TakeBack, ListDue, TryRenew, Raise, Tick, Crash, Pay, ReadBalance, WriteBalance,
      TakeGift, Current, ReadDays, Claim, Own, Commission, Mark, rows, vars

\* A coroutine holds what it held, or what it has just read from the table.
LEMMA ListedStep == IInv /\ [Next]_vars => Listed'
<1> SUFFICES ASSUME IInv, [Next]_vars PROVE Listed'
  OBVIOUS
<1>0. /\ proc \in [Coroutines -> Locals]
      /\ \A i \in Ids : sub[i] \in Row => sub'[i] \in Row
      /\ TypeOK
      /\ \A c \in Coroutines : Held(proc[c]) \subseteq Ids
  BY SubStep DEF IInv, TypeOK, Held, Locals
<1>1. ASSUME NEW c \in Coroutines, NEW r, proc' = [proc EXCEPT ![c] = r],
             \A i \in Held(r) : i \in Ids /\ sub[i] \in Row
      PROVE  Listed'
  BY <1>0, <1>1 DEF IInv, Listed
<1>2. ASSUME NEW c \in Coroutines, NEW r, proc' = [proc EXCEPT ![c] = r],
             r.todo \subseteq proc[c].todo, r.pc \notin {"days", "shift"}
      PROVE  Listed'
  <2>1. \A i \in Held(r) : i \in Held(proc[c])
    BY <1>2 DEF Held
  <2> QED
    BY <1>0, <1>1, <1>2, <2>1 DEF IInv, Listed
<1>3. ASSUME NEW c \in Coroutines, Finish(c) PROVE Listed'
  <2>1. /\ NextInLine(proc[c]).todo \subseteq proc[c].todo
        /\ NextInLine(proc[c]).pc \notin {"days", "shift"}
    BY DEF NextInLine, Idle
  <2> QED
    BY <1>2, <1>3, <2>1 DEF Finish
<1>4. ASSUME NEW c \in Coroutines, NEW r, Begin(c, r),
             \A i \in Held(r) : i \in Ids /\ sub[i] \in Row
      PROVE  Listed'
  BY <1>1, <1>4 DEF Begin
<1>5. ASSUME NEW c \in Chats, Start(c) PROVE Listed'
  <2>0. c \in Coroutines
    BY DEF Coroutines
  <2>1. ASSUME NEW u \in Users, Revoke(c, u) PROVE Listed'
    <3> DEFINE r == [Idle EXCEPT !.pc = "revoke", !.todo = Active(u), !.seen = day]
    <3>1. Held(r) = Active(u)
      BY DEF Held, Idle
    <3> HIDE DEF r
    <3> QED
      BY <1>0, <1>4, <2>0, <2>1, <3>1, FoundRows DEF Revoke, r
  <2>2. ASSUME NEW u \in Users, NEW n \in Shifts, AdjustDays(c, u, n) PROVE Listed'
    <3>1. PICK i \in Farthest(u) : Begin(c, [Idle EXCEPT !.pc = "days", !.id = i, !.amount = n])
      BY <2>2 DEF AdjustDays
    <3>2. i \in Ids /\ sub[i] \in Row
      BY <1>0, <3>1, FoundRows DEF Farthest
    <3>3. Held([Idle EXCEPT !.pc = "days", !.id = i, !.amount = n]) = {i}
      BY <3>2 DEF Held, Idle
    <3> QED
      BY <1>4, <2>0, <3>1, <3>2, <3>3
  <2>3. ASSUME NEW r, Begin(c, r), Held(r) = {} PROVE Listed'
    BY <1>4, <2>0, <2>3
  <2>4. ASSUME NEW u \in Users, StartTrial(c, u) PROVE Listed'
    <3>1. Held(Granting("trial", u, Trial)) = {}
      BY DEF Held, Granting, Idle
    <3> QED
      BY <2>3, <2>4, <3>1 DEF StartTrial
  <2>5. ASSUME NEW u \in Users, Approve(c, u) PROVE Listed'
    <3>1. Held([Granting("order", u, order[u].plan) EXCEPT !.replace = order[u].replace]) = {}
      BY DEF Held, Granting, Idle
    <3> QED
      BY <2>3, <2>5, <3>1 DEF Approve
  <2>6. ASSUME NEW u \in Users, NEW p \in Plans, GrantPlan(c, u, p) PROVE Listed'
    <3>1. Held(Granting("gesture", u, p)) = {}
      BY DEF Held, Granting, Idle
    <3> QED
      BY <2>3, <2>6, <3>1 DEF GrantPlan
  <2>7. ASSUME NEW u \in Users, NEW g \in Gifts, Redeem(c, u, g) PROVE Listed'
    <3>1. Held([Granting("gift", u, GiftPlan[g]) EXCEPT !.pc = "take", !.gift = g]) = {}
      BY DEF Held, Granting, Idle
    <3> QED
      BY <2>3, <2>7, <3>1 DEF Redeem
  <2>8. ASSUME NEW r \in Resellers, NEW u \in Users, NEW p \in Plans, Sell(c, r, u, p)
        PROVE  Listed'
    <3>1. Held([Granting("sale", u, p) EXCEPT !.pc = "pay", !.payer = r, !.amount = Cut[p]]) = {}
      BY DEF Held, Granting, Idle
    <3> QED
      BY <2>3, <2>8, <3>1 DEF Sell
  <2>9. ASSUME NEW u \in Users, NEW n \in Sums, PayIn(c, u, n) PROVE Listed'
    <3>1. Held([Idle EXCEPT !.pc = "credit", !.payer = u, !.amount = n]) = {}
      BY DEF Held, Idle
    <3> QED
      BY <2>3, <2>9, <3>1 DEF PayIn
  <2> QED
    BY <1>5, <2>1, <2>2, <2>4, <2>5, <2>6, <2>7, <2>8, <2>9, PeopleAreUsers DEF Start
<1>6. CASE ListDue
  <2>1. PICK S \in SUBSET Ids :
          Due(S) /\ Begin(Renewer, [Idle EXCEPT !.pc = "renew", !.todo = S])
    BY <1>6 DEF ListDue
  <2>2. PICK f \in [Renewable -> Ids] :
          /\ \A u \in Renewable : f[u] \in Farthest(u)
          /\ S = {f[u] : u \in {v \in Renewable : EndsSoon(f[v])}}
    BY <2>1 DEF Due
  <2>3. \A i \in S : sub[i] \in Row
    BY <1>0, <2>2, FoundRows, PeopleAreUsers DEF Renewable, Farthest
  <2>4. Held([Idle EXCEPT !.pc = "renew", !.todo = S]) = S
    BY DEF Held, Idle
  <2> QED
    BY <1>4, <2>1, <2>3, <2>4 DEF Coroutines
<1>7. CASE TryRenew
  <2> DEFINE me == proc[Renewer]
             left(i) == [me EXCEPT !.todo = @ \ {i}]
             next(i) == [left(i) EXCEPT !.pc = "pay", !.does = "renewal", !.user = sub[i].user,
                           !.payer = sub[i].user, !.amount = Price[sub[i].plan],
                           !.plan = sub[i].plan, !.id = i]
  <2>1. PICK i \in me.todo :
          proc' = [proc EXCEPT ![Renewer] = next(i)]
          \/ proc' = [proc EXCEPT ![Renewer] = NextInLine(left(i))]
    BY <1>7 DEF TryRenew
  <2>2. me \in Locals /\ Renewer \in Coroutines
    BY <1>0 DEF Coroutines
  <2>3. next(i).todo \subseteq me.todo /\ next(i).pc \notin {"days", "shift"}
    BY <2>2 DEF Locals
  <2>4. /\ NextInLine(left(i)).todo \subseteq me.todo
        /\ NextInLine(left(i)).pc \notin {"days", "shift"}
    BY <2>2 DEF NextInLine, Idle, Locals
  <2> HIDE DEF next, left
  <2> QED
    BY <1>2, <2>1, <2>2, <2>3, <2>4
<1>8. ASSUME NEW c \in Coroutines, Work(c) PROVE Listed'
  <2> DEFINE p == proc[c]
  <2>0. p \in Locals /\ Sound(p)
    BY <1>0 DEF IInv
  <2>g. ASSUME NEW s \in Steps \ {"days", "shift"}, Goto(c, s) PROVE Listed'
    BY <1>2, <2>0, <2>g DEF Goto, Locals
  <2>1. CASE Pay(c) \/ WriteBalance(c) \/ TakeGift(c) \/ Claim(c) \/ Own(c) \/ Mark(c)
             \/ ShiftDays(c)
    BY <1>3, <2>1, <2>g DEF Steps, Pay, WriteBalance, TakeGift, Claim, Own, Mark, ShiftDays
  <2>2. CASE ReadBalance(c)
    <3> DEFINE r == [p EXCEPT !.pc = "write", !.seen = wallet[p.payer]]
    <3>1. proc' = [proc EXCEPT ![c] = r]
      BY <1>0, <2>2 DEF ReadBalance
    <3>2. r.todo = p.todo /\ r.pc = "write"
      BY <2>0 DEF Locals
    <3> QED
      BY <1>2, <3>1, <3>2
  <2>3. CASE Current(c)
    <3>0. p.user \in Users
      BY <2>0, <2>3 DEF Current, At, Sound, Granted
    <3> DEFINE two(i) == [p EXCEPT !.pc = "close", !.seen = day, !.todo = {i}]
    <3>1. CASE \E i \in Farthest(p.user) : proc' = [proc EXCEPT ![c] = two(i)]
      <4>1. PICK i \in Farthest(p.user) : proc' = [proc EXCEPT ![c] = two(i)]
        BY <3>1
      <4>2. i \in Ids /\ sub[i] \in Row
        BY <1>0, <3>0, FoundRows DEF Farthest
      <4>3. Held(two(i)) = {i}
        BY <2>0 DEF Held, Locals
      <4> QED
        BY <1>1, <4>1, <4>2, <4>3
    <3>2. ASSUME NEW d, proc' = [proc EXCEPT ![c] = [p EXCEPT !.pc = "insert", !.seen = d]]
          PROVE  Listed'
      BY <1>2, <2>0, <3>2 DEF Locals
    <3> QED
      BY <2>3, <3>1, <3>2 DEF Current
  <2>4. CASE Close(c)
    <3> DEFINE r == [p EXCEPT !.pc = "insert", !.todo = {}]
    <3>1. proc' = [proc EXCEPT ![c] = r]
      BY <1>0, <2>4 DEF Close
    <3>2. r.todo = {} /\ r.pc = "insert"
      BY <2>0 DEF Locals
    <3> QED
      BY <1>2, <3>1, <3>2
  <2>5. CASE Insert(c)
    <3>1. Then(p).todo \subseteq p.todo /\ Then(p).pc \notin {"days", "shift"}
      BY <2>0, <2>5 DEF Then, Idle, Locals
    <3> QED
      BY <1>2, <2>5, <3>1 DEF Insert
  <2>6. CASE ReadDays(c)
    <3> DEFINE r == [p EXCEPT !.pc = "shift", !.seen = sub[p.id].ends]
    <3>1. proc' = [proc EXCEPT ![c] = r]
      BY <1>0, <2>6 DEF ReadDays
    <3>2. Held(r) = Held(p)
      BY <2>0, <2>6 DEF ReadDays, At, Held, Locals
    <3> QED
      BY <1>0, <1>1, <3>1, <3>2 DEF IInv, Listed
  <2>7. CASE EndAll(c)
    BY <1>2, <2>7 DEF EndAll, Idle
  <2>8. CASE Commission(c)
    <3> DEFINE r(o, n) == [Idle EXCEPT !.pc = "credit", !.payer = o, !.amount = n]
    <3>1. \A o, n : Held(r(o, n)) = {}
      BY DEF Held, Idle
    <3>2. (\E o, n : proc' = [proc EXCEPT ![c] = r(o, n)]) \/ Finish(c)
      BY <2>8 DEF Commission
    <3> HIDE DEF r
    <3> QED
      BY <1>1, <1>3, <3>1, <3>2
  <2> QED
    BY <1>8, <2>1, <2>2, <2>3, <2>4, <2>5, <2>6, <2>7, <2>8 DEF Work
<1>9. ASSUME NEW c \in Coroutines, Raise(c) PROVE Listed'
  <2>1. Finish(c) \/ proc' = [proc EXCEPT ![c] = Idle]
    BY <1>9 DEF Raise, Finish
  <2> QED
    BY <1>2, <1>3, <2>1, IdleGood
<1>10. CASE Crash
  BY <1>10, IdleGood DEF Crash, Listed, Held
<1>11. CASE Tick \/ UNCHANGED vars \/ (\E u \in Users, p \in Plans : Order(u, p))
            \/ \E u \in Users, n \in Sums : TakeBack(u, n)
  <2>1. proc' = proc
    BY <1>11 DEF Tick, Order, TakeBack, vars
  <2> QED
    BY <1>0, <2>1 DEF IInv, Listed
<1> QED
  BY <1>5, <1>6, <1>7, <1>8, <1>9, <1>10, <1>11, PeopleAreUsers DEF Next

\* Balances: what a debit leaves and what a credit writes is not negative, and a
\* credit that changes a balance against the ledger has noted so.
LEMMA MoneyStep ==
    IInv /\ [Next]_vars => /\ wallet' \in [Users -> Int]
                           /\ ledger' \in [Users -> Int]
                           /\ lost' \in [Users -> BOOLEAN]
                           /\ NeverNegative'
                           /\ LedgerKept => LedgerKept'
<1> SUFFICES ASSUME IInv, [Next]_vars
             PROVE  /\ wallet' \in [Users -> Int]
                    /\ ledger' \in [Users -> Int]
                    /\ lost' \in [Users -> BOOLEAN]
                    /\ NeverNegative'
                    /\ LedgerKept => LedgerKept'
  OBVIOUS
<1> DEFINE Claimed == /\ wallet' \in [Users -> Int]
                      /\ ledger' \in [Users -> Int]
                      /\ lost' \in [Users -> BOOLEAN]
                      /\ NeverNegative'
                      /\ LedgerKept => LedgerKept'
<1>0. /\ wallet \in [Users -> Int]
      /\ ledger \in [Users -> Int]
      /\ lost \in [Users -> BOOLEAN]
      /\ NeverNegative
  BY DEF IInv, TypeOK
<1>1. ASSUME UNCHANGED money PROVE Claimed
  BY <1>0, <1>1 DEF money, NeverNegative, LedgerKept
<1>2. ASSUME NEW u \in Users, NEW n \in Int, wallet[u] >= n,
             wallet' = [wallet EXCEPT ![u] = @ - n],
             ledger' = [ledger EXCEPT ![u] = @ - n], lost' = lost
      PROVE  Claimed
  BY <1>0, <1>2 DEF NeverNegative, LedgerKept
<1>3. ASSUME NEW u \in Users, NEW n \in Sums, TakeBack(u, n) PROVE Claimed
  <2>1. n \in Int
    BY BoundsAreNumbers
  <2>2. /\ wallet[u] >= n /\ lost' = lost
        /\ wallet' = [wallet EXCEPT ![u] = @ - n]
        /\ ledger' = [ledger EXCEPT ![u] = @ - n]
    BY <1>3 DEF TakeBack
  <2> QED
    BY <1>2, <2>1, <2>2
<1>4. ASSUME NEW c \in Coroutines, Pay(c) PROVE Claimed
  <2> DEFINE u == proc[c].payer
             n == proc[c].amount
  <2>1. u \in Users /\ n \in Int
    BY <1>4 DEF IInv, TypeOK, Pay, At, Sound, Locals
  <2>2. lost' = lost /\ (Debit(u, n) \/ UNCHANGED <<wallet, ledger>>)
    BY <1>4 DEF Pay
  <2> HIDE DEF u, n
  <2> QED
    BY <1>1, <1>2, <2>1, <2>2 DEF Debit, money
<1>5. ASSUME NEW c \in Coroutines, WriteBalance(c) PROVE Claimed
  <2> DEFINE u == proc[c].payer
             n == proc[c].amount
             s == proc[c].seen
  <2>1. u \in Users /\ n \in Int /\ s \in Int /\ n >= 0 /\ s >= 0
    BY <1>5 DEF IInv, TypeOK, WriteBalance, At, Sound, Locals
  <2>2. /\ wallet' = [wallet EXCEPT ![u] = s + n]
        /\ ledger' = [ledger EXCEPT ![u] = @ + n]
        /\ lost' = [lost EXCEPT ![u] = @ \/ wallet[u] # s]
    BY <1>5 DEF WriteBalance
  <2> HIDE DEF u, n, s
  <2>3. lost' \in [Users -> BOOLEAN]
    BY <1>0, <2>2
  <2>4. /\ wallet' \in [Users -> Int]
        /\ ledger' \in [Users -> Int]
        /\ NeverNegative'
    BY <1>0, <2>1, <2>2 DEF NeverNegative
  <2>5. ASSUME LedgerKept, NEW v \in Users, ~lost'[v] PROVE wallet'[v] = ledger'[v]
    <3>1. ~lost[v] /\ (v = u => wallet[u] = s)
      BY <1>0, <2>1, <2>2, <2>5
    <3> QED
      BY <1>0, <2>1, <2>2, <2>5, <3>1 DEF LedgerKept
  <2> QED
    BY <2>3, <2>4, <2>5 DEF LedgerKept
<1>6. Claimed
  BY <1>1, <1>3, <1>4, <1>5
  DEF Next, Start, Work, StartTrial, Approve, Revoke, GrantPlan, Redeem, Sell, PayIn, AdjustDays,
      Order, ListDue, TryRenew, Raise, Tick, Crash, ReadBalance, TakeGift, Current, Close, Insert,
      ReadDays, ShiftDays, EndAll, Claim, Own, Commission, Mark, rows, money, vars
<1> QED
  BY <1>6

\* The other tables, the ghosts and the counters.
LEMMA RestStep ==
    IInv /\ [Next]_vars => /\ day' \in 0 .. MaxDay
                           /\ purchases' \in Nat
                           /\ taken' \in [Gifts -> Users \cup {Nothing}]
                           /\ owner' \in [Users -> Resellers \cup {Nothing}]
                           /\ order' \in [Users -> Request \cup {NoOrder}]
                           /\ marks' \subseteq Ids
                           /\ given' \in [Gifts -> Nat]
                           /\ renewed' \in [Ids -> Nat]
                           /\ served' \in Nat
                           /\ burnt' \in Nat
                           /\ disturbed' \in BOOLEAN
                           /\ asked' \in 0 .. MaxAsked
                           /\ failures' \in 0 .. MaxFailures
<1> SUFFICES ASSUME IInv, [Next]_vars
             PROVE  /\ day' \in 0 .. MaxDay
                    /\ purchases' \in Nat
                    /\ taken' \in [Gifts -> Users \cup {Nothing}]
                    /\ owner' \in [Users -> Resellers \cup {Nothing}]
                    /\ order' \in [Users -> Request \cup {NoOrder}]
                    /\ marks' \subseteq Ids
                    /\ given' \in [Gifts -> Nat]
                    /\ renewed' \in [Ids -> Nat]
                    /\ served' \in Nat
                    /\ burnt' \in Nat
                    /\ disturbed' \in BOOLEAN
                    /\ asked' \in 0 .. MaxAsked
                    /\ failures' \in 0 .. MaxFailures
  OBVIOUS
<1> USE BoundsAreNumbers DEF IInv, TypeOK
<1>1. day' \in 0 .. MaxDay
  <2>1. Tick \/ day' = day
    BY DEF Next, Start, Work, StartTrial, Approve, Revoke, GrantPlan, Redeem, Sell, PayIn, AdjustDays,
       Order, TakeBack, ListDue, TryRenew, Raise, Crash, Pay, ReadBalance, WriteBalance, TakeGift,
       Current, Close, Insert, ReadDays, ShiftDays, EndAll, Claim, Own, Commission, Mark, rows, vars
  <2> QED
    BY <2>1 DEF Tick
<1>2. purchases' \in Nat
  <2>1. purchases' = purchases + 1 \/ purchases' = purchases
    BY DEF Next, Start, Work, StartTrial, Approve, Revoke, GrantPlan, Redeem, Sell, PayIn, AdjustDays,
       Order, TakeBack, ListDue, TryRenew, Raise, Crash, Pay, ReadBalance, WriteBalance, TakeGift,
       Current, Close, Insert, ReadDays, ShiftDays, EndAll, Claim, Own, Commission, Mark, Tick, rows,
       vars
  <2> QED
    BY <2>1
<1>3. taken' \in [Gifts -> Users \cup {Nothing}]
  <2>1. (\E c \in Coroutines : TakeGift(c)) \/ taken' = taken
    BY DEF Next, Start, Work, StartTrial, Approve, Revoke, GrantPlan, Redeem, Sell, PayIn, AdjustDays,
       Order, TakeBack, ListDue, TryRenew, Raise, Crash, Pay, ReadBalance, WriteBalance, Tick,
       Current, Close, Insert, ReadDays, ShiftDays, EndAll, Claim, Own, Commission, Mark, rows, vars
  <2> QED
    BY <2>1 DEF TakeGift, Locals
<1>4. owner' \in [Users -> Resellers \cup {Nothing}]
  <2>1. (\E c \in Coroutines : Own(c)) \/ owner' = owner
    BY DEF Next, Start, Work, StartTrial, Approve, Revoke, GrantPlan, Redeem, Sell, PayIn, AdjustDays,
       Order, TakeBack, ListDue, TryRenew, Raise, Crash, Pay, ReadBalance, WriteBalance, TakeGift,
       Current, Close, Insert, ReadDays, ShiftDays, EndAll, Claim, Tick, Commission, Mark, rows, vars
  <2>2. ASSUME NEW c \in Coroutines, Own(c) PROVE owner' \in [Users -> Resellers \cup {Nothing}]
    <3>1. proc[c].payer \in Resellers /\ owner' = [owner EXCEPT ![proc[c].user] = proc[c].payer]
      BY <2>2 DEF Own, At, Sound, Granted
    <3> QED
      BY <3>1
  <2> QED
    BY <2>1, <2>2
<1>5. order' \in [Users -> Request \cup {NoOrder}]
  <2>1. \/ \E u \in Subscribers, p \in Plans : Order(u, p)
        \/ \E c \in Chats, u \in Subscribers : Approve(c, u)
        \/ order' = order
    BY DEF Next, Start, Work, StartTrial, Tick, Revoke, GrantPlan, Redeem, Sell, PayIn, AdjustDays,
       TakeBack, ListDue, TryRenew, Raise, Crash, Pay, ReadBalance, WriteBalance, TakeGift,
       Current, Close, Insert, ReadDays, ShiftDays, EndAll, Claim, Own, Commission, Mark, rows, vars
  <2>2. ASSUME NEW u \in Users, NEW p \in Plans, Order(u, p)
        PROVE  order' \in [Users -> Request \cup {NoOrder}]
    <3>1. \E b \in BOOLEAN : order' = [order EXCEPT ![u] = [plan |-> p, replace |-> b]]
      <4>1. \A i : IsUpgrade(i, p) \in BOOLEAN
        BY DEF IsUpgrade
      <4> QED
        BY <2>2, <4>1 DEF Order
    <3> QED
      BY <3>1 DEF Request
  <2> QED
    BY <2>1, <2>2, PeopleAreUsers DEF Approve
<1>6. marks' \subseteq Ids
  <2>1. (\E c \in Coroutines : Mark(c)) \/ marks' = marks
    BY DEF Next, Start, Work, StartTrial, Approve, Revoke, GrantPlan, Redeem, Sell, PayIn, AdjustDays,
       Order, TakeBack, ListDue, TryRenew, Raise, Crash, Pay, ReadBalance, WriteBalance, TakeGift,
       Current, Close, Insert, ReadDays, ShiftDays, EndAll, Claim, Own, Commission, Tick, rows, vars
  <2> QED
    BY <2>1 DEF Mark, At, Sound, Granted
<1>7. /\ given' \in [Gifts -> Nat]
      /\ renewed' \in [Ids -> Nat]
      /\ served' \in Nat
  <2>1. (\E c \in Coroutines : Insert(c)) \/ UNCHANGED <<given, renewed, served>>
    BY ZenonT(60) DEF Next, Start, Work, StartTrial, Approve, Revoke, GrantPlan, Redeem, Sell, PayIn, AdjustDays,
       Order, TakeBack, ListDue, TryRenew, Raise, Crash, Pay, ReadBalance, WriteBalance, TakeGift,
       Current, Close, Tick, ReadDays, ShiftDays, EndAll, Claim, Own, Commission, Mark, ghosts, vars
  <2>2. ASSUME NEW c \in Coroutines, Insert(c)
        PROVE  /\ given' \in [Gifts -> Nat]
               /\ renewed' \in [Ids -> Nat]
               /\ served' \in Nat
    BY <2>2 DEF Insert, At, Sound, Granted
  <2> QED
    BY <2>1, <2>2
<1>8. burnt' \in Nat
  <2>1. (\E c \in Coroutines : Raise(c)) \/ Crash \/ burnt' = burnt
    BY DEF Next, Start, Work, StartTrial, Approve, Revoke, GrantPlan, Redeem, Sell, PayIn, AdjustDays,
       Order, TakeBack, ListDue, TryRenew, Tick, Pay, ReadBalance, WriteBalance, TakeGift,
       Current, Close, Insert, ReadDays, ShiftDays, EndAll, Claim, Own, Commission, Mark, ghosts, vars
  <2>2. IsFiniteSet(Coroutines)
    BY ChatsAreFinite, FS_AddElement DEF Coroutines
  <2>3. Cardinality({c \in Coroutines : Paid(c)}) \in Nat
    BY <2>2, FS_Subset, FS_CardinalityType
  <2> QED
    BY <2>1, <2>3 DEF Raise, Crash
<1>9. disturbed' \in BOOLEAN
  <2>1. \/ disturbed' = disturbed
        \/ disturbed' = (disturbed \/ Disturbs)
    BY DEF Next, Start, Work, StartTrial, Approve, Revoke, GrantPlan, Redeem, Sell, PayIn, AdjustDays,
       Order, TakeBack, ListDue, TryRenew, Raise, Crash, Pay, ReadBalance, WriteBalance, TakeGift,
       Current, Close, Insert, ReadDays, ShiftDays, EndAll, Claim, Own, Commission, Mark, Tick,
       ghosts, vars
  <2> QED
    BY <2>1
<1>10. asked' \in 0 .. MaxAsked
  <2>1. Ask \/ asked' = asked
    BY DEF Next, Start, Work, StartTrial, Approve, Revoke, GrantPlan, Redeem, Sell, PayIn, AdjustDays,
       Order, TakeBack, ListDue, TryRenew, Raise, Crash, Pay, ReadBalance, WriteBalance, TakeGift,
       Current, Close, Insert, ReadDays, ShiftDays, EndAll, Claim, Own, Commission, Mark, Tick,
       counts, vars
  <2> QED
    BY <2>1 DEF Ask
<1>11. failures' \in 0 .. MaxFailures
  <2>1. (failures < MaxFailures /\ failures' = failures + 1) \/ failures' = failures
    BY ZenonT(60) DEF Next, Start, Work, StartTrial, Approve, Revoke, GrantPlan, Redeem, Sell, PayIn, AdjustDays,
       Order, TakeBack, ListDue, TryRenew, Raise, Crash, Pay, ReadBalance, WriteBalance, TakeGift,
       Current, Close, Insert, ReadDays, ShiftDays, EndAll, Claim, Own, Commission, Mark, Tick,
       counts, vars
  <2> QED
    BY <2>1
<1> QED
  BY <1>1, <1>2, <1>3, <1>4, <1>5, <1>6, <1>7, <1>8, <1>9, <1>10, <1>11

\* The invariant is inductive.
LEMMA InvStep == IInv /\ [Next]_vars => IInv'
<1> SUFFICES ASSUME IInv, [Next]_vars PROVE IInv'
  OBVIOUS
<1>1. proc' \in [Coroutines -> Locals] /\ \A c \in Coroutines : Sound(proc'[c])
  BY ProcStep DEF Good
<1>2. TypeOK'
  BY <1>1, SubStep, MoneyStep, RestStep DEF TypeOK
<1> QED
  BY <1>1, <1>2, MoneyStep, ListedStep DEF IInv

\* It holds in every state of every behaviour.
THEOREM Invariance == Spec => []IInv
  BY InvInit, InvStep, PTL DEF Spec

\* Every variable keeps its type, whatever interleaves and fails.
THEOREM TypeCorrect == Spec => []TypeOK
<1>1. IInv => TypeOK
  BY DEF IInv
<1> QED
  BY <1>1, Invariance, PTL

\* No balance becomes negative: what a debit takes is there when it takes it
\* (wallet.debit's condition), and what a credit writes is not less than it read.
THEOREM BalanceCovered == Spec => []NeverNegative
<1>1. IInv => NeverNegative
  BY DEF IInv
<1> QED
  BY <1>1, Invariance, PTL

\* A balance is the sum of its entries, unless a credit wrote over a change it
\* had not seen: the one way in which the two can part (wallet.credit).
THEOREM LedgerFollows == Spec => []LedgerKept
<1>1. Init => LedgerKept
  BY DEF Init, LedgerKept
<1>2. IInv /\ [Next]_vars /\ LedgerKept => LedgerKept'
  BY MoneyStep
<1> QED
  BY <1>1, <1>2, Invariance, PTL DEF Spec

\* Between the UPDATE that took its code and the subscription it gives.
Redeeming(p) == p.does = "gift" /\ p.pc \in {"current", "close", "insert"}
\* A code that gave, or that a handler is about to give for, is taken; it has
\* one such handler, and none once it gave.
GiftInv ==
    /\ \A g \in Gifts : given[g] <= 1 /\ (given[g] > 0 => taken[g] # Nothing)
    /\ \A c \in Coroutines : Redeeming(proc[c]) =>
           taken[proc[c].gift] # Nothing /\ given[proc[c].gift] = 0
    /\ \A c, d \in Coroutines :
           Redeeming(proc[c]) /\ Redeeming(proc[d]) /\ proc[c].gift = proc[d].gift => c = d

\* The conditional UPDATE is where a second handler is turned away.
LEMMA GiftStep == IInv /\ GiftInv /\ [Next]_vars => GiftInv'
<1> SUFFICES ASSUME IInv, GiftInv, [Next]_vars PROVE GiftInv'
  OBVIOUS
<1>0. /\ proc \in [Coroutines -> Good]
      /\ taken \in [Gifts -> Users \cup {Nothing}] /\ given \in [Gifts -> Nat]
  BY DEF IInv, TypeOK, Good
<1>1. ASSUME NEW c \in Coroutines, NEW r, proc' = [proc EXCEPT ![c] = r],
             Redeeming(r) => Redeeming(proc[c]) /\ r.gift = proc[c].gift,
             taken' = taken, given' = given
      PROVE  GiftInv'
  BY <1>0, <1>1 DEF GiftInv
<1>2. ASSUME NEW c \in Coroutines, NEW r, proc' = [proc EXCEPT ![c] = r],
             ~Redeeming(r), taken' = taken, given' = given
      PROVE  GiftInv'
  BY <1>1, <1>2
<1>3. ASSUME proc' = proc, taken' = taken, given' = given PROVE GiftInv'
  BY <1>3 DEF GiftInv
<1>4. \A p : ~Redeeming(NextInLine(p)) /\ ~Redeeming(Idle)
  BY DEF Redeeming, NextInLine, Idle
<1>5. ASSUME NEW c \in Chats, Start(c) PROVE GiftInv'
  <2>1. c \in Coroutines
    BY DEF Coroutines
  <2>2. taken' = taken /\ given' = given
    BY <1>5 DEF Start, StartTrial, Approve, Revoke, GrantPlan, Redeem, Sell, PayIn, AdjustDays, rows,
       ghosts
  <2>b. ASSUME NEW r, Begin(c, r), r.does # "gift" \/ r.pc \notin {"current", "close", "insert"}
        PROVE  GiftInv'
    BY <1>2, <2>1, <2>2, <2>b DEF Begin, Redeeming
  <2>3. ASSUME NEW u, StartTrial(c, u) PROVE GiftInv'
    <3>1. Granting("trial", u, Trial).does = "trial"
      BY DEF Granting, Idle
    <3> QED
      BY <2>b, <2>3, <3>1 DEF StartTrial
  <2>4. ASSUME NEW u, Approve(c, u) PROVE GiftInv'
    <3>1. [Granting("order", u, order[u].plan) EXCEPT !.replace = order[u].replace].does = "order"
      BY DEF Granting, Idle
    <3> QED
      BY <2>b, <2>4, <3>1 DEF Approve
  <2>5. ASSUME NEW u, Revoke(c, u) PROVE GiftInv'
    <3>1. [Idle EXCEPT !.pc = "revoke", !.todo = Active(u), !.seen = day].does = "nothing"
      BY DEF Idle
    <3> QED
      BY <2>b, <2>5, <3>1 DEF Revoke
  <2>6. ASSUME NEW u, NEW q, GrantPlan(c, u, q) PROVE GiftInv'
    <3>1. Granting("gesture", u, q).does = "gesture"
      BY DEF Granting, Idle
    <3> QED
      BY <2>b, <2>6, <3>1 DEF GrantPlan
  <2>7. ASSUME NEW u, NEW g, Redeem(c, u, g) PROVE GiftInv'
    <3>1. [Granting("gift", u, GiftPlan[g]) EXCEPT !.pc = "take", !.gift = g].pc = "take"
      BY DEF Granting, Idle
    <3> QED
      BY <2>b, <2>7, <3>1 DEF Redeem
  <2>8. ASSUME NEW s, NEW u, NEW q, Sell(c, s, u, q) PROVE GiftInv'
    <3>1. [Granting("sale", u, q) EXCEPT !.pc = "pay", !.payer = s, !.amount = Cut[q]].pc = "pay"
      BY DEF Granting, Idle
    <3> QED
      BY <2>b, <2>8, <3>1 DEF Sell
  <2>9. ASSUME NEW u, NEW n, PayIn(c, u, n) PROVE GiftInv'
    <3>1. [Idle EXCEPT !.pc = "credit", !.payer = u, !.amount = n].pc = "credit"
      BY DEF Idle
    <3> QED
      BY <2>b, <2>9, <3>1 DEF PayIn
  <2>10. ASSUME NEW u, NEW n, AdjustDays(c, u, n) PROVE GiftInv'
    <3>1. PICK i : Begin(c, [Idle EXCEPT !.pc = "days", !.id = i, !.amount = n])
      BY <2>10 DEF AdjustDays
    <3>2. [Idle EXCEPT !.pc = "days", !.id = i, !.amount = n].pc = "days"
      BY DEF Idle
    <3> QED
      BY <2>b, <3>1, <3>2
  <2> QED
    BY <1>5, <2>3, <2>4, <2>5, <2>6, <2>7, <2>8, <2>9, <2>10 DEF Start
<1>6. CASE ListDue \/ TryRenew
  <2>1. taken' = taken /\ given' = given /\ Renewer \in Coroutines
    BY <1>6 DEF ListDue, TryRenew, rows, ghosts, Coroutines
  <2>2. proc[Renewer] \in Locals
    BY <1>0, <2>1 DEF Good
  <2>3. CASE ListDue
    <3>1. PICK S : proc' = [proc EXCEPT ![Renewer] = [Idle EXCEPT !.pc = "renew", !.todo = S]]
      BY <2>3 DEF ListDue, Begin
    <3>2. ~Redeeming([Idle EXCEPT !.pc = "renew", !.todo = S])
      BY DEF Idle, Redeeming
    <3> QED
      BY <1>2, <2>1, <3>1, <3>2
  <2>4. CASE TryRenew
    <3> DEFINE left(i) == [proc[Renewer] EXCEPT !.todo = @ \ {i}]
               next(i) == [left(i) EXCEPT !.pc = "pay", !.does = "renewal", !.user = sub[i].user,
                             !.payer = sub[i].user, !.amount = Price[sub[i].plan],
                             !.plan = sub[i].plan, !.id = i]
    <3>1. PICK i : proc' = [proc EXCEPT ![Renewer] = next(i)]
                   \/ proc' = [proc EXCEPT ![Renewer] = NextInLine(left(i))]
      BY <2>4 DEF TryRenew
    <3>2. ~Redeeming(next(i))
      BY <2>2 DEF Redeeming, Locals
    <3> HIDE DEF left, next
    <3> QED
      BY <1>2, <1>4, <2>1, <3>1, <3>2
  <2> QED
    BY <1>6, <2>3, <2>4
<1>7. ASSUME NEW c \in Coroutines, Work(c) PROVE GiftInv'
  <2> DEFINE p == proc[c]
             g == p.gift
  <2>0. p \in Locals /\ Sound(p)
    BY <1>0 DEF Good
  <2>1. CASE TakeGift(c)
    <3>0. /\ p.pc = "take" /\ p.does = "gift" /\ g \in Gifts /\ p.user # Nothing
          /\ given' = given
      BY <2>0, <2>1, NothingIsApart DEF TakeGift, At, Sound, Granted, ghosts
    <3>1. CASE StillFree(g)
      <4> DEFINE r == [p EXCEPT !.pc = "current"]
      <4>1. taken' = [taken EXCEPT ![g] = p.user] /\ proc' = [proc EXCEPT ![c] = r]
        BY <1>0, <2>1, <3>1 DEF TakeGift, Goto
      <4>2. r.gift = g
        BY <2>0 DEF Locals
      <4>3. given[g] = 0 /\ \A d \in Coroutines : Redeeming(proc[d]) => proc[d].gift # g
        BY <1>0, <3>0, <3>1 DEF GiftInv, StillFree
      <4>4. \A h \in Gifts : taken[h] # Nothing => taken'[h] # Nothing
        BY <1>0, <3>0, <4>1
      <4>5. \A d \in Coroutines : d # c => proc'[d] = proc[d]
        BY <1>0, <4>1
      <4>6. proc'[c] = r /\ taken'[g] = p.user
        BY <1>0, <3>0, <4>1
      <4> HIDE DEF r, p, g
      <4>7. \A d \in Coroutines : Redeeming(proc[d]) => proc[d].gift \in Gifts
        BY <1>0 DEF Redeeming, Good, Sound, Granted
      <4>8. \A h \in Gifts : given'[h] <= 1 /\ (given'[h] > 0 => taken'[h] # Nothing)
        BY <3>0, <4>4 DEF GiftInv
      <4>9. \A d \in Coroutines : Redeeming(proc'[d]) =>
                taken'[proc'[d].gift] # Nothing /\ given'[proc'[d].gift] = 0
        BY <3>0, <4>2, <4>3, <4>4, <4>5, <4>6, <4>7 DEF GiftInv
      <4>10. \A d, e \in Coroutines :
                Redeeming(proc'[d]) /\ Redeeming(proc'[e]) /\ proc'[d].gift = proc'[e].gift => d = e
        BY <4>2, <4>3, <4>5, <4>6 DEF GiftInv
      <4> QED
        BY <4>8, <4>9, <4>10 DEF GiftInv
    <3>2. CASE ~StillFree(g)
      BY <1>2, <1>4, <2>1, <3>0, <3>2 DEF TakeGift, Finish
    <3> QED
      BY <3>1, <3>2
  <2>2. CASE Insert(c)
    <3>1. /\ p.pc = "insert" /\ taken' = taken /\ proc' = [proc EXCEPT ![c] = Then(p)]
          /\ given' = IF p.does = "gift" THEN [given EXCEPT ![g] = @ + 1] ELSE given
      BY <2>2 DEF Insert, At
    <3>2. ~Redeeming(Then(p))
      BY <2>0 DEF Then, Idle, Redeeming, Locals
    <3>3. CASE p.does = "gift"
      <4>1. Redeeming(p) /\ g \in Gifts
        BY <2>0, <3>1, <3>3 DEF Redeeming, Sound, Granted
      <4>2. /\ taken[g] # Nothing /\ given[g] = 0
            /\ \A d \in Coroutines \ {c} : Redeeming(proc[d]) => proc[d].gift # g
        BY <4>1 DEF GiftInv
      <4>3. \A d \in Coroutines : d # c => proc'[d] = proc[d]
        BY <1>0, <3>1
      <4>4. proc'[c] = Then(p)
        BY <1>0, <3>1
      <4>5. given'[g] = 1 /\ \A h : h # g => given'[h] = given[h]
        BY <1>0, <3>1, <3>3, <4>1, <4>2
      <4> HIDE DEF p, g
      <4> QED
        BY <3>1, <3>2, <4>2, <4>3, <4>4, <4>5 DEF GiftInv
    <3> QED
      BY <1>2, <3>1, <3>2, <3>3
  <2>3. CASE Current(c)
    <3>1. \E r : /\ proc' = [proc EXCEPT ![c] = r]
                 /\ r.does = p.does /\ r.gift = g
      BY <2>0, <2>3, ZenonT(60) DEF Current, Locals
    <3>2. taken' = taken /\ given' = given /\ p.pc = "current"
      BY <2>3 DEF Current, At, rows, ghosts
    <3> QED
      BY <1>1, <3>1, <3>2 DEF Redeeming
  <2>4. CASE Close(c)
    <3> DEFINE r == [p EXCEPT !.pc = "insert", !.todo = {}]
    <3>1. proc' = [proc EXCEPT ![c] = r] /\ taken' = taken /\ given' = given /\ p.pc = "close"
      BY <1>0, <2>4 DEF Close, At
    <3>2. r.does = p.does /\ r.gift = g
      BY <2>0 DEF Locals
    <3> HIDE DEF r
    <3> QED
      BY <1>1, <3>1, <3>2 DEF Redeeming
  <2>5. CASE Pay(c)
    <3>1. p.pc = "pay" /\ taken' = taken /\ given' = given
      BY <2>5 DEF Pay, At, ghosts
    <3>2. p.does # "gift"
      BY <2>0, <3>1 DEF Sound
    <3>3. \E r : proc' = [proc EXCEPT ![c] = r] /\ ~Redeeming(r)
      BY <1>0, <1>4, <2>0, <2>5, <3>2 DEF Pay, Goto, Finish, Redeeming, Locals
    <3> QED
      BY <1>2, <3>1, <3>3
  <2>6. CASE ReadBalance(c) \/ ReadDays(c) \/ Claim(c)
    <3>1. taken' = taken /\ given' = given
      BY <2>6 DEF ReadBalance, ReadDays, Claim, rows, ghosts
    <3>2. CASE ReadBalance(c)
      <4> DEFINE r == [p EXCEPT !.pc = "write", !.seen = wallet[p.payer]]
      <4>1. proc' = [proc EXCEPT ![c] = r]
        BY <1>0, <3>2 DEF ReadBalance
      <4>2. ~Redeeming(r)
        BY <2>0 DEF Redeeming, Locals
      <4> QED
        BY <1>2, <3>1, <4>1, <4>2
    <3>3. CASE ReadDays(c)
      <4> DEFINE r == [p EXCEPT !.pc = "shift", !.seen = sub[p.id].ends]
      <4>1. proc' = [proc EXCEPT ![c] = r]
        BY <1>0, <3>3 DEF ReadDays
      <4>2. ~Redeeming(r)
        BY <2>0 DEF Redeeming, Locals
      <4> QED
        BY <1>2, <3>1, <4>1, <4>2
    <3>4. CASE Claim(c)
      <4> DEFINE r == [p EXCEPT !.pc = "own"]
      <4>1. proc' = [proc EXCEPT ![c] = r] \/ proc' = [proc EXCEPT ![c] = NextInLine(p)]
        BY <1>0, <3>4 DEF Claim, Goto, Finish
      <4>2. ~Redeeming(r)
        BY <2>0 DEF Redeeming, Locals
      <4> QED
        BY <1>2, <1>4, <3>1, <4>1, <4>2
    <3> QED
      BY <2>6, <3>2, <3>3, <3>4
  <2>7. CASE WriteBalance(c) \/ ShiftDays(c) \/ EndAll(c) \/ Own(c) \/ Commission(c) \/ Mark(c)
    <3>1. taken' = taken /\ given' = given
      BY <2>7 DEF WriteBalance, ShiftDays, EndAll, Own, Commission, Mark, rows, ghosts
    <3> DEFINE r(o, n) == [Idle EXCEPT !.pc = "credit", !.payer = o, !.amount = n]
    <3>2. \A o, n : ~Redeeming(r(o, n))
      BY DEF Idle, Redeeming
    <3>3. \/ Finish(c)
          \/ proc' = [proc EXCEPT ![c] = Idle]
          \/ \E o, n : proc' = [proc EXCEPT ![c] = r(o, n)]
      BY <2>7 DEF WriteBalance, ShiftDays, EndAll, Own, Commission, Mark
    <3> HIDE DEF r
    <3> QED
      BY <1>2, <1>4, <3>1, <3>2, <3>3 DEF Finish
  <2> QED
    BY <1>7, <2>1, <2>2, <2>3, <2>4, <2>5, <2>6, <2>7 DEF Work
<1>8. ASSUME NEW c \in Coroutines, Raise(c) PROVE GiftInv'
  BY <1>2, <1>4, <1>8 DEF Raise, rows
<1>9. CASE Crash
  BY <1>4, <1>9 DEF Crash, GiftInv, rows
<1>10. CASE Tick \/ UNCHANGED vars \/ (\E u \in Users, p \in Plans : Order(u, p))
             \/ \E u \in Users, n \in Sums : TakeBack(u, n)
  BY <1>3, <1>10 DEF Tick, Order, TakeBack, ghosts, vars
<1> QED
  BY <1>5, <1>6, <1>7, <1>8, <1>9, <1>10, PeopleAreUsers DEF Next

\* A gift code gives one subscription, however many handlers redeem it at once
\* and whatever fails between their steps (giftcodes.redeem).
THEOREM GiftGivenOnce == Spec => []GiftOnce
<1>1. Init => GiftInv
  BY IdleGood DEF Init, GiftInv, Redeeming
<1>2. Spec => []GiftInv
  BY <1>1, GiftStep, Invariance, PTL DEF Spec
<1>3. GiftInv => GiftOnce
  BY DEF GiftInv, GiftOnce
<1> QED
  BY <1>2, <1>3, PTL

\* The locals of a coroutine that paid for a plan and did not give it yet.
Owes(p) == p.does \in {"sale", "renewal"} /\ p.pc \in {"current", "insert"}

\* A coroutine that starts or stops to owe a plan changes their number by one.
LEMMA OneMore ==
    ASSUME TypeOK, NEW c \in Coroutines, NEW r, proc' = [proc EXCEPT ![c] = r]
    PROVE  /\ Cardinality({d \in Coroutines : Paid(d)}) \in Nat
           /\ (Owes(r) <=> Owes(proc[c])) =>
                Cardinality({d \in Coroutines : Paid(d)}') = Cardinality({d \in Coroutines : Paid(d)})
           /\ Owes(r) /\ ~Owes(proc[c]) =>
                Cardinality({d \in Coroutines : Paid(d)}')
                  = Cardinality({d \in Coroutines : Paid(d)}) + 1
           /\ ~Owes(r) /\ Owes(proc[c]) =>
                Cardinality({d \in Coroutines : Paid(d)}')
                  = Cardinality({d \in Coroutines : Paid(d)}) - 1
<1> DEFINE S == {d \in Coroutines : Paid(d)}
           T == {d \in Coroutines : Paid(d)}'
<1>0. proc \in [Coroutines -> Locals]
  BY DEF TypeOK
<1>1. IsFiniteSet(S)
  <2>1. IsFiniteSet(Coroutines)
    BY ChatsAreFinite, FS_AddElement DEF Coroutines
  <2> QED
    BY <2>1, FS_Subset
<1>2. \A d \in Coroutines : d \in S <=> Owes(proc[d])
  BY DEF Paid, Owes
<1>3. \A d \in Coroutines : d \in T <=> Owes(proc'[d])
  BY DEF Paid, Owes
<1>4. proc'[c] = r /\ \A d \in Coroutines : d # c => proc'[d] = proc[d]
  BY <1>0
<1>5. S \subseteq Coroutines /\ T \subseteq Coroutines
  OBVIOUS
<1> HIDE DEF S, T
<1>6. Cardinality(S) \in Nat
  BY <1>1, FS_CardinalityType
<1>7. ASSUME Owes(r) <=> Owes(proc[c]) PROVE T = S
  BY <1>2, <1>3, <1>4, <1>5, <1>7
<1>8. ASSUME Owes(r), ~Owes(proc[c]) PROVE Cardinality(T) = Cardinality(S) + 1
  <2>1. T = S \cup {c} /\ c \notin S
    BY <1>2, <1>3, <1>4, <1>5, <1>8
  <2> QED
    BY <1>1, <2>1, FS_AddElement
<1>9. ASSUME ~Owes(r), Owes(proc[c]) PROVE Cardinality(T) = Cardinality(S) - 1
  <2>1. T = S \ {c} /\ c \in S
    BY <1>2, <1>3, <1>4, <1>5, <1>9
  <2> QED
    BY <1>1, <2>1, FS_RemoveElement
<1> QED
  BY <1>6, <1>7, <1>8, <1>9 DEF S, T

\* Each debit of a purchase makes a debtor, each grant and each failure of a
\* debtor's coroutine one less.
LEMMA PaidStep == IInv /\ PaidFor /\ [Next]_vars => PaidFor'
<1> SUFFICES ASSUME IInv, PaidFor, [Next]_vars PROVE PaidFor'
  OBVIOUS
<1> DEFINE N == Cardinality({d \in Coroutines : Paid(d)})
           M == Cardinality({d \in Coroutines : Paid(d)}')
<1>0. /\ TypeOK
      /\ proc \in [Coroutines -> Good]
      /\ purchases \in Nat /\ served \in Nat /\ burnt \in Nat
      /\ purchases = served + burnt + N
      /\ Renewer \in Coroutines /\ Chats \subseteq Coroutines
  BY DEF IInv, TypeOK, Good, PaidFor, Coroutines
<1>p. PaidFor' <=> purchases' = served' + burnt' + M
  BY DEF PaidFor
<1>o. ASSUME NEW c \in Coroutines, NEW r, proc' = [proc EXCEPT ![c] = r]
      PROVE  /\ N \in Nat
             /\ (Owes(r) <=> Owes(proc[c])) => M = N
             /\ Owes(r) /\ ~Owes(proc[c]) => M = N + 1
             /\ ~Owes(r) /\ Owes(proc[c]) => M = N - 1
  BY <1>0, <1>o, OneMore
<1> HIDE DEF N, M
<1>1. ASSUME NEW c \in Coroutines, NEW r, proc' = [proc EXCEPT ![c] = r], Owes(r) <=> Owes(proc[c]),
             UNCHANGED <<purchases, served, burnt>>
      PROVE  PaidFor'
  BY <1>0, <1>1, <1>o, <1>p
<1>2. ASSUME NEW c \in Coroutines, NEW r, proc' = [proc EXCEPT ![c] = r], ~Owes(r), ~Owes(proc[c]),
             UNCHANGED <<purchases, served, burnt>>
      PROVE  PaidFor'
  BY <1>1, <1>2
<1>3. \A q : ~Owes(NextInLine(q)) /\ ~Owes(Idle)
  BY DEF Owes, NextInLine, Idle
<1>4. ASSUME NEW c \in Coroutines, Finish(c), ~Owes(proc[c]), UNCHANGED <<purchases, served, burnt>>
      PROVE  PaidFor'
  BY <1>2, <1>3, <1>4 DEF Finish
<1>5. ASSUME NEW c \in Chats, Start(c) PROVE PaidFor'
  <2>1. UNCHANGED <<purchases, served, burnt>>
    BY <1>5 DEF Start, StartTrial, Approve, Revoke, GrantPlan, Redeem, Sell, PayIn, AdjustDays, rows,
       ghosts
  <2>b. ASSUME NEW r, Begin(c, r), r.does \notin {"sale", "renewal"} \/ r.pc = "pay"
        PROVE  PaidFor'
    BY <1>0, <1>2, <2>1, <2>b DEF Begin, At, Owes
  <2>3. ASSUME NEW u, StartTrial(c, u) PROVE PaidFor'
    <3>1. Granting("trial", u, Trial).does = "trial"
      BY DEF Granting, Idle
    <3> QED
      BY <2>b, <2>3, <3>1 DEF StartTrial
  <2>4. ASSUME NEW u, Approve(c, u) PROVE PaidFor'
    <3>1. [Granting("order", u, order[u].plan) EXCEPT !.replace = order[u].replace].does = "order"
      BY DEF Granting, Idle
    <3> QED
      BY <2>b, <2>4, <3>1 DEF Approve
  <2>5. ASSUME NEW u, Revoke(c, u) PROVE PaidFor'
    <3>1. [Idle EXCEPT !.pc = "revoke", !.todo = Active(u), !.seen = day].does = "nothing"
      BY DEF Idle
    <3> QED
      BY <2>b, <2>5, <3>1 DEF Revoke
  <2>6. ASSUME NEW u, NEW q, GrantPlan(c, u, q) PROVE PaidFor'
    <3>1. Granting("gesture", u, q).does = "gesture"
      BY DEF Granting, Idle
    <3> QED
      BY <2>b, <2>6, <3>1 DEF GrantPlan
  <2>7. ASSUME NEW u, NEW g, Redeem(c, u, g) PROVE PaidFor'
    <3>1. [Granting("gift", u, GiftPlan[g]) EXCEPT !.pc = "take", !.gift = g].does = "gift"
      BY DEF Granting, Idle
    <3> QED
      BY <2>b, <2>7, <3>1 DEF Redeem
  <2>8. ASSUME NEW s, NEW u, NEW q, Sell(c, s, u, q) PROVE PaidFor'
    <3>1. [Granting("sale", u, q) EXCEPT !.pc = "pay", !.payer = s, !.amount = Cut[q]].pc = "pay"
      BY DEF Granting, Idle
    <3> QED
      BY <2>b, <2>8, <3>1 DEF Sell
  <2>9. ASSUME NEW u, NEW n, PayIn(c, u, n) PROVE PaidFor'
    <3>1. [Idle EXCEPT !.pc = "credit", !.payer = u, !.amount = n].does = "nothing"
      BY DEF Idle
    <3> QED
      BY <2>b, <2>9, <3>1 DEF PayIn
  <2>10. ASSUME NEW u, NEW n, AdjustDays(c, u, n) PROVE PaidFor'
    <3>1. PICK i : Begin(c, [Idle EXCEPT !.pc = "days", !.id = i, !.amount = n])
      BY <2>10 DEF AdjustDays
    <3>2. [Idle EXCEPT !.pc = "days", !.id = i, !.amount = n].does = "nothing"
      BY DEF Idle
    <3> QED
      BY <2>b, <3>1, <3>2
  <2> QED
    BY <1>5, <2>3, <2>4, <2>5, <2>6, <2>7, <2>8, <2>9, <2>10 DEF Start
<1>6. CASE ListDue
  <2>1. PICK S : proc' = [proc EXCEPT ![Renewer] = [Idle EXCEPT !.pc = "renew", !.todo = S]]
    BY <1>6 DEF ListDue, Begin
  <2>2. ~Owes([Idle EXCEPT !.pc = "renew", !.todo = S])
    BY DEF Idle, Owes
  <2>3. proc[Renewer].pc = "idle" /\ UNCHANGED <<purchases, served, burnt>>
    BY <1>6 DEF ListDue, Begin, At, rows, ghosts
  <2> QED
    BY <1>0, <1>2, <2>1, <2>2, <2>3 DEF Owes
<1>7. CASE TryRenew
  <2> DEFINE left(i) == [proc[Renewer] EXCEPT !.todo = @ \ {i}]
             next(i) == [left(i) EXCEPT !.pc = "pay", !.does = "renewal", !.user = sub[i].user,
                           !.payer = sub[i].user, !.amount = Price[sub[i].plan],
                           !.plan = sub[i].plan, !.id = i]
  <2>1. PICK i : proc' = [proc EXCEPT ![Renewer] = next(i)]
                 \/ proc' = [proc EXCEPT ![Renewer] = NextInLine(left(i))]
    BY <1>7 DEF TryRenew
  <2>2. ~Owes(next(i))
    BY <1>0 DEF Owes, Good, Locals
  <2>3. proc[Renewer].pc = "renew" /\ UNCHANGED <<purchases, served, burnt>>
    BY <1>7 DEF TryRenew, At, rows, ghosts
  <2> HIDE DEF left, next
  <2> QED
    BY <1>0, <1>2, <1>3, <2>1, <2>2, <2>3 DEF Owes
<1>8. ASSUME NEW c \in Coroutines, Work(c) PROVE PaidFor'
  <2> DEFINE p == proc[c]
  <2>0. p \in Locals /\ Sound(p)
    BY <1>0 DEF Good
  <2>1. CASE Pay(c)
    <3> DEFINE r == [p EXCEPT !.pc = "current"]
    <3>1. p.pc = "pay" /\ p.does \in {"sale", "renewal"} /\ UNCHANGED <<served, burnt>>
      BY <2>0, <2>1 DEF Pay, At, Sound, ghosts
    <3>2. Owes(r) /\ ~Owes(p)
      BY <2>0, <3>1 DEF Owes, Locals
    <3>3. \/ proc' = [proc EXCEPT ![c] = r] /\ purchases' = purchases + 1
          \/ Finish(c) /\ purchases' = purchases
      BY <1>0, <2>1 DEF Pay, Goto
    <3> HIDE DEF r
    <3> QED
      BY <1>0, <1>4, <1>o, <1>p, <3>1, <3>2, <3>3
  <2>2. CASE Insert(c)
    <3>1. /\ p.pc = "insert" /\ proc' = [proc EXCEPT ![c] = Then(p)]
          /\ UNCHANGED <<purchases, burnt>>
          /\ served' = IF p.does \in {"sale", "renewal"} THEN served + 1 ELSE served
      BY <2>2 DEF Insert, At
    <3>2. ~Owes(Then(p))
      BY <2>0 DEF Then, Idle, Owes, Locals
    <3>3. Owes(p) <=> p.does \in {"sale", "renewal"}
      BY <3>1 DEF Owes
    <3>4. CASE p.does \in {"sale", "renewal"}
      <4>1. M = N - 1 /\ N \in Nat
        BY <1>o, <3>1, <3>2, <3>3, <3>4
      <4> QED
        BY <1>0, <1>p, <3>1, <3>4, <4>1
    <3>5. CASE p.does \notin {"sale", "renewal"}
      BY <1>2, <3>1, <3>2, <3>3, <3>5
    <3> QED
      BY <3>4, <3>5
  <2>3. CASE Current(c)
    <3>1. p.pc = "current" /\ UNCHANGED <<purchases, served, burnt>>
      BY <2>3 DEF Current, At, rows, ghosts
    <3> DEFINE a(d) == [p EXCEPT !.pc = "insert", !.seen = d]
               b(i) == [p EXCEPT !.pc = "close", !.seen = day, !.todo = {i}]
    <3>2. \A d : Owes(a(d)) <=> Owes(p)
      BY <2>0, <3>1 DEF Owes, Locals
    <3>3. p.replace => \A i : Owes(b(i)) <=> Owes(p)
      BY <2>0, <3>1 DEF Owes, Sound, Locals
    <3>4. \/ \E d : proc' = [proc EXCEPT ![c] = a(d)]
          \/ p.replace /\ \E i : proc' = [proc EXCEPT ![c] = b(i)]
      BY <2>3 DEF Current
    <3> HIDE DEF a, b
    <3> QED
      BY <1>1, <3>1, <3>2, <3>3, <3>4
  <2>4. CASE Close(c)
    <3> DEFINE r == [p EXCEPT !.pc = "insert", !.todo = {}]
    <3>1. proc' = [proc EXCEPT ![c] = r] /\ p.pc = "close" /\ UNCHANGED <<purchases, served, burnt>>
      BY <1>0, <2>4 DEF Close, At
    <3>2. ~Owes(r) /\ ~Owes(p)
      BY <2>0, <3>1 DEF Owes, Sound, Locals
    <3> HIDE DEF r
    <3> QED
      BY <1>2, <3>1, <3>2
  <2>5. CASE TakeGift(c)
    <3> DEFINE r == [p EXCEPT !.pc = "current"]
    <3>1. p.pc = "take" /\ p.does = "gift" /\ UNCHANGED <<purchases, served, burnt>>
      BY <2>0, <2>5 DEF TakeGift, At, Sound, ghosts
    <3>2. ~Owes(r) /\ ~Owes(p)
      BY <2>0, <3>1 DEF Owes, Locals
    <3>3. proc' = [proc EXCEPT ![c] = r] \/ Finish(c)
      BY <1>0, <2>5 DEF TakeGift, Goto
    <3> HIDE DEF r
    <3> QED
      BY <1>2, <1>4, <3>1, <3>2, <3>3
  <2>6. CASE ReadBalance(c)
    <3> DEFINE r == [p EXCEPT !.pc = "write", !.seen = wallet[p.payer]]
    <3>1. proc' = [proc EXCEPT ![c] = r] /\ p.pc = "credit" /\ UNCHANGED <<purchases, served, burnt>>
      BY <1>0, <2>6 DEF ReadBalance, At, rows, ghosts
    <3>2. ~Owes(r) /\ ~Owes(p)
      BY <2>0, <3>1 DEF Owes, Locals
    <3> HIDE DEF r
    <3> QED
      BY <1>2, <3>1, <3>2
  <2>7. CASE ReadDays(c)
    <3> DEFINE r == [p EXCEPT !.pc = "shift", !.seen = sub[p.id].ends]
    <3>1. proc' = [proc EXCEPT ![c] = r] /\ p.pc = "days" /\ UNCHANGED <<purchases, served, burnt>>
      BY <1>0, <2>7 DEF ReadDays, At, rows, ghosts
    <3>2. ~Owes(r) /\ ~Owes(p)
      BY <2>0, <3>1 DEF Owes, Locals
    <3> HIDE DEF r
    <3> QED
      BY <1>2, <3>1, <3>2
  <2>8. CASE Claim(c)
    <3> DEFINE r == [p EXCEPT !.pc = "own"]
    <3>1. p.pc = "claim" /\ UNCHANGED <<purchases, served, burnt>>
      BY <2>8 DEF Claim, At, rows, ghosts
    <3>2. ~Owes(r) /\ ~Owes(p)
      BY <2>0, <3>1 DEF Owes, Locals
    <3>3. proc' = [proc EXCEPT ![c] = r] \/ Finish(c)
      BY <1>0, <2>8 DEF Claim, Goto
    <3> HIDE DEF r
    <3> QED
      BY <1>2, <1>4, <3>1, <3>2, <3>3
  <2>9. CASE WriteBalance(c) \/ ShiftDays(c) \/ EndAll(c) \/ Own(c) \/ Commission(c) \/ Mark(c)
    <3> DEFINE r(o, n) == [Idle EXCEPT !.pc = "credit", !.payer = o, !.amount = n]
    <3>1. UNCHANGED <<purchases, served, burnt>>
      BY <2>9 DEF WriteBalance, ShiftDays, EndAll, Own, Commission, Mark, rows, ghosts
    <3>2. ~Owes(p) /\ \A o, n : ~Owes(r(o, n))
      BY <2>9 DEF WriteBalance, ShiftDays, EndAll, Own, Commission, Mark, At, Idle, Owes
    <3>3. \/ Finish(c)
          \/ proc' = [proc EXCEPT ![c] = Idle]
          \/ \E o, n : proc' = [proc EXCEPT ![c] = r(o, n)]
      BY <2>9 DEF WriteBalance, ShiftDays, EndAll, Own, Commission, Mark
    <3> HIDE DEF r
    <3> QED
      BY <1>2, <1>3, <1>4, <3>1, <3>2, <3>3
  <2> QED
    BY <1>8, <2>1, <2>2, <2>3, <2>4, <2>5, <2>6, <2>7, <2>8, <2>9 DEF Work
<1>9. ASSUME NEW c \in Coroutines, Raise(c) PROVE PaidFor'
  <2>1. PICK r : proc' = [proc EXCEPT ![c] = r] /\ ~Owes(r)
    BY <1>3, <1>9 DEF Raise
  <2>2. /\ purchases' = purchases /\ served' = served
        /\ burnt' = IF Owes(proc[c]) THEN burnt + 1 ELSE burnt
    BY <1>9 DEF Raise, rows, Paid, Owes
  <2>3. CASE Owes(proc[c])
    <3>1. M = N - 1 /\ N \in Nat
      BY <1>o, <2>1, <2>3
    <3> QED
      BY <1>0, <1>p, <2>2, <2>3, <3>1
  <2>4. CASE ~Owes(proc[c])
    BY <1>2, <2>1, <2>2, <2>4
  <2> QED
    BY <2>3, <2>4
<1>10. CASE Crash
  <2>1. {d \in Coroutines : Paid(d)}' = {}
    BY <1>3, <1>10 DEF Crash, Paid, Owes
  <2>2. M = 0
    BY <2>1, FS_EmptySet DEF M
  <2>3. N \in Nat
    <3>1. IsFiniteSet(Coroutines)
      BY ChatsAreFinite, FS_AddElement DEF Coroutines
    <3> QED
      BY <3>1, FS_Subset, FS_CardinalityType DEF N
  <2>4. purchases' = purchases /\ served' = served /\ burnt' = burnt + N
    BY <1>10 DEF Crash, rows, N
  <2> QED
    BY <1>0, <1>p, <2>2, <2>3, <2>4
<1>11. CASE Tick \/ UNCHANGED vars \/ (\E u \in Users, q \in Plans : Order(u, q))
             \/ \E u \in Users, n \in Sums : TakeBack(u, n)
  <2>1. UNCHANGED <<proc, purchases, served, burnt>>
    BY <1>11 DEF Tick, Order, TakeBack, ghosts, vars
  <2> QED
    BY <1>0, <2>1 DEF PaidFor, Paid
<1> QED
  BY <1>5, <1>6, <1>7, <1>8, <1>9, <1>10, <1>11, PeopleAreUsers DEF Next

\* Every purchase from a wallet was granted, is about to be, or died with its
\* coroutine, and nothing is granted unpaid (reseller.activate, try_renew).
THEOREM PaidIsGranted == Spec => []PaidFor
<1>1. Init => PaidFor
  <2>1. ASSUME Init PROVE {c \in Coroutines : Paid(c)} = {}
    BY <2>1, IdleGood DEF Init, Paid
  <2>2. Init => purchases = 0 /\ served = 0 /\ burnt = 0
    BY DEF Init
  <2>3. Init => Cardinality({c \in Coroutines : Paid(c)}) = 0
    BY <2>1, FS_EmptySet
  <2> QED
    BY <2>2, <2>3 DEF PaidFor
<1> QED
  BY <1>1, PaidStep, Invariance, PTL DEF Spec

-----------------------------------------------------------------------------
(* Renewals.                                                               *)

\* A step at which a coroutine is about to grant a renewal.
Renewing(p) == p.does = "renewal" /\ p.pc \in {"pay", "current", "insert"}

\* The renewal loop works on one subscription of its list after the other, which is there.
LoopOK(p) ==
    /\ p.does \in {"nothing", "renewal"} /\ (p.does = "nothing" => p.pc \in {"idle", "renew"})
    /\ p.does = "renewal" =>
           /\ p.pc \in {"pay", "current", "insert", "mark"} /\ p.id \in Ids \ p.todo
           /\ sub[p.id] \in Row /\ sub[p.id].user = p.user

\* Another subscription of the same user ends later.
Followed(i) == \E j \in Ids : sub[j].user = sub[i].user /\ sub[i].ends < sub[j].ends

\* With no failure, who has been renewed has a mark or is about to get it ...
MarkTells(p) ==
    /\ \A i \in Ids :
           /\ renewed[i] <= 1
           /\ renewed[i] > 0 => i \in marks \/ (p.pc = "mark" /\ p.id = i)
    /\ Renewing(p) => p.id \notin marks /\ renewed[p.id] = 0

\* ... and as long as nothing disturbs the ends, he has a subscription that ends later, which
\* the loop will take instead.
EndTells(p) ==
    /\ \A i \in Ids : renewed[i] <= 1 /\ (renewed[i] > 0 => Followed(i))
    /\ \A i \in p.todo : renewed[i] = 0
    /\ Renewing(p) => renewed[p.id] = 0 /\ (p.pc = "insert" => sub[p.id].ends <= p.seen)

RenewInv ==
    /\ \A c \in Chats : proc[c].does # "renewal"
    /\ \A i \in Ids : renewed[i] > 0 => sub[i] \in Row
    /\ LoopOK(proc[Renewer])
    /\ failures = 0 => MarkTells(proc[Renewer])
    /\ ~disturbed => EndTells(proc[Renewer])

\* The rows stay and keep their users.  As long as nothing disturbs their ends, they keep
\* their order, and no row passes what a grant under way reckons with.
LEMMA TableGoesOn ==
    ASSUME IInv, [Next]_vars
    PROVE  /\ \A i \in Ids : sub[i] \in Row => sub'[i] \in Row /\ sub'[i].user = sub[i].user
           /\ marks \subseteq marks' /\ (disturbed => disturbed') /\ (failures' = 0 => failures = 0)
           /\ ~disturbed' => \A i \in Ids : sub[i] \in Row =>
                  /\ Followed(i) => Followed(i)'
                  /\ \A c \in Coroutines :
                        /\ proc[c].pc = "insert" /\ proc[c].user = sub[i].user
                        /\ sub[i].ends <= proc[c].seen
                        => sub'[i].ends <= proc[c].seen
<1> DEFINE Same == \A i \in Ids : sub[i] \in Row => sub'[i] \in Row /\ sub'[i].user = sub[i].user
           Calm == ~disturbed' => \A i \in Ids : sub[i] \in Row =>
                       /\ Followed(i) => Followed(i)'
                       /\ \A c \in Coroutines :
                             /\ proc[c].pc = "insert" /\ proc[c].user = sub[i].user
                             /\ sub[i].ends <= proc[c].seen
                             => sub'[i].ends <= proc[c].seen
<1>0. /\ sub \in [Ids -> Row \cup {NoSub}] /\ sub' \in [Ids -> Row \cup {NoSub}]
      /\ \A i \in Ids : sub[i] \in Row => sub'[i] \in Row
      /\ \A i \in Ids : sub[i] \in Row => sub[i].ends \in Int /\ sub[i].user \in Users
      /\ NoSub \notin Row /\ NoSub.user = Nothing /\ NoSub.ends = 0 /\ Nothing \notin Users
      /\ proc \in [Coroutines -> Locals] /\ \A c \in Coroutines : proc[c].seen \in Int
  BY SubStep, NothingIsApart DEF IInv, TypeOK, Row, NoSub, Locals
<1>1. failures' = 0 => failures = 0
  <2>1. (failures < MaxFailures /\ failures' = failures + 1) \/ failures' = failures
    BY ZenonT(60)
    DEF Next, Start, Work, StartTrial, Approve, Revoke, GrantPlan, Redeem, Sell, PayIn,
       AdjustDays, Order, TakeBack, ListDue, TryRenew, Raise, Crash, Pay, ReadBalance, WriteBalance,
       TakeGift, Current, Close, Insert, ReadDays, ShiftDays, EndAll, Claim, Own, Commission, Mark,
       Tick, counts, vars
  <2>2. failures \in Nat
    BY BoundsAreNumbers DEF IInv, TypeOK
  <2> QED
    BY <2>1, <2>2
<1>2. marks \subseteq marks'
  BY DEF Next, Start, Work, StartTrial, Approve, Revoke, GrantPlan, Redeem, Sell, PayIn, AdjustDays,
     Order, TakeBack, ListDue, TryRenew, Raise, Crash, Pay, ReadBalance, WriteBalance, TakeGift,
     Current, Close, Insert, ReadDays, ShiftDays, EndAll, Claim, Own, Commission, Mark, Tick, rows,
     vars
<1>3. CASE \E c \in Coroutines : Close(c) \/ ShiftDays(c) \/ EndAll(c)
  <2>1. disturbed' = (disturbed \/ Disturbs)
    BY <1>3 DEF Close, ShiftDays, EndAll
  <2>2. \A i \in Ids : sub[i] \in Row => sub'[i].user = sub[i].user
    <3>1. ASSUME NEW c \in Coroutines, Close(c) \/ ShiftDays(c) \/ EndAll(c), NEW i \in Ids,
                 sub[i] \in Row
          PROVE  sub'[i].user = sub[i].user
      <4>1. \A e : [sub[i] EXCEPT !.ends = e].user = sub[i].user
        BY <3>1 DEF Row
      <4>2. DOMAIN sub = Ids
        BY <1>0
      <4>3. CASE Close(c)
        <5>1. sub'[i] = IF i \in proc[c].todo THEN [sub[i] EXCEPT !.ends = day] ELSE sub[i]
          BY <3>1, <4>3 DEF Close
        <5> QED
          BY <4>1, <5>1
      <4>4. CASE EndAll(c)
        <5>1. sub'[i] = IF i \in proc[c].todo THEN [sub[i] EXCEPT !.ends = proc[c].seen] ELSE sub[i]
          BY <3>1, <4>4 DEF EndAll
        <5> QED
          BY <4>1, <5>1
      <4>5. CASE ShiftDays(c)
        <5>1. PICK e : sub' = [sub EXCEPT ![proc[c].id] = [sub[proc[c].id] EXCEPT !.ends = e]]
          BY <4>5 DEF ShiftDays
        <5>2. sub'[i] = sub[i] \/ sub'[i] = [sub[i] EXCEPT !.ends = e]
          BY <4>2, <5>1
        <5> QED
          BY <4>1, <5>2
      <4> QED
        BY <3>1, <4>3, <4>4, <4>5
    <3> QED
      BY <1>3, <3>1
  <2>3. Calm
    <3> SUFFICES ASSUME ~disturbed', NEW i \in Ids, sub[i] \in Row
                 PROVE  /\ Followed(i) => Followed(i)'
                        /\ \A c \in Coroutines :
                              /\ proc[c].pc = "insert" /\ proc[c].user = sub[i].user
                              /\ sub[i].ends <= proc[c].seen
                              => sub'[i].ends <= proc[c].seen
      OBVIOUS
    <3>1. ~Disturbs
      BY <2>1
    <3>2. sub'[i] \in Row /\ sub'[i].ends \in Int
      BY <1>0 DEF Row
    <3>3. ASSUME NEW j \in Ids, sub[j].user = sub[i].user, sub[i].ends < sub[j].ends
          PROVE  sub'[j].user = sub'[i].user /\ sub'[i].ends < sub'[j].ends
      <4>1. sub[j] \in Row
        BY <1>0, <3>3
      <4>2. sub'[j].ends \in Int
        BY <1>0, <4>1 DEF Row
      <4>3. ~(sub'[i].ends >= sub'[j].ends)
        BY <3>1, <3>3 DEF Disturbs
      <4> QED
        BY <2>2, <3>2, <3>3, <4>1, <4>2, <4>3
    <3>4. Followed(i) => Followed(i)'
      BY <3>3 DEF Followed
    <3>5. ASSUME NEW c \in Coroutines, proc[c].pc = "insert", proc[c].user = sub[i].user,
                 sub[i].ends <= proc[c].seen
          PROVE  sub'[i].ends <= proc[c].seen
      <4>1. ~(proc[c].seen < sub'[i].ends)
        BY <3>1, <3>5 DEF Disturbs, At
      <4> QED
        BY <1>0, <3>2, <4>1
    <3> QED
      BY <3>4, <3>5
  <2> QED
    BY <1>0, <1>1, <1>2, <2>1, <2>2, <2>3
<1>4. CASE \E c \in Coroutines : Insert(c)
  <2>1. PICK c \in Coroutines : Insert(c)
    BY <1>4
  <2>2. PICK k \in Ids : sub[k] = NoSub /\ \E new : sub' = [sub EXCEPT ![k] = new]
    BY <2>1 DEF Insert
  <2>3. \A i \in Ids : sub[i] \in Row => sub'[i] = sub[i]
    BY <1>0, <2>2
  <2>4. disturbed' = disturbed
    BY <2>1 DEF Insert
  <2>5. Calm
    BY <1>0, <2>3 DEF Followed
  <2> QED
    BY <1>0, <1>1, <1>2, <2>3, <2>4, <2>5
<1>5. CASE ~(\E c \in Coroutines : Close(c) \/ ShiftDays(c) \/ EndAll(c) \/ Insert(c))
  <2>1. sub' = sub /\ disturbed' = disturbed
    BY <1>5, PeopleAreUsers
    DEF Next, Start, Work, StartTrial, Approve, Revoke, GrantPlan, Redeem, Sell, PayIn, AdjustDays,
       Order, TakeBack, ListDue, TryRenew, Raise, Crash, Pay, ReadBalance, WriteBalance, TakeGift,
       Current, ReadDays, Claim, Own, Commission, Mark, Tick, rows, ghosts, vars
  <2> QED
    BY <1>0, <1>1, <1>2, <2>1 DEF Followed
<1> QED
  BY <1>3, <1>4, <1>5

\* What the next turn of the loop starts from.
LEMMA NextInLineIs ==
    ASSUME NEW p \in Locals
    PROVE  /\ NextInLine(p).does = "nothing" /\ NextInLine(p).pc \in {"idle", "renew"}
           /\ NextInLine(p).todo = p.todo
  BY DEF NextInLine, Idle, Locals

\* A handler of a chat never does a renewal, and leaves the loop alone.
LEMMA ChatsDo ==
    ASSUME IInv, NEW c \in Chats, proc[c].does # "renewal", Start(c) \/ Work(c) \/ Raise(c)
    PROVE  /\ \A d \in Coroutines \ {c} : proc'[d] = proc[d]
           /\ proc'[c].does # "renewal" /\ renewed' = renewed /\ marks' = marks
<1>0. proc \in [Coroutines -> Locals] /\ c \in Coroutines /\ Sound(proc[c])
  BY DEF IInv, TypeOK, Coroutines
<1>1. ASSUME NEW r, proc' = [proc EXCEPT ![c] = r], r.does \in {proc[c].does, "nothing"}
      PROVE  (\A d \in Coroutines \ {c} : proc'[d] = proc[d]) /\ proc'[c].does # "renewal"
  BY <1>0, <1>1
<1>2. CASE Start(c)
  <2>0. renewed' = renewed /\ marks' = marks
    BY <1>2 DEF Start, StartTrial, Approve, Revoke, GrantPlan, Redeem, Sell, PayIn, AdjustDays, rows,
       ghosts
  <2> DEFINE Fine == (\A d \in Coroutines \ {c} : proc'[d] = proc[d]) /\ proc'[c].does # "renewal"
  <2>b. ASSUME NEW r, Begin(c, r), r.does # "renewal" PROVE Fine
    BY <1>0, <2>b DEF Begin
  <2> HIDE DEF Fine
  <2>3. ASSUME NEW u, StartTrial(c, u) PROVE Fine
    <3>1. Granting("trial", u, Trial).does = "trial"
      BY DEF Granting, Idle
    <3> QED
      BY <2>b, <2>3, <3>1 DEF StartTrial
  <2>4. ASSUME NEW u, Approve(c, u) PROVE Fine
    <3>1. [Granting("order", u, order[u].plan) EXCEPT !.replace = order[u].replace].does = "order"
      BY DEF Granting, Idle
    <3> QED
      BY <2>b, <2>4, <3>1 DEF Approve
  <2>5. ASSUME NEW u, Revoke(c, u) PROVE Fine
    <3>1. [Idle EXCEPT !.pc = "revoke", !.todo = Active(u), !.seen = day].does = "nothing"
      BY DEF Idle
    <3> QED
      BY <2>b, <2>5, <3>1 DEF Revoke
  <2>6. ASSUME NEW u, NEW q, GrantPlan(c, u, q) PROVE Fine
    <3>1. Granting("gesture", u, q).does = "gesture"
      BY DEF Granting, Idle
    <3> QED
      BY <2>b, <2>6, <3>1 DEF GrantPlan
  <2>7. ASSUME NEW u, NEW g, Redeem(c, u, g) PROVE Fine
    <3>1. [Granting("gift", u, GiftPlan[g]) EXCEPT !.pc = "take", !.gift = g].does = "gift"
      BY DEF Granting, Idle
    <3> QED
      BY <2>b, <2>7, <3>1 DEF Redeem
  <2>8. ASSUME NEW s, NEW u, NEW q, Sell(c, s, u, q) PROVE Fine
    <3>1. [Granting("sale", u, q) EXCEPT !.pc = "pay", !.payer = s, !.amount = Cut[q]].does = "sale"
      BY DEF Granting, Idle
    <3> QED
      BY <2>b, <2>8, <3>1 DEF Sell
  <2>9. ASSUME NEW u, NEW n, PayIn(c, u, n) PROVE Fine
    <3>1. [Idle EXCEPT !.pc = "credit", !.payer = u, !.amount = n].does = "nothing"
      BY DEF Idle
    <3> QED
      BY <2>b, <2>9, <3>1 DEF PayIn
  <2>10. ASSUME NEW u, NEW n, AdjustDays(c, u, n) PROVE Fine
    <3>1. PICK i : Begin(c, [Idle EXCEPT !.pc = "days", !.id = i, !.amount = n])
      BY <2>10 DEF AdjustDays
    <3>2. [Idle EXCEPT !.pc = "days", !.id = i, !.amount = n].does = "nothing"
      BY DEF Idle
    <3> QED
      BY <2>b, <3>1, <3>2
  <2>11. Fine
    BY <1>2, <2>3, <2>4, <2>5, <2>6, <2>7, <2>8, <2>9, <2>10 DEF Start
  <2> QED
    BY <2>0, <2>11 DEF Fine
<1>3. CASE Work(c)
  <2> DEFINE p == proc[c]
             goto(s) == [p EXCEPT !.pc = s]
             see(s, n) == [p EXCEPT !.pc = s, !.seen = n]
             take(s, n, S) == [p EXCEPT !.pc = s, !.seen = n, !.todo = S]
             close == [p EXCEPT !.pc = "insert", !.todo = {}]
             pay(o, n) == [Idle EXCEPT !.pc = "credit", !.payer = o, !.amount = n]
  <2>0. p \in Locals
    BY <1>0
  <2>1. /\ \A s : goto(s).does = p.does
        /\ \A s, n : see(s, n).does = p.does
        /\ \A s, n, S : take(s, n, S).does = p.does
        /\ close.does = p.does
    BY <2>0 DEF Locals
  <2>2. \A o, n : pay(o, n).does = "nothing"
    BY DEF Idle
  <2>3. Idle.does = "nothing" /\ NextInLine(p).does = "nothing"
    BY <2>0, NextInLineIs DEF Idle
  <2>4. Then(p).does \in {p.does, "nothing"}
    BY <2>0 DEF Then, Idle, Locals
  <2>5. /\ renewed' = renewed
        /\ marks' = marks
    <3>1. ~Mark(c)
      BY <1>0 DEF Mark, At, Sound
    <3> QED
      BY <1>3, <3>1 DEF Work, Pay, ReadBalance, WriteBalance, TakeGift, Current, Close, Insert,
         ReadDays, ShiftDays, EndAll, Claim, Own, Commission, rows, ghosts
  <2>6. \/ \E s : proc' = [proc EXCEPT ![c] = goto(s)]
        \/ \E s, n : proc' = [proc EXCEPT ![c] = see(s, n)]
        \/ \E s, n, S : proc' = [proc EXCEPT ![c] = take(s, n, S)]
        \/ proc' = [proc EXCEPT ![c] = close]
        \/ \E o, n : proc' = [proc EXCEPT ![c] = pay(o, n)]
        \/ proc' = [proc EXCEPT ![c] = Idle]
        \/ proc' = [proc EXCEPT ![c] = NextInLine(p)]
        \/ proc' = [proc EXCEPT ![c] = Then(p)]
    <3>1. CASE Pay(c) \/ TakeGift(c) \/ Claim(c)
      <4>1. (\E s : Goto(c, s)) \/ Finish(c)
        BY <3>1 DEF Pay, TakeGift, Claim
      <4>2. \A s : Goto(c, s) => proc' = [proc EXCEPT ![c] = goto(s)]
        BY <1>0 DEF Goto
      <4> QED
        BY <4>1, <4>2 DEF Finish
    <3>2. CASE ReadBalance(c)
      <4>1. proc' = [proc EXCEPT ![c] = see("write", wallet[p.payer])]
        BY <1>0, <3>2 DEF ReadBalance
      <4> QED
        BY <4>1
    <3>3. CASE ReadDays(c)
      <4>1. proc' = [proc EXCEPT ![c] = see("shift", sub[p.id].ends)]
        BY <1>0, <3>3 DEF ReadDays
      <4> QED
        BY <4>1
    <3>4. CASE Current(c)
      <4>1. \/ proc' = [proc EXCEPT ![c] = see("insert", day)]
            \/ \E i : \/ proc' = [proc EXCEPT ![c] = take("close", day, {i})]
                      \/ proc' = [proc EXCEPT ![c] = see("insert", sub[i].ends)]
        BY <3>4 DEF Current
      <4> QED
        BY <4>1
    <3>5. CASE Close(c)
      BY <1>0, <3>5 DEF Close
    <3>6. CASE Insert(c)
      BY <3>6 DEF Insert
    <3>7. CASE WriteBalance(c) \/ ShiftDays(c) \/ EndAll(c) \/ Own(c) \/ Commission(c) \/ Mark(c)
      BY <3>7 DEF WriteBalance, ShiftDays, EndAll, Own, Commission, Mark, Finish
    <3> QED
      BY <1>3, <3>1, <3>2, <3>3, <3>4, <3>5, <3>6, <3>7 DEF Work
  <2> HIDE DEF p, goto, see, take, close, pay
  <2>7. PICK r : proc' = [proc EXCEPT ![c] = r] /\ r.does \in {p.does, "nothing"}
    BY <2>1, <2>2, <2>3, <2>4, <2>6
  <2> QED
    BY <1>1, <2>5, <2>7 DEF p
<1>4. CASE Raise(c)
  <2>1. proc' = [proc EXCEPT ![c] = Idle] /\ renewed' = renewed /\ marks' = marks
    BY <1>4, ChatsAreFinite DEF Raise, rows
  <2>2. Idle.does = "nothing"
    BY DEF Idle
  <2> QED
    BY <1>1, <2>1, <2>2
<1> QED
  BY <1>2, <1>3, <1>4

\* What a step that grants no renewal keeps, when it leaves the loop alone or sends it on to
\* the rest of its list.
LEMMA LoopGoesOn ==
    ASSUME IInv, RenewInv, [Next]_vars, renewed' = renewed,
           \A c \in Chats : proc'[c].does # "renewal",
           \/ proc'[Renewer] = proc[Renewer] /\ marks' = marks
           \/ /\ proc'[Renewer].does = "nothing" /\ proc'[Renewer].pc \in {"idle", "renew"}
              /\ proc'[Renewer].todo \subseteq proc[Renewer].todo
              /\ failures' = 0 /\ proc[Renewer].pc = "mark" => proc[Renewer].id \in marks'
    PROVE  RenewInv'
<1> DEFINE p == proc[Renewer]
           q == proc'[Renewer]
<1>0. p \in Locals /\ Renewer \in Coroutines /\ renewed \in [Ids -> Nat]
  BY DEF IInv, TypeOK, Coroutines
<1>t. /\ \A i \in Ids : sub[i] \in Row => sub'[i] \in Row /\ sub'[i].user = sub[i].user
      /\ marks \subseteq marks' /\ (disturbed => disturbed') /\ (failures' = 0 => failures = 0)
      /\ ~disturbed' => \A i \in Ids : sub[i] \in Row =>
             /\ Followed(i) => Followed(i)'
             /\ p.pc = "insert" /\ p.user = sub[i].user /\ sub[i].ends <= p.seen
                => sub'[i].ends <= p.seen
  BY <1>0, TableGoesOn
<1>r. /\ \A i \in Ids : renewed[i] > 0 => sub[i] \in Row
      /\ LoopOK(p)
      /\ failures = 0 => MarkTells(p)
      /\ ~disturbed => EndTells(p)
  BY DEF RenewInv
<1>q. \/ q = p /\ marks' = marks
      \/ /\ q.does = "nothing" /\ q.pc \in {"idle", "renew"} /\ q.todo \subseteq p.todo
         /\ failures' = 0 /\ p.pc = "mark" => p.id \in marks'
  OBVIOUS
<1> HIDE DEF p, q
<1>1. \A i \in Ids : renewed'[i] > 0 => sub'[i] \in Row
  BY <1>r, <1>t
<1>2. LoopOK(proc[Renewer])'
  <2>1. /\ q.does \in {"nothing", "renewal"} /\ (q.does = "nothing" => q.pc \in {"idle", "renew"})
        /\ q.does = "renewal" =>
               /\ q.pc \in {"pay", "current", "insert", "mark"} /\ q.id \in Ids \ q.todo
               /\ sub'[q.id] \in Row /\ sub'[q.id].user = q.user
    <3>1. CASE q = p
      BY <1>r, <1>t, <3>1 DEF LoopOK
    <3>2. CASE q.does = "nothing" /\ q.pc \in {"idle", "renew"}
      BY <3>2
    <3> QED
      BY <1>q, <3>1, <3>2
  <2> QED
    BY <2>1 DEF LoopOK, q
<1>3. ASSUME failures' = 0 PROVE MarkTells(proc[Renewer])'
  <2>1. MarkTells(p)
    BY <1>r, <1>t, <1>3
  <2>2. \A i \in Ids : /\ renewed'[i] <= 1
                       /\ renewed'[i] > 0 => i \in marks' \/ (q.pc = "mark" /\ q.id = i)
    BY <1>q, <1>t, <1>3, <2>1 DEF MarkTells
  <2>3. Renewing(q) => q.id \notin marks' /\ renewed'[q.id] = 0
    BY <1>q, <2>1 DEF MarkTells, Renewing
  <2> QED
    BY <2>2, <2>3 DEF MarkTells, Renewing, q
<1>4. ASSUME ~disturbed' PROVE EndTells(proc[Renewer])'
  <2>1. EndTells(p)
    BY <1>r, <1>t, <1>4
  <2>2. \A i \in Ids : renewed'[i] <= 1 /\ (renewed'[i] > 0 => Followed(i)')
    BY <1>r, <1>t, <1>4, <2>1 DEF EndTells
  <2>3. \A i \in q.todo : renewed'[i] = 0
    BY <1>q, <2>1 DEF EndTells
  <2>4. Renewing(q) => renewed'[q.id] = 0 /\ (q.pc = "insert" => sub'[q.id].ends <= q.seen)
    <3>1. CASE q = p
      <4> SUFFICES ASSUME Renewing(p)
                   PROVE  renewed'[p.id] = 0 /\ (p.pc = "insert" => sub'[p.id].ends <= p.seen)
        BY <3>1
      <4>1. renewed[p.id] = 0 /\ (p.pc = "insert" => sub[p.id].ends <= p.seen)
        BY <2>1 DEF EndTells
      <4>2. p.id \in Ids /\ sub[p.id] \in Row /\ sub[p.id].user = p.user
        BY <1>r DEF LoopOK, Renewing
      <4> QED
        BY <1>t, <1>4, <4>1, <4>2
    <3>2. CASE q.pc \in {"idle", "renew"}
      BY <3>2 DEF Renewing
    <3> QED
      BY <1>q, <3>1, <3>2
  <2> QED
    BY <2>2, <2>3, <2>4 DEF EndTells, Renewing, q
<1> QED
  BY <1>1, <1>2, <1>3, <1>4 DEF RenewInv

\* The list that the loop makes has only subscriptions that were not renewed, or whose
\* order was disturbed: who was renewed has one that ends later.
LEMMA ListStep == IInv /\ RenewInv /\ ListDue => RenewInv'
<1> SUFFICES ASSUME IInv, RenewInv, ListDue PROVE RenewInv'
  OBVIOUS
<1>1. PICK S \in SUBSET Ids :
        Due(S) /\ proc' = [proc EXCEPT ![Renewer] = [Idle EXCEPT !.pc = "renew", !.todo = S]]
  BY DEF ListDue, Begin
<1> DEFINE q == [Idle EXCEPT !.pc = "renew", !.todo = S]
<1>2. q.pc = "renew" /\ q.does = "nothing" /\ q.todo = S
  BY DEF Idle
<1>3. proc[Renewer].pc = "idle"
  BY DEF ListDue, Begin, At
<1>4. /\ UNCHANGED <<day, sub, marks, renewed, disturbed, failures>>
  BY DEF ListDue, rows, ghosts, counts
<1>5. proc'[Renewer] = q /\ \A c \in Chats : proc'[c] = proc[c]
  BY <1>1, ChatsAreFinite DEF IInv, TypeOK, Coroutines
<1> HIDE DEF q
<1>6. LoopOK(q)' /\ LoopOK(proc[Renewer]) /\ q' = q
  BY <1>2 DEF LoopOK, RenewInv, q
<1>7. ASSUME ~disturbed PROVE EndTells(q)
  <2>1. EndTells(proc[Renewer])
    BY <1>7 DEF RenewInv
  <2>2. ASSUME NEW i \in S, renewed[i] # 0 PROVE FALSE
    <3>1. renewed[i] > 0 /\ i \in Ids
      BY <2>2 DEF IInv, TypeOK
    <3>2. PICK j \in Ids : sub[j].user = sub[i].user /\ sub[i].ends < sub[j].ends
      BY <2>1, <3>1 DEF EndTells, Followed
    <3>3. PICK u : i \in Farthest(u)
      BY <1>1, <2>2 DEF Due
    <3>4. sub[i].user = u /\ sub[i].ends > day /\ sub[i] \in Row
      BY <3>1, <3>3 DEF Farthest, Active, Had, RenewInv
    <3>5. sub[j] \in Row
      <4>1. sub[j] # NoSub
        BY <3>2, <3>4, NothingIsApart DEF NoSub, Row
      <4> QED
        BY <4>1 DEF IInv, TypeOK
    <3>6. sub[j].ends > day
      BY <3>2, <3>4, <3>5, BoundsAreNumbers DEF Row, IInv, TypeOK
    <3>7. sub[j].ends <= sub[i].ends
      BY <3>2, <3>3, <3>4, <3>6 DEF Farthest, Active, Had
    <3> QED
      BY <3>2, <3>4, <3>5, <3>7 DEF Row
  <2> QED
    BY <1>2, <2>1, <2>2 DEF EndTells, Renewing
<1>8. ASSUME failures = 0 PROVE MarkTells(q)
  BY <1>2, <1>3, <1>8 DEF RenewInv, MarkTells, Renewing
<1> QED
  BY <1>4, <1>5, <1>6, <1>7, <1>8 DEF RenewInv, EndTells, MarkTells, Followed, Renewing

\* The loop takes a subscription of its list only when it has no mark.
LEMMA TryStep == IInv /\ RenewInv /\ TryRenew => RenewInv'
<1> SUFFICES ASSUME IInv, RenewInv, TryRenew PROVE RenewInv'
  OBVIOUS
<1> DEFINE me == proc[Renewer]
           left(i) == [me EXCEPT !.todo = @ \ {i}]
           next(i) == [left(i) EXCEPT !.pc = "pay", !.does = "renewal", !.user = sub[i].user,
                         !.payer = sub[i].user, !.amount = Price[sub[i].plan],
                         !.plan = sub[i].plan, !.id = i]
<1>0. me \in Locals /\ Renewer \in Coroutines /\ me.pc = "renew"
  BY DEF IInv, TypeOK, Coroutines, TryRenew, At
<1>1. PICK i \in me.todo :
        \/ i \notin marks /\ proc' = [proc EXCEPT ![Renewer] = next(i)]
        \/ proc' = [proc EXCEPT ![Renewer] = NextInLine(left(i))]
  BY DEF TryRenew
<1>2. [Next]_vars /\ UNCHANGED <<day, sub, marks, renewed, disturbed, failures>>
  BY DEF Next, TryRenew, rows, ghosts, counts
<1>3. \A c \in Chats : proc'[c] = proc[c] /\ proc'[c].does # "renewal"
  BY <1>1, ChatsAreFinite DEF IInv, TypeOK, Coroutines, RenewInv
<1>4. i \in Ids /\ sub[i] \in Row
  BY <1>0, <1>1 DEF IInv, Listed, Held, Locals
<1>5. left(i) \in Locals /\ left(i).todo = me.todo \ {i}
  BY <1>0 DEF Locals
<1>6. /\ next(i).does = "renewal" /\ next(i).pc = "pay" /\ next(i).id = i
      /\ next(i).user = sub[i].user /\ next(i).todo = me.todo \ {i}
  BY <1>0, <1>5 DEF Locals
<1> HIDE DEF left, next
<1>7. CASE proc' = [proc EXCEPT ![Renewer] = NextInLine(left(i))]
  <2>1. proc'[Renewer] = NextInLine(left(i))
    BY <1>0, <1>7 DEF IInv, TypeOK
  <2> QED
    BY <1>0, <1>2, <1>3, <1>5, <2>1, LoopGoesOn, NextInLineIs
<1>8. CASE i \notin marks /\ proc' = [proc EXCEPT ![Renewer] = next(i)]
  <2> DEFINE q == next(i)
  <2>1. proc'[Renewer] = q
    BY <1>0, <1>8 DEF IInv, TypeOK
  <2> HIDE DEF q
  <2>q. q.does = "renewal" /\ q.pc = "pay" /\ q.id = i /\ q.user = sub[i].user /\ q.todo = me.todo \ {i}
    BY <1>6 DEF q
  <2>2. LoopOK(q)
    BY <1>4, <2>q DEF LoopOK
  <2>3. ASSUME failures = 0 PROVE MarkTells(q)
    <3>1. MarkTells(me)
      BY <2>3 DEF RenewInv
    <3>2. renewed[i] = 0
      BY <1>0, <1>4, <1>8, <3>1 DEF MarkTells, IInv, TypeOK
    <3> QED
      BY <1>0, <1>8, <2>q, <3>1, <3>2 DEF MarkTells, Renewing
  <2>4. ASSUME ~disturbed PROVE EndTells(q)
    <3>1. EndTells(me)
      BY <2>4 DEF RenewInv
    <3> QED
      BY <1>1, <2>q, <3>1 DEF EndTells, Renewing
  <2> QED
    BY <1>2, <1>3, <2>1, <2>2, <2>3, <2>4
    DEF RenewInv, LoopOK, MarkTells, EndTells, Followed, Renewing
<1> QED
  BY <1>1, <1>7, <1>8

\* The loop's debit: it goes on with the grant, or with the next subscription.
LEMMA PayStep == IInv /\ RenewInv /\ Pay(Renewer) => RenewInv'
<1> SUFFICES ASSUME IInv, RenewInv, Pay(Renewer) PROVE RenewInv'
  OBVIOUS
<1> DEFINE p == proc[Renewer]
           q == [p EXCEPT !.pc = "current"]
<1>0. p \in Locals /\ Renewer \in Coroutines /\ p.pc = "pay" /\ p.does = "renewal"
  BY DEF IInv, TypeOK, Coroutines, Pay, At, RenewInv, LoopOK
<1>1. \/ proc' = [proc EXCEPT ![Renewer] = q]
      \/ proc' = [proc EXCEPT ![Renewer] = NextInLine(p)]
  <2>1. Goto(Renewer, "current") \/ Finish(Renewer)
    BY DEF Pay
  <2> QED
    BY <1>0, <2>1 DEF Goto, Finish, IInv, TypeOK
<1>2. [Next]_vars /\ UNCHANGED <<day, sub, marks, renewed, disturbed, failures>>
  BY <1>0 DEF Next, Work, Pay, ghosts, counts
<1>3. \A c \in Chats : proc'[c] = proc[c] /\ proc'[c].does # "renewal"
  BY <1>1, ChatsAreFinite DEF IInv, TypeOK, Coroutines, RenewInv
<1>4. q.pc = "current" /\ q.does = p.does /\ q.id = p.id /\ q.user = p.user /\ q.todo = p.todo
  BY <1>0 DEF Locals
<1> HIDE DEF q
<1>5. CASE proc' = [proc EXCEPT ![Renewer] = NextInLine(p)]
  <2>1. proc'[Renewer] = NextInLine(p)
    BY <1>0, <1>5 DEF IInv, TypeOK
  <2> QED
    BY <1>0, <1>2, <1>3, <2>1, LoopGoesOn, NextInLineIs
<1>6. CASE proc' = [proc EXCEPT ![Renewer] = q]
  <2>1. proc'[Renewer] = q
    BY <1>0, <1>6 DEF IInv, TypeOK
  <2>2. LoopOK(q)
    BY <1>0, <1>4 DEF LoopOK, RenewInv
  <2>3. failures = 0 => MarkTells(q)
    BY <1>0, <1>4 DEF RenewInv, MarkTells, Renewing
  <2>4. ~disturbed => EndTells(q)
    BY <1>0, <1>4 DEF RenewInv, EndTells, Renewing
  <2> QED
    BY <1>2, <1>3, <2>1, <2>2, <2>3, <2>4
    DEF RenewInv, LoopOK, MarkTells, EndTells, Followed, Renewing
<1> QED
  BY <1>1, <1>5, <1>6

\* The grant reckons from the subscription that ends last, so the renewed one does not end
\* later than that.
LEMMA CurrentStep == IInv /\ RenewInv /\ Current(Renewer) => RenewInv'
<1> SUFFICES ASSUME IInv, RenewInv, Current(Renewer) PROVE RenewInv'
  OBVIOUS
<1> DEFINE p == proc[Renewer]
           q(n) == [p EXCEPT !.pc = "insert", !.seen = n]
<1>0. /\ p \in Locals /\ Renewer \in Coroutines /\ p.pc = "current" /\ p.does = "renewal"
      /\ ~p.replace /\ p.id \in Ids \ p.todo /\ sub[p.id] \in Row /\ sub[p.id].user = p.user
      /\ sub[p.id].ends \in Int /\ day \in Int
  <2>1. Renewer \in Coroutines /\ p.pc = "current" /\ LoopOK(p)
    BY DEF Coroutines, Current, At, RenewInv
  <2>2. p \in Locals /\ Sound(p)
    BY <2>1 DEF IInv, TypeOK
  <2>3. day \in Int
    BY BoundsAreNumbers DEF IInv, TypeOK
  <2> QED
    BY <2>1, <2>2, <2>3 DEF LoopOK, Sound, Row
<1>1. PICK n : sub[p.id].ends <= n /\ proc' = [proc EXCEPT ![Renewer] = q(n)]
  <2>1. CASE Active(p.user) = {} /\ proc' = [proc EXCEPT ![Renewer] = q(day)]
    <3>1. sub[p.id].ends <= day
      BY <1>0, <2>1 DEF Active, Had
    <3> QED
      BY <2>1, <3>1
  <2>2. CASE \E i \in Farthest(p.user) : proc' = [proc EXCEPT ![Renewer] = q(sub[i].ends)]
    <3>1. PICK i \in Farthest(p.user) : proc' = [proc EXCEPT ![Renewer] = q(sub[i].ends)]
      BY <2>2
    <3>2. p.user \in Users /\ i \in Active(p.user)
      BY <1>0, <3>1 DEF Farthest, Row
    <3>3. sub[i].ends \in Int /\ sub[i].ends > day
      BY <3>2, FoundRows DEF Active, Row, IInv
    <3>4. sub[p.id].ends <= sub[i].ends
      <4>1. CASE sub[p.id].ends > day
        BY <1>0, <3>1, <4>1 DEF Farthest, Active, Had
      <4> QED
        BY <1>0, <3>3, <4>1
    <3> QED
      BY <3>1, <3>4
  <2> QED
    BY <1>0, <2>1, <2>2 DEF Current
<1>2. [Next]_vars /\ UNCHANGED <<day, sub, marks, renewed, disturbed, failures>>
  BY <1>0 DEF Next, Work, Current, rows, ghosts, counts
<1>3. \A c \in Chats : proc'[c] = proc[c] /\ proc'[c].does # "renewal"
  BY <1>1, ChatsAreFinite DEF IInv, TypeOK, Coroutines, RenewInv
<1>4. /\ q(n).pc = "insert" /\ q(n).does = p.does /\ q(n).id = p.id /\ q(n).user = p.user
      /\ q(n).todo = p.todo /\ q(n).seen = n
  BY <1>0 DEF Locals
<1> HIDE DEF q
<1>5. proc'[Renewer] = q(n)
  BY <1>0, <1>1 DEF IInv, TypeOK
<1>6. LoopOK(q(n))
  BY <1>0, <1>4 DEF LoopOK
<1>7. failures = 0 => MarkTells(q(n))
  BY <1>0, <1>4 DEF RenewInv, MarkTells, Renewing
<1>8. ~disturbed => EndTells(q(n))
  BY <1>0, <1>1, <1>4 DEF RenewInv, EndTells, Renewing
<1> QED
  BY <1>2, <1>3, <1>5, <1>6, <1>7, <1>8
  DEF RenewInv, LoopOK, MarkTells, EndTells, Followed, Renewing

\* The grant: from now on the renewed subscription is followed by the new one, and the loop
\* is about to mark it.
LEMMA RenewalInserted == IInv /\ RenewInv /\ Insert(Renewer) => RenewInv'
<1> SUFFICES ASSUME IInv, RenewInv, Insert(Renewer) PROVE RenewInv'
  OBVIOUS
<1> DEFINE p == proc[Renewer]
           q == [p EXCEPT !.pc = "mark"]
<1>0. /\ p \in Locals /\ Renewer \in Coroutines /\ p.pc = "insert" /\ p.does = "renewal"
      /\ p.id \in Ids \ p.todo /\ sub[p.id] \in Row /\ sub[p.id].user = p.user
      /\ p.plan \in Plans /\ p.user \in Users /\ p.seen \in Int
      /\ renewed \in [Ids -> Nat] /\ sub \in [Ids -> Row \cup {NoSub}]
  BY DEF IInv, TypeOK, Coroutines, Insert, At, RenewInv, LoopOK, Sound, Granted, Row, Locals
<1>1. proc' = [proc EXCEPT ![Renewer] = q] /\ renewed' = [renewed EXCEPT ![p.id] = @ + 1]
  <2>1. Then(p) = q
    BY <1>0 DEF Then
  <2> QED
    BY <1>0, <2>1 DEF Insert
<1>2. [Next]_vars /\ UNCHANGED <<day, marks, disturbed, failures>>
  BY <1>0 DEF Next, Work, Insert, counts
<1>3. \A c \in Chats : proc'[c] = proc[c] /\ proc'[c].does # "renewal"
  BY <1>1, ChatsAreFinite DEF IInv, TypeOK, Coroutines, RenewInv
<1>4. q.pc = "mark" /\ q.does = p.does /\ q.id = p.id /\ q.user = p.user /\ q.todo = p.todo
  BY <1>0 DEF Locals
<1> HIDE DEF q
<1>5. proc'[Renewer] = q
  BY <1>0, <1>1 DEF IInv, TypeOK
<1>6. PICK k \in Ids : /\ sub[k] = NoSub
                       /\ sub' = [sub EXCEPT ![k] = [user |-> p.user, plan |-> p.plan,
                                                     ends |-> p.seen + Days[p.plan]]]
  BY DEF Insert
<1>7. \A i \in Ids : sub[i] \in Row => i # k /\ sub'[i] = sub[i]
  BY <1>0, <1>6, NothingIsApart DEF Row, NoSub
<1>8. sub'[k].user = p.user /\ sub'[k].ends = p.seen + Days[p.plan] /\ Days[p.plan] \in Nat \ {0}
  BY <1>0, <1>6, PlansHavePrices
<1>9. /\ renewed'[p.id] = renewed[p.id] + 1
      /\ \A i \in Ids \ {p.id} : renewed'[i] = renewed[i]
  BY <1>0, <1>1
<1>10. \A i \in Ids : renewed'[i] > 0 => sub'[i] \in Row
  BY <1>0, <1>7, <1>9 DEF RenewInv
<1>11. LoopOK(proc[Renewer])'
  BY <1>0, <1>4, <1>5, <1>7 DEF LoopOK
<1>12. ASSUME failures = 0 PROVE MarkTells(proc[Renewer])'
  <2>1. MarkTells(p) /\ renewed[p.id] = 0
    BY <1>0, <1>12 DEF RenewInv, MarkTells, Renewing
  <2>2. ASSUME NEW i \in Ids
        PROVE  renewed'[i] <= 1 /\ (renewed'[i] > 0 => i \in marks \/ (q.pc = "mark" /\ q.id = i))
    <3>1. CASE i = p.id
      BY <1>4, <1>9, <2>1, <3>1
    <3>2. CASE i # p.id
      BY <1>0, <1>9, <2>1, <3>2 DEF MarkTells
    <3> QED
      BY <3>1, <3>2
  <2> QED
    BY <1>2, <1>4, <1>5, <2>2 DEF MarkTells, Renewing
<1>13. ASSUME ~disturbed PROVE EndTells(proc[Renewer])'
  <2>1. EndTells(p) /\ renewed[p.id] = 0 /\ sub[p.id].ends <= p.seen
    BY <1>0, <1>13 DEF RenewInv, EndTells, Renewing
  <2>2. ASSUME NEW i \in Ids PROVE renewed'[i] <= 1 /\ (renewed'[i] > 0 => Followed(i)')
    <3>1. CASE i = p.id
      <4>1. sub'[i] = sub[i] /\ sub'[i].user = p.user /\ sub'[i].ends \in Int
        BY <1>0, <1>7, <3>1 DEF Row
      <4>2. sub'[i].ends < sub'[k].ends
        BY <1>0, <1>8, <2>1, <3>1, <4>1
      <4> QED
        BY <1>8, <1>9, <2>1, <3>1, <4>1, <4>2 DEF Followed
    <3>2. CASE i # p.id
      <4>1. renewed'[i] = renewed[i]
        BY <1>9, <3>2
      <4>2. ASSUME renewed[i] > 0 PROVE Followed(i)'
        <5>1. sub[i] \in Row /\ Followed(i)
          BY <2>1, <4>2 DEF EndTells, RenewInv
        <5>2. PICK j \in Ids : sub[j].user = sub[i].user /\ sub[i].ends < sub[j].ends
          BY <5>1 DEF Followed
        <5>3. sub[j] \in Row
          BY <1>0, <5>1, <5>2, NothingIsApart DEF NoSub, Row
        <5> QED
          BY <1>7, <5>1, <5>2, <5>3 DEF Followed
      <4> QED
        BY <2>1, <4>1, <4>2 DEF EndTells
    <3> QED
      BY <3>1, <3>2
  <2>3. \A i \in p.todo : renewed'[i] = 0
    BY <1>0, <1>9, <2>1 DEF EndTells, Locals
  <2> QED
    BY <1>4, <1>5, <2>2, <2>3 DEF EndTells, Renewing
<1> QED
  BY <1>2, <1>3, <1>10, <1>11, <1>12, <1>13 DEF RenewInv

\* The mark is there before the loop goes on.
LEMMA MarkStep == IInv /\ RenewInv /\ Mark(Renewer) => RenewInv'
<1> SUFFICES ASSUME IInv, RenewInv, Mark(Renewer) PROVE RenewInv'
  OBVIOUS
<1>0. proc[Renewer] \in Locals /\ Renewer \in Coroutines
  BY DEF IInv, TypeOK, Coroutines
<1>1. proc' = [proc EXCEPT ![Renewer] = NextInLine(proc[Renewer])]
  BY DEF Mark, Finish
<1>2. [Next]_vars /\ renewed' = renewed /\ proc[Renewer].id \in marks'
  BY <1>0 DEF Next, Work, Mark, ghosts
<1>3. \A c \in Chats : proc'[c].does # "renewal"
  BY <1>1, ChatsAreFinite DEF IInv, TypeOK, Coroutines, RenewInv
<1>4. proc'[Renewer] = NextInLine(proc[Renewer])
  BY <1>0, <1>1 DEF IInv, TypeOK
<1> QED
  BY <1>0, <1>2, <1>3, <1>4, LoopGoesOn, NextInLineIs

\* Every step keeps what the loop relies on.
LEMMA RenewStep == IInv /\ RenewInv /\ [Next]_vars => RenewInv'
<1> SUFFICES ASSUME IInv, RenewInv, [Next]_vars PROVE RenewInv'
  OBVIOUS
<1>0. proc \in [Coroutines -> Locals] /\ Renewer \in Coroutines /\ Renewer \notin Chats
  BY ChatsAreFinite DEF IInv, TypeOK, Coroutines
<1>1. \A c \in Chats : c \in Coroutines /\ proc[c].does # "renewal"
  BY DEF RenewInv, Coroutines
<1>2. ASSUME NEW c \in Chats, Start(c) \/ Work(c) \/ Raise(c) PROVE RenewInv'
  <2>1. /\ \A d \in Coroutines \ {c} : proc'[d] = proc[d]
        /\ proc'[c].does # "renewal" /\ renewed' = renewed /\ marks' = marks
    BY <1>1, <1>2, ChatsDo
  <2>2. proc'[Renewer] = proc[Renewer] /\ \A d \in Chats : proc'[d].does # "renewal"
    BY <1>0, <1>1, <2>1
  <2> QED
    BY <2>1, <2>2, LoopGoesOn
<1>3. CASE Work(Renewer)
  <2>1. LoopOK(proc[Renewer]) /\ Sound(proc[Renewer])
    BY <1>0 DEF RenewInv, IInv
  <2>2. Pay(Renewer) \/ Current(Renewer) \/ Insert(Renewer) \/ Mark(Renewer)
    <3>1. proc[Renewer].pc \in {"idle", "renew", "pay", "current", "insert", "mark"}
      BY <2>1 DEF LoopOK
    <3> QED
      BY <1>3, <3>1 DEF Work, At, ReadBalance, WriteBalance, TakeGift, Close, ReadDays, ShiftDays, EndAll,
         Claim, Own, Commission
  <2> QED
    BY <2>2, PayStep, CurrentStep, RenewalInserted, MarkStep
<1>4. CASE Raise(Renewer)
  <2>1. /\ proc' = [proc EXCEPT ![Renewer] = NextInLine(proc[Renewer])]
        /\ failures' = failures + 1 /\ renewed' = renewed
    BY <1>4 DEF Raise
  <2>2. failures' # 0
    BY <2>1, BoundsAreNumbers DEF IInv, TypeOK
  <2>3. proc'[Renewer] = NextInLine(proc[Renewer]) /\ \A c \in Chats : proc'[c].does # "renewal"
    BY <1>0, <1>1, <2>1
  <2> QED
    BY <1>0, <2>1, <2>2, <2>3, LoopGoesOn, NextInLineIs
<1>5. CASE Crash
  <2>1. failures' = failures + 1 /\ renewed' = renewed /\ \A c \in Coroutines : proc'[c] = Idle
    BY <1>5 DEF Crash
  <2>2. failures' # 0
    BY <2>1, BoundsAreNumbers DEF IInv, TypeOK
  <2>3. Idle.does = "nothing" /\ Idle.pc = "idle" /\ Idle.todo = {}
    BY DEF Idle
  <2> QED
    BY <1>0, <1>1, <2>1, <2>2, <2>3, LoopGoesOn
<1>6. CASE Tick \/ UNCHANGED vars \/ (\E u \in Users, p \in Plans : Order(u, p))
            \/ \E u \in Users, n \in Sums : TakeBack(u, n)
  <2>1. UNCHANGED <<proc, marks, renewed>>
    BY <1>6 DEF Tick, Order, TakeBack, ghosts, vars
  <2> QED
    BY <1>1, <2>1, LoopGoesOn
<1>7. \A c \in Coroutines : c \in Chats \/ c = Renewer
  BY DEF Coroutines
<1> QED
  BY <1>2, <1>3, <1>4, <1>5, <1>6, <1>7, ListStep, TryStep, PeopleAreUsers DEF Next

\* A subscription is renewed again only when its mark was lost in a failure and it came to
\* end last again as well: without a failure the mark holds the loop back, and as long as
\* nothing disturbs the ends, the choice of the one that ends last does (try_renew, run_once).
THEOREM RenewedOnceUnlessBoth == Spec => []RenewedOnce
<1>1. Init => RenewInv
  <2> SUFFICES ASSUME Init PROVE RenewInv
    OBVIOUS
  <2>1. \A c \in Coroutines : proc[c].does = "nothing" /\ proc[c].pc = "idle" /\ proc[c].todo = {}
    BY DEF Init, Idle
  <2>2. \A i \in Ids : renewed[i] = 0
    BY DEF Init
  <2>3. LoopOK(proc[Renewer]) /\ MarkTells(proc[Renewer]) /\ EndTells(proc[Renewer])
    BY <2>1, <2>2 DEF LoopOK, MarkTells, EndTells, Renewing, Coroutines
  <2> QED
    BY <2>1, <2>2, <2>3 DEF RenewInv, Coroutines
<1>2. Spec => []RenewInv
  BY <1>1, RenewStep, Invariance, PTL DEF Spec
<1>3. IInv /\ RenewInv => RenewedOnce
  <2> SUFFICES ASSUME IInv, RenewInv, NEW i \in Ids, ~(renewed[i] <= 1)
               PROVE  failures > 0 /\ disturbed
    BY DEF RenewedOnce
  <2>1. disturbed
    BY DEF RenewInv, EndTells
  <2>2. failures # 0
    BY DEF RenewInv, MarkTells
  <2> QED
    BY <2>1, <2>2, BoundsAreNumbers DEF IInv, TypeOK
<1> QED
  BY <1>2, <1>3, Invariance, PTL
=============================================================================
