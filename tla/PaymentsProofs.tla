--------------------------- MODULE PaymentsProofs ---------------------------
(***************************************************************************)
(* Proofs about Payments, for any number of requests, customers, admins,   *)
(* gateways and hashes, and for any number of kills:                       *)
(*                                                                         *)
(*   TypeCorrect        every variable keeps its type;                     *)
(*   CreditedOnce       a payment credits its referrer at most once,       *)
(*                      although it may be approved more than once;        *)
(*   PaidOnce           a transfer pays for one request, unless its hash   *)
(*                      has slipped.                                       *)
(*                                                                         *)
(* RewardedOnce is not inductive: that the credit of one coroutine is the  *)
(* first needs to be known before it is made.  RewardInv says that a       *)
(* coroutine about to credit is the only one for its payment, that the     *)
(* payment's row says so, and that no money has moved yet.  For            *)
(* HashPaysOnce, OneInv says that whoever decides with a hash that has not *)
(* slipped decides on the request it has paid for, if it has paid for one. *)
(***************************************************************************)
EXTENDS Payments, FiniteSetTheorems, TLAPS

RowType == [st : {"none", "pending", "approved", "rejected", "gone"},
            user : Users \cup {NoRequest}, coupon : BOOLEAN,
            method : {"card", "coin", "gate"}, file : BOOLEAN, tx : Proofs,
            before : SUBSET Hashes]
FlowType == [req : Requests \cup {NoRequest}, wants : {"card", "coin", "nothing"}]
ProcType == [pc : Steps, req : Requests \cup {NoRequest},
             hash : Hashes \cup {NoHash}, todo : SUBSET (Requests \X Proofs),
             net : SUBSET Hashes, stale : SUBSET Requests, seen : Nat, yes : BOOLEAN]

\* A coroutine at one of these steps works on a request.
Working == {"verify", "attach", "status", "commit", "refresh", "coupon", "spend", "give",
            "reward", "record", "credit", "refuse"}

\* A dialogue that waits for a proof, and a coroutine that works, have a request.
OnRequest ==
    /\ \A u \in Users : flow[u].wants # "nothing" => flow[u].req \in Requests
    /\ \A c \in Coroutines : proc[c].pc \in Working => proc[c].req \in Requests

\* Who is about to credit is alone, and nothing was credited before.
RewardInv ==
    /\ \A q \in Requests : credited[q] \in {0, 1} /\ (credited[q] = 1 => rewards[q] = "paid")
    /\ \A c \in Coroutines :
        At(c, "credit") => rewards[proc[c].req] = "paid" /\ credited[proc[c].req] = 0
    /\ \A c, d \in Coroutines :
        At(c, "credit") /\ At(d, "credit") /\ proc[c].req = proc[d].req => c = d

\* The record of an idle coroutine is well formed.
LEMMA IdleType == Idle \in ProcType /\ Idle.pc = "idle"
  BY DEF Idle, ProcType, Steps, Busy

\* So is the one a finished coroutine is left with.
LEMMA NextInLineType ==
    ASSUME NEW p \in ProcType
    PROVE  NextInLine(p) \in ProcType /\ NextInLine(p).pc \in {"idle", "check"}
<1>1. CASE p.todo = {}
  BY <1>1, IdleType DEF NextInLine
<1>2. CASE p.todo # {}
  <2>1. "check" \in Steps
    BY DEF Steps
  <2>2. [Idle EXCEPT !.pc = "check", !.todo = p.todo, !.net = p.net] \in ProcType
    BY <2>1, IdleType DEF ProcType
  <2>3. [Idle EXCEPT !.pc = "check", !.todo = p.todo, !.net = p.net].pc = "check"
    BY DEF Idle
  <2> QED
    BY <1>2, <2>2, <2>3 DEF NextInLine
<1> QED
  BY <1>1, <1>2

\* The three ways a coroutine moves on keep the records well formed.
LEMMA MoveType ==
    ASSUME NEW c \in Coroutines, proc \in [Coroutines -> ProcType],
           \/ Fails(c)
           \/ Finish(c)
           \/ \E s \in Steps : Goto(c, s)
    PROVE  proc' \in [Coroutines -> ProcType]
<1>1. CASE Fails(c)
  BY <1>1, IdleType DEF Fails
<1>2. CASE Finish(c)
  BY <1>2, NextInLineType DEF Finish
<1>3. ASSUME NEW s \in Steps, Goto(c, s) PROVE proc' \in [Coroutines -> ProcType]
  <2>1. [proc[c] EXCEPT !.pc = s] \in ProcType
    BY <1>3 DEF ProcType
  <2> QED
    BY <2>1, <1>3 DEF Goto
<1> QED
  BY <1>1, <1>2, <1>3

\* A fresh copy of the rows of a set of requests is a list to work on.
LEMMA ListedType ==
    ASSUME NEW S \in SUBSET Requests, row \in [Requests -> RowType]
    PROVE  Listed(S) \in SUBSET (Requests \X Proofs)
  BY DEF Listed, RowType

\* The types hold at the start ...
LEMMA TypeInit == Init => TypeOK /\ OnRequest
<1> SUFFICES ASSUME Init PROVE TypeOK /\ OnRequest
  OBVIOUS
<1>1. NoRow \in RowType /\ NoFlow \in FlowType
  BY DEF NoRow, RowType, NoFlow, FlowType, Proofs
<1>2. TypeOK
  BY <1>1, BoundsAreNumbers, IdleType DEF Init, TypeOK, RowType, FlowType, ProcType
<1>3. OnRequest
  BY IdleType DEF Init, OnRequest, NoFlow, Working
<1> QED
  BY <1>2, <1>3

\* ... and every step of the program keeps them.
LEMMA TypeStep == TypeOK /\ OnRequest /\ [Next]_vars => TypeOK'
<1> SUFFICES ASSUME TypeOK, OnRequest, [Next]_vars PROVE TypeOK'
  OBVIOUS
<1>z. loose' \in SUBSET Hashes
  BY DEF Next, Slips, vars, program, TypeOK
<1> USE <1>z
<1> USE DEF tables, ghosts, world
<1>0. proc \in [Coroutines -> ProcType] /\ row \in [Requests -> RowType]
  BY DEF TypeOK, ProcType, RowType
<1>p. ASSUME proc' \in [Coroutines -> ProcType], UNCHANGED <<tables, ghosts, world>>
      PROVE  TypeOK'
  BY <1>p DEF TypeOK, ProcType
<1>r. ASSUME proc' \in [Coroutines -> ProcType], row' \in [Requests -> RowType],
             UNCHANGED <<used, uses, rewards, ghosts, world>>
      PROVE  TypeOK'
  BY <1>r DEF TypeOK, ProcType, RowType
<1>c. Users \subseteq Coroutines /\ Gateways \subseteq Coroutines
      /\ Reviewers \subseteq Coroutines /\ Checker \in Coroutines
  BY DEF Coroutines
<1>s. Busy \subseteq Steps /\ "read" \in Steps /\ "check" \in Steps /\ "attach" \in Steps
      /\ "verify" \in Steps /\ "commit" \in Busy /\ "refuse" \in Busy
  BY DEF Steps, Busy
<1>1. ASSUME NEW u \in Users, Open(u) PROVE TypeOK'
  <2>1. PICK code \in BOOLEAN :
          proc' = [proc EXCEPT ![u] = [Idle EXCEPT !.pc = "open", !.stale = Unproven(u),
                                                   !.yes = code /\ CouponValid(u)]]
    BY <1>1 DEF Open
  <2>2. Unproven(u) \in SUBSET Requests /\ (code /\ CouponValid(u)) \in BOOLEAN
    BY DEF Unproven, Of
  <2>3. [Idle EXCEPT !.pc = "open", !.stale = Unproven(u),
                     !.yes = code /\ CouponValid(u)] \in ProcType
    BY <2>2, <1>s, IdleType DEF ProcType, Busy
  <2> QED
    BY <1>p, <1>0, <1>c, <1>1, <2>1, <2>3 DEF Open
<1>2. ASSUME NEW u \in Users, Insert(u) PROVE TypeOK'
  <2>1. PICK q \in Requests, S \in SUBSET Hashes :
          row' = [r \in Requests |->
                    IF r = q THEN [NoRow EXCEPT !.st = "pending", !.user = u,
                                                !.coupon = proc[u].yes, !.before = S]
                    ELSE IF r \in proc[u].stale THEN [row[r] EXCEPT !.st = "gone"]
                    ELSE row[r]]
    BY <1>2 DEF Insert
  <2>2. proc[u].yes \in BOOLEAN
    BY <1>0, <1>c DEF ProcType
  <2>3. [NoRow EXCEPT !.st = "pending", !.user = u, !.coupon = proc[u].yes,
                      !.before = S] \in RowType
    BY <2>2 DEF NoRow, RowType, Proofs
  <2>4. \A r \in Requests : [row[r] EXCEPT !.st = "gone"] \in RowType /\ row[r] \in RowType
    BY <1>0 DEF RowType
  <2>5. row' \in [Requests -> RowType]
    BY <2>1, <2>3, <2>4
  <2>6. proc' \in [Coroutines -> ProcType]
    BY <1>0, <1>c, <1>2, MoveType DEF Insert
  <2> QED
    BY <1>r, <2>5, <2>6, <1>2 DEF Insert
<1>3. ASSUME NEW u \in Users, NEW q \in Requests, NEW m \in {"card", "coin", "gate"},
             Choose(u, q, m)
      PROVE  TypeOK'
  <2>1. [row[q] EXCEPT !.method = m] \in RowType
    BY <1>0 DEF RowType
  <2>2. row' \in [Requests -> RowType]
    BY <1>0, <1>3, <2>1 DEF Choose
  <2>3. flow' \in [Users -> FlowType]
    BY <1>3 DEF TypeOK, Choose, NoFlow, FlowType
  <2> QED
    BY <1>3, <2>2, <2>3 DEF TypeOK, Choose, RowType, FlowType
<1>4. ASSUME NEW u \in Users, SendReceipt(u) PROVE TypeOK'
  <2>1. flow[u].req \in Requests
    BY <1>4 DEF SendReceipt, OnRequest
  <2>2. [row[flow[u].req] EXCEPT !.file = TRUE] \in RowType
    BY <1>0, <2>1 DEF RowType
  <2>3. row' \in [Requests -> RowType]
    BY <1>0, <1>4, <2>1, <2>2 DEF SendReceipt
  <2>4. flow' \in [Users -> FlowType]
    BY <1>4 DEF TypeOK, SendReceipt, NoFlow, FlowType
  <2> QED
    BY <1>4, <2>3, <2>4 DEF TypeOK, SendReceipt, RowType, FlowType
<1>5. ASSUME NEW u \in Users, NEW h \in Hashes, SendHash(u, h) PROVE TypeOK'
  <2>1. flow[u].req \in Requests
    BY <1>5 DEF SendHash, OnRequest
  <2>2. [row[flow[u].req] EXCEPT !.tx = h] \in RowType
    BY <1>0, <2>1 DEF RowType, Proofs
  <2>3. row' \in [Requests -> RowType]
    BY <1>0, <1>5, <2>1, <2>2 DEF SendHash
  <2>4. flow' \in [Users -> FlowType]
    BY <1>5 DEF TypeOK, SendHash, NoFlow, FlowType
  <2>5. [Idle EXCEPT !.pc = "verify", !.req = flow[u].req] \in ProcType
    BY <2>1, <1>s, IdleType DEF ProcType
  <2>6. proc' \in [Coroutines -> ProcType]
    BY <1>0, <1>c, <1>5, <2>5 DEF SendHash
  <2> QED
    BY <1>5, <2>3, <2>4, <2>6 DEF TypeOK, SendHash, RowType, FlowType, ProcType
<1>6. ASSUME NEW u \in Users, VerifyNow(u) PROVE TypeOK'
  <2>1. proc[u].req \in Requests
    BY <1>6, <1>c DEF VerifyNow, OnRequest, At, Working
  <2>2. Listed({proc[u].req}) \in SUBSET (Requests \X Proofs)
    BY <2>1, <1>0, ListedType
  <2>3. [Idle EXCEPT !.pc = "read", !.todo = Listed({proc[u].req})] \in ProcType
    BY <2>2, <1>s, IdleType DEF ProcType
  <2> QED
    BY <1>p, <1>0, <1>c, <1>6, <2>3, IdleType DEF VerifyNow
<1>7. ASSUME NEW h \in Hashes, Transfer(h) PROVE TypeOK'
  BY <1>7 DEF TypeOK, Transfer
<1>8. ASSUME NEW q \in Requests, PayAtBank(q) PROVE TypeOK'
  BY <1>8 DEF TypeOK, PayAtBank
<1>9. ASSUME CheckList PROVE TypeOK'
  <2>1. PendingUsdt \in SUBSET Requests
    BY DEF PendingUsdt
  <2>2. Listed(PendingUsdt) \in SUBSET (Requests \X Proofs)
    BY <2>1, <1>0, ListedType
  <2>3. [Idle EXCEPT !.pc = "read", !.todo = Listed(PendingUsdt)] \in ProcType
    BY <2>2, <1>s, IdleType DEF ProcType
  <2> QED
    BY <1>p, <1>0, <1>c, <1>9, <2>3 DEF CheckList
<1>10. ASSUME NEW g \in Gateways, NEW q \in Requests, GatewayReturn(g, q) PROVE TypeOK'
  <2>1. [Idle EXCEPT !.pc = "attach", !.req = q] \in ProcType
    BY <1>s, IdleType DEF ProcType
  <2> QED
    BY <1>p, <1>0, <1>c, <1>10, <2>1 DEF GatewayReturn
<1>11. ASSUME NEW g \in Gateways, AttachReference(g) PROVE TypeOK'
  <2>1. \A q \in Requests : [row[q] EXCEPT !.tx = Reference] \in RowType
    BY <1>0 DEF RowType, Proofs
  <2>2. row' \in [Requests -> RowType]
    BY <1>0, <1>11, <2>1 DEF AttachReference
  <2>3. proc' \in [Coroutines -> ProcType]
    BY <1>0, <1>c, <1>11, MoveType DEF AttachReference, Steps, Busy
  <2> QED
    BY <1>r, <2>2, <2>3, <1>11 DEF AttachReference
<1>12. ASSUME NEW d \in Reviewers, NEW q \in Requests, NEW a \in {"commit", "refuse"},
              Press(d, q, a)
       PROVE  TypeOK'
  <2>1. [Idle EXCEPT !.pc = a, !.req = q] \in ProcType
    BY <1>s, IdleType DEF ProcType
  <2> QED
    BY <1>p, <1>0, <1>c, <1>12, <2>1 DEF Press
<1>13. ASSUME NEW c \in Coroutines, Work(c) PROVE TypeOK'
  <2> DEFINE req == proc[c].req
  <2>0. proc[c] \in ProcType
    BY <1>0
  <2>1. CASE Answer(c)
    <3>1. PICK net \in SUBSET chain : proc' = [proc EXCEPT ![c].pc = "check", ![c].net = net]
      BY <2>1 DEF Answer, Since
    <3>2. [proc[c] EXCEPT !.pc = "check", !.net = net] \in ProcType
      BY <2>0, <1>s DEF ProcType, TypeOK
    <3>3. proc' = [proc EXCEPT ![c] = [proc[c] EXCEPT !.pc = "check", !.net = net]]
      BY <3>1, <1>0 DEF ProcType
    <3> QED
      BY <1>p, <1>0, <2>1, <3>2, <3>3 DEF Answer
  <2>2. CASE NoAnswer(c)
    BY <1>p, <1>0, <2>2, MoveType DEF NoAnswer
  <2>3. CASE CheckOne(c)
    <3> DEFINE left(x) == [proc[c] EXCEPT !.todo = @ \ {x}]
    <3>1. PICK x \in proc[c].todo :
            \/ proc' = [proc EXCEPT ![c] =
                          [left(x) EXCEPT !.pc = "status", !.req = x[1], !.hash = x[2]]]
               /\ x[2] \in proc[c].net
            \/ proc' = [proc EXCEPT ![c] = NextInLine(left(x))]
      BY <2>3 DEF CheckOne
    <3>2. x \in Requests \X Proofs /\ proc[c].net \subseteq Hashes
      BY <2>0 DEF ProcType
    <3>3. left(x) \in ProcType
      BY <2>0, <3>2 DEF ProcType
    <3>4. ASSUME x[2] \in proc[c].net
          PROVE  [left(x) EXCEPT !.pc = "status", !.req = x[1], !.hash = x[2]] \in ProcType
      <4> HIDE DEF left
      <4> QED
        BY <3>2, <3>3, <3>4 DEF ProcType, Steps, Busy
    <3>5. NextInLine(left(x)) \in ProcType
      BY <3>3, NextInLineType
    <3>6. proc' \in [Coroutines -> ProcType]
      BY <1>0, <3>1, <3>4, <3>5
    <3> QED
      BY <1>p, <2>3, <3>6 DEF CheckOne
  <2>4. CASE Refuse(c)
    <3>1. \A q \in Requests : [row[q] EXCEPT !.st = "rejected"] \in RowType
      BY <1>0 DEF RowType
    <3>2. row' \in [Requests -> RowType]
      BY <1>0, <2>4, <3>1 DEF Refuse
    <3>3. proc' \in [Coroutines -> ProcType]
      BY <1>0, <2>4, MoveType DEF Refuse
    <3> QED
      BY <1>r, <2>4, <3>2, <3>3 DEF Refuse
  <2>5. CASE Approve(c)
    <3> USE <1>0, <2>0
    <3>0. /\ used \in Nat /\ uses \in [Requests -> Nat]
          /\ given \in [Requests -> Nat] /\ credited \in [Requests -> Nat]
          /\ bought \in [Hashes -> SUBSET Requests]
      BY DEF TypeOK
    <3>1. CASE Status(c)
      BY <1>p, <3>1, MoveType DEF Status, Steps, Busy
    <3>2. CASE Commit(c)
      <4>1. req \in Requests /\ proc[c].hash \in Hashes \cup {NoHash}
        BY <3>2 DEF Commit, At, OnRequest, Working, ProcType
      <4>2. \A q \in Requests : [row[q] EXCEPT !.st = "approved"] \in RowType
        BY DEF RowType
      <4>3. row' \in [Requests -> RowType]
        BY <3>2, <4>1, <4>2 DEF Commit
      <4>4. proc' \in [Coroutines -> ProcType]
        BY <3>2, MoveType DEF Commit, Steps, Busy
      <4>5. bought' \in [Hashes -> SUBSET Requests]
        <5>1. ASSUME NEW h \in Hashes PROVE bought[h] \cup {req} \in SUBSET Requests
          BY <3>0, <4>1
        <5> QED
          BY <3>0, <3>2, <4>1, <5>1 DEF Commit
      <4> QED
        BY <4>3, <4>4, <4>5, <3>2 DEF TypeOK, Commit, RowType, ProcType
    <3>3. CASE Refresh(c)
      BY <1>p, <3>3, MoveType DEF Refresh, Steps, Busy
    <3>4. CASE ReadCoupon(c)
      <4>1. [proc[c] EXCEPT !.pc = "spend", !.seen = used] \in ProcType
        BY DEF ProcType, TypeOK, Steps, Busy
      <4>2. proc' = [proc EXCEPT ![c] = [proc[c] EXCEPT !.pc = "spend", !.seen = used]]
        BY <3>4 DEF ReadCoupon, ProcType
      <4> QED
        BY <1>p, <3>4, <4>1, <4>2 DEF ReadCoupon
    <3>5. CASE SpendCoupon(c)
      <4>1. proc' \in [Coroutines -> ProcType]
        BY <3>5, MoveType DEF SpendCoupon, Steps, Busy
      <4>2. used' \in Nat
        BY <3>5 DEF SpendCoupon, ProcType
      <4>3. uses' \in [Requests -> Nat]
        <5>1. \A q \in Requests : uses[q] + 1 \in Nat
          BY <3>0
        <5>2. req \in Requests
          BY <3>5 DEF SpendCoupon, At, OnRequest, Working
        <5>3. uses' = [uses EXCEPT ![req] = uses[req] + 1]
          BY <3>5 DEF SpendCoupon
        <5> QED
          BY <3>0, <5>1, <5>2, <5>3
      <4> QED
        BY <4>1, <4>2, <4>3, <3>5 DEF TypeOK, SpendCoupon, ProcType
    <3>6. CASE Give(c)
      <4>1. proc' \in [Coroutines -> ProcType]
        BY <3>6, MoveType DEF Give, Steps, Busy
      <4>2. given' \in [Requests -> Nat]
        <5>1. \A q \in Requests : given[q] + 1 \in Nat
          BY <3>0
        <5>2. req \in Requests
          BY <3>6 DEF Give, At, OnRequest, Working
        <5>3. given' = [given EXCEPT ![req] = given[req] + 1]
          BY <3>6 DEF Give
        <5> QED
          BY <3>0, <5>1, <5>2, <5>3
      <4> QED
        BY <4>1, <4>2, <3>6 DEF TypeOK, Give, ProcType
    <3>7. CASE Reward(c)
      <4> DEFINE yes == ~AlreadyRewarded(row[req].user)
      <4>1. yes \in BOOLEAN
        BY DEF AlreadyRewarded
      <4>2. proc' = [proc EXCEPT ![c] = [proc[c] EXCEPT !.pc = "record", !.yes = yes]]
        BY <3>7 DEF Reward, ProcType
      <4> HIDE DEF yes
      <4>3. [proc[c] EXCEPT !.pc = "record", !.yes = yes] \in ProcType
        BY <4>1 DEF ProcType, Steps, Busy
      <4>4. proc' \in [Coroutines -> ProcType]
        BY <4>2, <4>3
      <4> QED
        BY <1>p, <3>7, <4>4 DEF Reward
    <3>8. CASE Record(c)
      <4>1. proc' \in [Coroutines -> ProcType]
        BY <3>8, MoveType DEF Record, Steps, Busy
      <4>2. rewards' \in [Requests -> {"none", "paid", "void"}]
        BY <3>8 DEF Record, TypeOK
      <4> QED
        BY <4>1, <4>2, <3>8 DEF TypeOK, Record, ProcType
    <3>9. CASE Credit(c)
      <4>1. proc' \in [Coroutines -> ProcType]
        BY <3>9, MoveType DEF Credit
      <4>2. credited' \in [Requests -> Nat]
        <5>1. \A q \in Requests : credited[q] + 1 \in Nat
          BY <3>0
        <5>2. req \in Requests
          BY <3>9 DEF Credit, At, OnRequest, Working
        <5>3. credited' = [credited EXCEPT ![req] = credited[req] + 1]
          BY <3>9 DEF Credit
        <5> QED
          BY <3>0, <5>1, <5>2, <5>3
      <4> QED
        BY <4>1, <4>2, <3>9 DEF TypeOK, Credit, ProcType
    <3> QED
      BY <2>5, <3>1, <3>2, <3>3, <3>4, <3>5, <3>6, <3>7, <3>8, <3>9 DEF Approve
  <2> QED
    BY <1>13, <2>1, <2>2, <2>3, <2>4, <2>5 DEF Work
<1>14. ASSUME Crash PROVE TypeOK'
  <2>1. proc' \in [Coroutines -> ProcType]
    BY <1>14, IdleType DEF Crash
  <2>2. flow' \in [Users -> FlowType]
    BY <1>14 DEF Crash, NoFlow, FlowType
  <2>3. crashes' \in 0 .. MaxCrash
    BY <1>14, BoundsAreNumbers DEF Crash, TypeOK
  <2> QED
    BY <1>14, <2>1, <2>2, <2>3 DEF TypeOK, Crash, FlowType, ProcType
<1>15. CASE UNCHANGED vars
  BY <1>15 DEF TypeOK, vars, program
<1> QED
  BY <1>1, <1>2, <1>3, <1>4, <1>5, <1>6, <1>7, <1>8, <1>9, <1>10, <1>11, <1>12, <1>13,
     <1>14, <1>15 DEF Next, Step

\* A step leaves its coroutine on a request or done with one, and touches no
\* other coroutine.
LEMMA OnRequestStep == TypeOK /\ OnRequest /\ [Next]_vars => OnRequest'
<1> SUFFICES ASSUME TypeOK, OnRequest, [Next]_vars PROVE OnRequest'
  OBVIOUS
<1> USE DEF tables, ghosts, world
<1>0. proc \in [Coroutines -> ProcType]
  BY DEF TypeOK, ProcType
<1>c. Users \subseteq Coroutines /\ Gateways \subseteq Coroutines
      /\ Reviewers \subseteq Coroutines /\ Checker \in Coroutines
  BY DEF Coroutines
<1>f. flow \in [Users -> FlowType]
  BY DEF TypeOK, FlowType
<1>p. ASSUME NEW c \in Coroutines, NEW p,
             proc' = [proc EXCEPT ![c] = p], p.pc \in Working => p.req \in Requests, flow' = flow
      PROVE  OnRequest'
  BY <1>p, <1>0 DEF OnRequest
<1>m. ASSUME NEW c \in Coroutines, flow' = flow,
             \/ Fails(c)
             \/ Finish(c)
             \/ proc[c].req \in Requests /\ \E s \in Steps : Goto(c, s)
      PROVE  OnRequest'
  <2>1. CASE Fails(c)
    BY <1>p, <1>m, <2>1, IdleType DEF Fails, Working
  <2>2. CASE Finish(c)
    BY <1>p, <1>0, <1>m, <2>2, NextInLineType DEF Finish, Working
  <2>3. ASSUME NEW s \in Steps, Goto(c, s), proc[c].req \in Requests PROVE OnRequest'
    <3>1. [proc[c] EXCEPT !.pc = s].req = proc[c].req
      BY <1>0 DEF ProcType
    <3> QED
      BY <1>p, <1>0, <1>m, <2>3, <3>1 DEF Goto
  <2> QED
    BY <1>m, <2>1, <2>2, <2>3
<1>n. ASSUME NEW u \in Users, proc' = proc, flow' = [flow EXCEPT ![u] = NoFlow]
      PROVE  OnRequest'
  BY <1>n, <1>f DEF OnRequest, NoFlow
<1>1. ASSUME NEW u \in Users, Open(u) PROVE OnRequest'
  <2>1. PICK code \in BOOLEAN :
          proc' = [proc EXCEPT ![u] = [Idle EXCEPT !.pc = "open", !.stale = Unproven(u),
                                                   !.yes = code /\ CouponValid(u)]]
    BY <1>1 DEF Open
  <2>2. [Idle EXCEPT !.pc = "open", !.stale = Unproven(u),
                     !.yes = code /\ CouponValid(u)].pc = "open"
    BY DEF Idle
  <2> QED
    BY <1>p, <1>c, <1>1, <2>1, <2>2 DEF Open, Working
<1>2. ASSUME NEW u \in Users, Insert(u) PROVE OnRequest'
  BY <1>m, <1>c, <1>2 DEF Insert
<1>3. ASSUME NEW u \in Users, NEW q \in Requests, NEW m \in {"card", "coin", "gate"},
             Choose(u, q, m)
      PROVE  OnRequest'
  <2>1. CASE m = "gate"
    BY <1>3, <1>n, <2>1 DEF Choose
  <2>2. CASE m # "gate"
    BY <1>3, <1>f, <2>2 DEF Choose, OnRequest
  <2> QED
    BY <2>1, <2>2
<1>4. ASSUME NEW u \in Users, SendReceipt(u) PROVE OnRequest'
  BY <1>n, <1>4 DEF SendReceipt
<1>5. ASSUME NEW u \in Users, NEW h \in Hashes, SendHash(u, h) PROVE OnRequest'
  <2>1. flow[u].req \in Requests
    BY <1>5 DEF SendHash, OnRequest
  <2>2. [Idle EXCEPT !.pc = "verify", !.req = flow[u].req].req = flow[u].req
    BY DEF Idle
  <2>3. \A c \in Coroutines : proc'[c].pc \in Working => proc'[c].req \in Requests
    BY <1>0, <1>c, <1>5, <2>1, <2>2 DEF SendHash, OnRequest
  <2>4. \A v \in Users : flow'[v].wants # "nothing" => flow'[v].req \in Requests
    BY <1>5, <1>f DEF SendHash, OnRequest, NoFlow
  <2> QED
    BY <2>3, <2>4 DEF OnRequest
<1>6. ASSUME NEW u \in Users, VerifyNow(u) PROVE OnRequest'
  <2>1. [Idle EXCEPT !.pc = "read", !.todo = Listed({proc[u].req})].pc = "read"
    BY DEF Idle
  <2> QED
    BY <1>p, <1>c, <1>6, <2>1, IdleType DEF VerifyNow, Working
<1>7. ASSUME NEW h \in Hashes, Transfer(h) PROVE OnRequest'
  BY <1>7 DEF OnRequest, Transfer
<1>8. ASSUME NEW q \in Requests, PayAtBank(q) PROVE OnRequest'
  BY <1>8 DEF OnRequest, PayAtBank
<1>9. ASSUME CheckList PROVE OnRequest'
  <2>1. [Idle EXCEPT !.pc = "read", !.todo = Listed(PendingUsdt)].pc = "read"
    BY DEF Idle
  <2> QED
    BY <1>p, <1>c, <1>9, <2>1 DEF CheckList, Working
<1>10. ASSUME NEW g \in Gateways, NEW q \in Requests, GatewayReturn(g, q) PROVE OnRequest'
  <2>1. [Idle EXCEPT !.pc = "attach", !.req = q].req = q
    BY DEF Idle
  <2> QED
    BY <1>p, <1>c, <1>10, <2>1 DEF GatewayReturn
<1>11. ASSUME NEW g \in Gateways, AttachReference(g) PROVE OnRequest'
  <2>1. proc[g].req \in Requests
    BY <1>11, <1>c DEF AttachReference, At, OnRequest, Working
  <2> QED
    BY <1>m, <1>c, <1>11, <2>1 DEF AttachReference, Steps, Busy
<1>12. ASSUME NEW d \in Reviewers, NEW q \in Requests, NEW a \in {"commit", "refuse"},
              Press(d, q, a)
       PROVE  OnRequest'
  <2>1. [Idle EXCEPT !.pc = a, !.req = q].req = q
    BY DEF Idle
  <2> QED
    BY <1>p, <1>c, <1>12, <2>1 DEF Press
<1>13. ASSUME NEW c \in Coroutines, Work(c) PROVE OnRequest'
  <2>0. proc[c] \in ProcType
    BY <1>0
  <2>1. CASE Answer(c)
    <3>1. PICK net \in SUBSET chain : proc' = [proc EXCEPT ![c].pc = "check", ![c].net = net]
      BY <2>1 DEF Answer, Since
    <3>2. proc' = [proc EXCEPT ![c] = [proc[c] EXCEPT !.pc = "check", !.net = net]]
      BY <3>1, <1>0 DEF ProcType
    <3>3. [proc[c] EXCEPT !.pc = "check", !.net = net].pc = "check"
      BY <2>0 DEF ProcType
    <3> QED
      BY <1>p, <2>1, <3>2, <3>3 DEF Answer, Working
  <2>2. CASE NoAnswer(c)
    BY <1>m, <2>2 DEF NoAnswer
  <2>3. CASE CheckOne(c)
    <3> DEFINE left(x) == [proc[c] EXCEPT !.todo = @ \ {x}]
    <3>1. PICK x \in proc[c].todo :
            \/ proc' = [proc EXCEPT ![c] =
                          [left(x) EXCEPT !.pc = "status", !.req = x[1], !.hash = x[2]]]
            \/ proc' = [proc EXCEPT ![c] = NextInLine(left(x))]
      BY <2>3 DEF CheckOne
    <3>2. x \in Requests \X Proofs
      BY <2>0 DEF ProcType
    <3>3. left(x) \in ProcType
      BY <2>0, <3>2 DEF ProcType
    <3> HIDE DEF left
    <3>4. [left(x) EXCEPT !.pc = "status", !.req = x[1], !.hash = x[2]].req \in Requests
      BY <3>2, <3>3 DEF ProcType
    <3>5. NextInLine(left(x)).pc \notin Working
      BY <3>3, NextInLineType DEF Working
    <3>6. flow' = flow
      BY <2>3 DEF CheckOne
    <3> QED
      BY <1>p, <3>1, <3>4, <3>5, <3>6
  <2>4. CASE Refuse(c)
    BY <1>m, <2>4 DEF Refuse
  <2>5. CASE Approve(c)
    <3>r. proc[c].pc \in Working => proc[c].req \in Requests
      BY DEF OnRequest
    <3>1. CASE Status(c)
      BY <1>m, <3>1, <3>r DEF Status, At, Working, Steps, Busy
    <3>2. CASE Commit(c)
      BY <1>m, <3>2, <3>r DEF Commit, At, Working, Steps, Busy
    <3>3. CASE Refresh(c)
      BY <1>m, <3>3, <3>r DEF Refresh, At, Working, Steps, Busy
    <3>4. CASE ReadCoupon(c)
      <4>1. proc' = [proc EXCEPT ![c] = [proc[c] EXCEPT !.pc = "spend", !.seen = used]]
        BY <3>4, <1>0 DEF ReadCoupon, ProcType
      <4>2. [proc[c] EXCEPT !.pc = "spend", !.seen = used].req = proc[c].req
        BY <2>0 DEF ProcType
      <4> QED
        BY <1>p, <3>4, <3>r, <4>1, <4>2 DEF ReadCoupon, At, Working
    <3>5. CASE SpendCoupon(c)
      BY <1>m, <3>5, <3>r DEF SpendCoupon, At, Working, Steps, Busy
    <3>6. CASE Give(c)
      BY <1>m, <3>6, <3>r DEF Give, At, Working, Steps, Busy
    <3>7. CASE Reward(c)
      <4> DEFINE yes == ~AlreadyRewarded(row[proc[c].req].user)
      <4>1. proc' = [proc EXCEPT ![c] = [proc[c] EXCEPT !.pc = "record", !.yes = yes]]
        BY <3>7, <1>0 DEF Reward, ProcType
      <4> HIDE DEF yes
      <4>2. [proc[c] EXCEPT !.pc = "record", !.yes = yes].req = proc[c].req
        BY <2>0 DEF ProcType
      <4> QED
        BY <1>p, <3>7, <3>r, <4>1, <4>2 DEF Reward, At, Working
    <3>8. CASE Record(c)
      BY <1>m, <3>8, <3>r DEF Record, At, Working, Steps, Busy
    <3>9. CASE Credit(c)
      BY <1>m, <3>9 DEF Credit
    <3> QED
      BY <2>5, <3>1, <3>2, <3>3, <3>4, <3>5, <3>6, <3>7, <3>8, <3>9 DEF Approve
  <2> QED
    BY <1>13, <2>1, <2>2, <2>3, <2>4, <2>5 DEF Work
<1>14. ASSUME Crash PROVE OnRequest'
  BY <1>14, IdleType DEF Crash, OnRequest, NoFlow, Working
<1>15. CASE UNCHANGED vars
  BY <1>15 DEF OnRequest, vars, program
<1> QED
  BY <1>1, <1>2, <1>3, <1>4, <1>5, <1>6, <1>7, <1>8, <1>9, <1>10, <1>11, <1>12, <1>13,
     <1>14, <1>15 DEF Next, Step

\* Every variable has its type in every reachable state.
THEOREM TypeCorrect == Spec => []TypeOK
<1>1. Init => TypeOK /\ OnRequest
  BY TypeInit
<1>2. TypeOK /\ OnRequest /\ [Next]_vars => (TypeOK /\ OnRequest)'
  BY TypeStep, OnRequestStep
<1> QED
  BY <1>1, <1>2, PTL DEF Spec

\* No step but Record brings a coroutine to the credit, and Record does so only
\* for a payment that had no row.
LEMMA RewardStep == TypeOK /\ OnRequest /\ RewardInv /\ [Next]_vars => RewardInv'
<1> SUFFICES ASSUME TypeOK, OnRequest, RewardInv, [Next]_vars PROVE RewardInv'
  OBVIOUS
<1> USE DEF tables, ghosts, world
<1>0. /\ proc \in [Coroutines -> ProcType]
      /\ rewards \in [Requests -> {"none", "paid", "void"}]
      /\ credited \in [Requests -> Nat]
  BY DEF TypeOK, ProcType
<1>c. Users \subseteq Coroutines /\ Gateways \subseteq Coroutines
      /\ Reviewers \subseteq Coroutines /\ Checker \in Coroutines
  BY DEF Coroutines
<1>p. ASSUME NEW c \in Coroutines, NEW p,
             proc' = [proc EXCEPT ![c] = p], p.pc # "credit",
             rewards' = rewards, credited' = credited
      PROVE  RewardInv'
  BY <1>p, <1>0 DEF RewardInv, At
<1>m. ASSUME NEW c \in Coroutines, rewards' = rewards, credited' = credited,
             \/ Fails(c)
             \/ Finish(c)
             \/ \E s \in Steps \ {"credit"} : Goto(c, s)
      PROVE  RewardInv'
  <2>1. CASE Fails(c)
    BY <1>p, <1>m, <2>1, IdleType DEF Fails
  <2>2. CASE Finish(c)
    BY <1>p, <1>0, <1>m, <2>2, NextInLineType DEF Finish
  <2>3. ASSUME NEW s \in Steps \ {"credit"}, Goto(c, s) PROVE RewardInv'
    <3>1. [proc[c] EXCEPT !.pc = s].pc = s
      BY <1>0 DEF ProcType
    <3> QED
      BY <1>p, <1>0, <1>m, <2>3, <3>1 DEF Goto
  <2> QED
    BY <1>m, <2>1, <2>2, <2>3
<1>1. ASSUME NEW u \in Users, Open(u) PROVE RewardInv'
  <2>1. PICK code \in BOOLEAN :
          proc' = [proc EXCEPT ![u] = [Idle EXCEPT !.pc = "open", !.stale = Unproven(u),
                                                   !.yes = code /\ CouponValid(u)]]
    BY <1>1 DEF Open
  <2>2. [Idle EXCEPT !.pc = "open", !.stale = Unproven(u),
                     !.yes = code /\ CouponValid(u)].pc = "open"
    BY DEF Idle
  <2> QED
    BY <1>p, <1>c, <1>1, <2>1, <2>2 DEF Open
<1>2. ASSUME NEW u \in Users, Insert(u) PROVE RewardInv'
  BY <1>m, <1>c, <1>2 DEF Insert
<1>3. ASSUME NEW u \in Users, NEW q \in Requests, NEW m \in {"card", "coin", "gate"},
             Choose(u, q, m)
      PROVE  RewardInv'
  BY <1>3 DEF Choose, RewardInv, At
<1>4. ASSUME NEW u \in Users, SendReceipt(u) PROVE RewardInv'
  BY <1>4 DEF SendReceipt, RewardInv, At
<1>5. ASSUME NEW u \in Users, NEW h \in Hashes, SendHash(u, h) PROVE RewardInv'
  <2>1. [Idle EXCEPT !.pc = "verify", !.req = flow[u].req].pc = "verify"
    BY DEF Idle
  <2> QED
    BY <1>p, <1>c, <1>5, <2>1 DEF SendHash
<1>6. ASSUME NEW u \in Users, VerifyNow(u) PROVE RewardInv'
  <2>1. [Idle EXCEPT !.pc = "read", !.todo = Listed({proc[u].req})].pc = "read"
    BY DEF Idle
  <2> QED
    BY <1>p, <1>c, <1>6, <2>1, IdleType DEF VerifyNow
<1>7. ASSUME NEW h \in Hashes, Transfer(h) PROVE RewardInv'
  BY <1>7 DEF RewardInv, Transfer, At
<1>8. ASSUME NEW q \in Requests, PayAtBank(q) PROVE RewardInv'
  BY <1>8 DEF RewardInv, PayAtBank, At
<1>9. ASSUME CheckList PROVE RewardInv'
  <2>1. [Idle EXCEPT !.pc = "read", !.todo = Listed(PendingUsdt)].pc = "read"
    BY DEF Idle
  <2> QED
    BY <1>p, <1>c, <1>9, <2>1 DEF CheckList
<1>10. ASSUME NEW g \in Gateways, NEW q \in Requests, GatewayReturn(g, q) PROVE RewardInv'
  <2>1. [Idle EXCEPT !.pc = "attach", !.req = q].pc = "attach"
    BY DEF Idle
  <2> QED
    BY <1>p, <1>c, <1>10, <2>1 DEF GatewayReturn
<1>11. ASSUME NEW g \in Gateways, AttachReference(g) PROVE RewardInv'
  BY <1>m, <1>c, <1>11 DEF AttachReference, Steps, Busy
<1>12. ASSUME NEW d \in Reviewers, NEW q \in Requests, NEW a \in {"commit", "refuse"},
              Press(d, q, a)
       PROVE  RewardInv'
  <2>1. [Idle EXCEPT !.pc = a, !.req = q].pc = a
    BY DEF Idle
  <2> QED
    BY <1>p, <1>c, <1>12, <2>1 DEF Press
<1>13. ASSUME NEW c \in Coroutines, Work(c) PROVE RewardInv'
  <2>0. proc[c] \in ProcType
    BY <1>0
  <2>1. CASE Answer(c)
    <3>1. PICK net \in SUBSET chain : proc' = [proc EXCEPT ![c].pc = "check", ![c].net = net]
      BY <2>1 DEF Answer, Since
    <3>2. proc' = [proc EXCEPT ![c] = [proc[c] EXCEPT !.pc = "check", !.net = net]]
      BY <3>1, <1>0 DEF ProcType
    <3>3. [proc[c] EXCEPT !.pc = "check", !.net = net].pc = "check"
      BY <2>0 DEF ProcType
    <3> QED
      BY <1>p, <2>1, <3>2, <3>3 DEF Answer
  <2>2. CASE NoAnswer(c)
    BY <1>m, <2>2 DEF NoAnswer
  <2>3. CASE CheckOne(c)
    <3> DEFINE left(x) == [proc[c] EXCEPT !.todo = @ \ {x}]
    <3>1. PICK x \in proc[c].todo :
            \/ proc' = [proc EXCEPT ![c] =
                          [left(x) EXCEPT !.pc = "status", !.req = x[1], !.hash = x[2]]]
            \/ proc' = [proc EXCEPT ![c] = NextInLine(left(x))]
      BY <2>3 DEF CheckOne
    <3>2. left(x) \in ProcType
      BY <2>0 DEF ProcType
    <3> HIDE DEF left
    <3>3. [left(x) EXCEPT !.pc = "status", !.req = x[1], !.hash = x[2]].pc = "status"
      BY <3>2 DEF ProcType
    <3>4. NextInLine(left(x)).pc # "credit"
      BY <3>2, NextInLineType
    <3>5. rewards' = rewards /\ credited' = credited
      BY <2>3 DEF CheckOne
    <3> QED
      BY <1>p, <3>1, <3>3, <3>4, <3>5
  <2>4. CASE Refuse(c)
    BY <1>m, <2>4 DEF Refuse
  <2>5. CASE Approve(c)
    <3>1. CASE Status(c)
      BY <1>m, <3>1 DEF Status, Steps, Busy
    <3>2. CASE Commit(c)
      BY <1>m, <3>2 DEF Commit, Steps, Busy
    <3>3. CASE Refresh(c)
      BY <1>m, <3>3 DEF Refresh, Steps, Busy
    <3>4. CASE ReadCoupon(c)
      <4>1. proc' = [proc EXCEPT ![c] = [proc[c] EXCEPT !.pc = "spend", !.seen = used]]
        BY <3>4, <1>0 DEF ReadCoupon, ProcType
      <4>2. [proc[c] EXCEPT !.pc = "spend", !.seen = used].pc = "spend"
        BY <2>0 DEF ProcType
      <4> QED
        BY <1>p, <3>4, <4>1, <4>2 DEF ReadCoupon
    <3>5. CASE SpendCoupon(c)
      BY <1>m, <3>5 DEF SpendCoupon, Steps, Busy
    <3>6. CASE Give(c)
      BY <1>m, <3>6 DEF Give, Steps, Busy
    <3>7. CASE Reward(c)
      <4> DEFINE yes == ~AlreadyRewarded(row[proc[c].req].user)
      <4>1. proc' = [proc EXCEPT ![c] = [proc[c] EXCEPT !.pc = "record", !.yes = yes]]
        BY <3>7, <1>0 DEF Reward, ProcType
      <4> HIDE DEF yes
      <4>2. [proc[c] EXCEPT !.pc = "record", !.yes = yes].pc = "record"
        BY <2>0 DEF ProcType
      <4> QED
        BY <1>p, <3>7, <4>1, <4>2 DEF Reward
    <3>8. CASE Record(c)
      <4> DEFINE q == proc[c].req
      <4>1. q \in Requests
        BY <3>8 DEF Record, At, OnRequest, Working
      <4>2. CASE rewards[q] # "none"
        BY <1>m, <3>8, <4>2 DEF Record, Recorded
      <4>3. CASE rewards[q] = "none"
        <5>1. credited[q] = 0 /\ \A d \in Coroutines : At(d, "credit") => proc[d].req # q
          BY <4>1, <4>3 DEF RewardInv
        <5>2. rewards' = [rewards EXCEPT ![q] = IF proc[c].yes THEN "paid" ELSE "void"]
              /\ credited' = credited
          BY <3>8, <4>3 DEF Record, Recorded
        <5>3. CASE proc[c].yes
          <6>1. proc' = [proc EXCEPT ![c] = [proc[c] EXCEPT !.pc = "credit"]]
            BY <3>8, <4>3, <5>3 DEF Record, Recorded, Goto
          <6>2. [proc[c] EXCEPT !.pc = "credit"].req = q
            BY <2>0 DEF ProcType
          <6>3. proc'[c].req = q /\ \A d \in Coroutines \ {c} : proc'[d] = proc[d]
            BY <6>1, <6>2, <1>0
          <6>4. rewards' = [rewards EXCEPT ![q] = "paid"]
            BY <5>2, <5>3
          <6>5. \A d \in Coroutines : At(d, "credit") => proc[d].req \in Requests
            BY DEF At, OnRequest, Working
          <6> HIDE DEF q
          <6> QED
            BY <1>0, <4>1, <5>1, <5>2, <6>3, <6>4, <6>5 DEF RewardInv, At
        <5>4. CASE ~proc[c].yes
          <6>1. proc' = [proc EXCEPT ![c] = NextInLine(proc[c])]
            BY <3>8, <4>3, <5>4 DEF Record, Recorded, Finish
          <6>2. proc'[c].pc # "credit" /\ \A d \in Coroutines \ {c} : proc'[d] = proc[d]
            BY <6>1, <1>0, <2>0, NextInLineType
          <6>3. \A d \in Coroutines : At(d, "credit") => proc[d].req \in Requests
            BY DEF At, OnRequest, Working
          <6> HIDE DEF q
          <6> QED
            BY <1>0, <4>1, <5>1, <5>2, <6>2, <6>3 DEF RewardInv, At
        <5> QED
          BY <5>3, <5>4
      <4> QED
        BY <4>2, <4>3
    <3>9. CASE Credit(c)
      <4> DEFINE q == proc[c].req
      <4>1. q \in Requests /\ At(c, "credit")
        BY <3>9 DEF Credit, At, OnRequest, Working
      <4>2. rewards[q] = "paid" /\ credited[q] = 0
        BY <4>1 DEF RewardInv
      <4>3. \A d \in Coroutines \ {c} : At(d, "credit") => proc[d].req # q
        BY <4>1 DEF RewardInv
      <4>4. proc'[c].pc # "credit" /\ \A d \in Coroutines \ {c} : proc'[d] = proc[d]
        BY <3>9, <1>0, <2>0, NextInLineType DEF Credit, Finish
      <4>5. rewards' = rewards /\ credited' = [credited EXCEPT ![q] = credited[q] + 1]
        BY <3>9 DEF Credit
      <4>6. \A d \in Coroutines : At(d, "credit") => proc[d].req \in Requests
        BY DEF At, OnRequest, Working
      <4> HIDE DEF q
      <4> QED
        BY <1>0, <4>1, <4>2, <4>3, <4>4, <4>5, <4>6 DEF RewardInv, At
    <3> QED
      BY <2>5, <3>1, <3>2, <3>3, <3>4, <3>5, <3>6, <3>7, <3>8, <3>9 DEF Approve
  <2> QED
    BY <1>13, <2>1, <2>2, <2>3, <2>4, <2>5 DEF Work
<1>14. ASSUME Crash PROVE RewardInv'
  BY <1>14, IdleType DEF Crash, RewardInv, At
<1>15. CASE UNCHANGED vars
  BY <1>15 DEF RewardInv, vars, program, At
<1> QED
  BY <1>1, <1>2, <1>3, <1>4, <1>5, <1>6, <1>7, <1>8, <1>9, <1>10, <1>11, <1>12, <1>13,
     <1>14, <1>15 DEF Next, Step

\* The referrer's wallet is credited at most once for a payment, however many
\* approvals of it run to the end and whenever the process is killed.
THEOREM CreditedOnce == Spec => []RewardedOnce
<1>1. Init => TypeOK /\ OnRequest /\ RewardInv
  <2>1. Init => RewardInv
    BY IdleType DEF Init, RewardInv, At
  <2> QED
    BY <2>1, TypeInit
<1>2. TypeOK /\ OnRequest /\ RewardInv /\ [Next]_vars => (TypeOK /\ OnRequest /\ RewardInv)'
  BY TypeStep, OnRequestStep, RewardStep
<1>3. RewardInv => RewardedOnce
  BY DEF RewardInv, RewardedOnce
<1> QED
  BY <1>1, <1>2, <1>3, PTL DEF Spec

-----------------------------------------------------------------------------
(* A transfer pays for one request.                                        *)

Deciding(p) == p.pc \in {"status", "commit"}
SameDecision(p, q) == Deciding(p) /\ q.req = p.req /\ q.hash = p.hash

\* What has slipped is noted; of the other hashes, one has paid for one request, and who
\* decides with it decides on that one.  Nobody brings a hash to the gateway's page.
OneInv ==
    /\ Slips \subseteq loose
    /\ \A h \in Hashes \ loose :
        /\ \A q, r \in bought[h] : q = r
        /\ \A c \in Coroutines :
            Deciding(proc[c]) /\ proc[c].hash = h => bought[h] \subseteq {proc[c].req}
    /\ \A c \in Coroutines : At(c, "attach") => proc[c].hash = NoHash

\* What a hash that has not slipped has paid for is approved and names it, and whoever decides
\* with it decides on the same request.
LEMMA NotSlipped ==
    ASSUME TypeOK, OnRequest, OneInv, NEW h \in Hashes \ loose
    PROVE  /\ \A q \in bought[h] : row[q].st = "approved" /\ row[q].tx = h
           /\ \A c, d \in Coroutines :
                Deciding(proc[c]) /\ Deciding(proc[d]) /\ proc[c].hash = h /\ proc[d].hash = h
                  => proc[c].req = proc[d].req
<1>1. h \notin Slips
  BY DEF OneInv
<1>2. \A c \in Coroutines : Deciding(proc[c]) => proc[c].req \in Requests
  BY DEF OnRequest, Deciding, Working
<1> QED
  BY <1>1, <1>2 DEF Slips, Decides, Deciding

\* A step after which nobody decides but who decided before, or who has no hash.
LEMMA NobodyNew ==
    ASSUME TypeOK, OneInv, Slips' \subseteq loose', loose \subseteq loose', bought' = bought,
           NEW c \in Coroutines, \A d \in Coroutines \ {c} : proc'[d] = proc[d],
           \/ ~Deciding(proc'[c]) \/ proc'[c].hash = NoHash \/ SameDecision(proc[c], proc'[c]),
           proc'[c].pc = "attach" => proc'[c].hash = NoHash
    PROVE  OneInv'
<1>1. ASSUME NEW d \in Coroutines, NEW h \in Hashes \ loose,
             Deciding(proc'[d]), proc'[d].hash = h
      PROVE  bought[h] \subseteq {proc'[d].req}
  <2>1. h # NoHash
    BY HashesApart
  <2>2. CASE d = c
    BY <1>1, <2>1, <2>2 DEF SameDecision, OneInv
  <2>3. CASE d # c
    BY <1>1, <2>3 DEF OneInv
  <2> QED
    BY <2>2, <2>3
<1>2. \A h \in Hashes \ loose : \A q, r \in bought[h] : q = r
  BY DEF OneInv
<1>3. \A d \in Coroutines : proc'[d].pc = "attach" => proc'[d].hash = NoHash
  BY DEF OneInv, At
<1> QED
  BY <1>1, <1>2, <1>3 DEF OneInv, At, Deciding

\* How the records of the coroutines change when one of them fails, goes to a step or is
\* done with a request.
LEMMA AfterMove ==
    ASSUME NEW c \in Coroutines, proc \in [Coroutines -> ProcType],
           \/ Fails(c)
           \/ Finish(c)
           \/ \E s \in Steps \ {"attach"} : Goto(c, s) /\ (Deciding(proc[c]) \/ ~Deciding([pc |-> s]))
    PROVE  /\ \A d \in Coroutines \ {c} : proc'[d] = proc[d]
           /\ \/ ~Deciding(proc'[c]) \/ proc'[c].hash = NoHash \/ SameDecision(proc[c], proc'[c])
           /\ proc'[c].pc # "attach"
<1>1. CASE Fails(c)
  BY <1>1, IdleType DEF Fails, Deciding
<1>2. CASE Finish(c)
  BY <1>2, NextInLineType DEF Finish, Deciding
<1>3. ASSUME NEW s \in Steps \ {"attach"}, Goto(c, s), Deciding(proc[c]) \/ ~Deciding([pc |-> s])
      PROVE  /\ \A d \in Coroutines \ {c} : proc'[d] = proc[d]
             /\ \/ ~Deciding(proc'[c]) \/ SameDecision(proc[c], proc'[c])
             /\ proc'[c].pc # "attach"
  <2>1. proc[c] \in ProcType
    OBVIOUS
  <2>2. proc'[c] = [proc[c] EXCEPT !.pc = s] /\ \A d \in Coroutines \ {c} : proc'[d] = proc[d]
    BY <1>3 DEF Goto
  <2>3. proc'[c].pc = s /\ proc'[c].req = proc[c].req /\ proc'[c].hash = proc[c].hash
    BY <2>1, <2>2 DEF ProcType
  <2> QED
    BY <1>3, <2>2, <2>3 DEF Deciding, SameDecision
<1> QED
  BY <1>1, <1>2, <1>3

\* Every step of the program keeps it: to begin to decide, a coroutine has seen that no
\* other approved request names the hash, and what the hash has paid for does.
LEMMA OneStep == TypeOK /\ OnRequest /\ OneInv /\ [Next]_vars => OneInv'
<1> SUFFICES ASSUME TypeOK, OnRequest, OneInv, [Next]_vars PROVE OneInv'
  OBVIOUS
<1>15. CASE UNCHANGED vars
  BY <1>15 DEF OneInv, Slips, Decides, Deciding, At, vars, program, tables, ghosts, world
<1> SUFFICES ASSUME Step, loose' = loose \cup Slips' PROVE OneInv'
  BY <1>15 DEF Next
<1> USE DEF tables, ghosts, world
<1>0. proc \in [Coroutines -> ProcType] /\ bought \in [Hashes -> SUBSET Requests]
  BY DEF TypeOK, ProcType
<1>c. Users \subseteq Coroutines /\ Gateways \subseteq Coroutines
      /\ Reviewers \subseteq Coroutines /\ Checker \in Coroutines
  BY DEF Coroutines
<1>s. Slips' \subseteq loose' /\ loose \subseteq loose'
  OBVIOUS
<1>p. ASSUME NEW c \in Coroutines, NEW p, proc' = [proc EXCEPT ![c] = p], bought' = bought,
             ~Deciding(p) \/ p.hash = NoHash, p.pc = "attach" => p.hash = NoHash
      PROVE  OneInv'
  BY <1>p, <1>0, <1>s, NobodyNew
<1>m. ASSUME NEW c \in Coroutines, bought' = bought,
             \/ Fails(c)
             \/ Finish(c)
             \/ \E s \in Steps \ {"attach"} : Goto(c, s) /\ (Deciding(proc[c]) \/ ~Deciding([pc |-> s]))
      PROVE  OneInv'
  BY <1>m, <1>0, <1>s, AfterMove, NobodyNew
<1>n. ASSUME proc' = proc, bought' = bought PROVE OneInv'
  <2>1. Checker \in Coroutines
        /\ (Deciding(proc[Checker]) => SameDecision(proc[Checker], proc'[Checker]))
    BY <1>c, <1>n DEF SameDecision
  <2>2. proc'[Checker].pc = "attach" => proc'[Checker].hash = NoHash
    BY <1>c, <1>n DEF OneInv, At
  <2> QED
    BY <1>n, <1>s, <2>1, <2>2, NobodyNew
<1>1. ASSUME NEW u \in Users, Open(u) PROVE OneInv'
  <2>1. PICK code \in BOOLEAN :
          proc' = [proc EXCEPT ![u] = [Idle EXCEPT !.pc = "open", !.stale = Unproven(u),
                                                   !.yes = code /\ CouponValid(u)]]
    BY <1>1 DEF Open
  <2>2. [Idle EXCEPT !.pc = "open", !.stale = Unproven(u),
                     !.yes = code /\ CouponValid(u)].pc = "open"
    BY DEF Idle
  <2> QED
    BY <1>p, <1>c, <1>1, <2>1, <2>2 DEF Open, Deciding
<1>2. ASSUME NEW u \in Users, Insert(u) PROVE OneInv'
  BY <1>m, <1>c, <1>2 DEF Insert
<1>3. ASSUME NEW u \in Users, NEW q \in Requests, NEW m \in {"card", "coin", "gate"},
             Choose(u, q, m)
      PROVE  OneInv'
  BY <1>3, <1>n DEF Choose
<1>4. ASSUME NEW u \in Users, SendReceipt(u) PROVE OneInv'
  BY <1>4, <1>n DEF SendReceipt
<1>5. ASSUME NEW u \in Users, NEW h \in Hashes, SendHash(u, h) PROVE OneInv'
  <2>1. [Idle EXCEPT !.pc = "verify", !.req = flow[u].req].pc = "verify"
    BY DEF Idle
  <2> QED
    BY <1>p, <1>c, <1>5, <2>1 DEF SendHash, Deciding
<1>6. ASSUME NEW u \in Users, VerifyNow(u) PROVE OneInv'
  <2>1. [Idle EXCEPT !.pc = "read", !.todo = Listed({proc[u].req})].pc = "read"
    BY DEF Idle
  <2> QED
    BY <1>p, <1>c, <1>6, <2>1, IdleType DEF VerifyNow, Deciding
<1>7. ASSUME NEW h \in Hashes, Transfer(h) PROVE OneInv'
  BY <1>7, <1>n DEF Transfer
<1>8. ASSUME NEW q \in Requests, PayAtBank(q) PROVE OneInv'
  BY <1>8, <1>n DEF PayAtBank
<1>9. ASSUME CheckList PROVE OneInv'
  <2>1. [Idle EXCEPT !.pc = "read", !.todo = Listed(PendingUsdt)].pc = "read"
    BY DEF Idle
  <2> QED
    BY <1>p, <1>c, <1>9, <2>1 DEF CheckList, Deciding
<1>10. ASSUME NEW g \in Gateways, NEW q \in Requests, GatewayReturn(g, q) PROVE OneInv'
  <2>1. [Idle EXCEPT !.pc = "attach", !.req = q].hash = NoHash
    BY DEF Idle
  <2> QED
    BY <1>p, <1>c, <1>10, <2>1 DEF GatewayReturn
<1>11. ASSUME NEW g \in Gateways, AttachReference(g) PROVE OneInv'
  <2>1. proc[g].hash = NoHash /\ proc[g] \in ProcType
    BY <1>0, <1>c, <1>11 DEF AttachReference, OneInv
  <2>2. [proc[g] EXCEPT !.pc = "status"].hash = NoHash
    BY <2>1 DEF ProcType
  <2> QED
    BY <1>p, <1>c, <1>11, <2>2 DEF AttachReference, Goto
<1>12. ASSUME NEW d \in Reviewers, NEW q \in Requests, NEW a \in {"commit", "refuse"},
              Press(d, q, a)
       PROVE  OneInv'
  <2>1. [Idle EXCEPT !.pc = a, !.req = q].hash = NoHash
    BY DEF Idle
  <2> QED
    BY <1>p, <1>c, <1>12, <2>1 DEF Press
<1>13. ASSUME NEW c \in Coroutines, Work(c) PROVE OneInv'
  <2>0. proc[c] \in ProcType
    BY <1>0
  <2>1. CASE Answer(c)
    <3>1. PICK net \in SUBSET chain : proc' = [proc EXCEPT ![c].pc = "check", ![c].net = net]
      BY <2>1 DEF Answer, Since
    <3>2. proc' = [proc EXCEPT ![c] = [proc[c] EXCEPT !.pc = "check", !.net = net]]
      BY <3>1, <1>0 DEF ProcType
    <3>3. [proc[c] EXCEPT !.pc = "check", !.net = net].pc = "check"
      BY <2>0 DEF ProcType
    <3> QED
      BY <1>p, <2>1, <3>2, <3>3 DEF Answer, Deciding
  <2>2. CASE NoAnswer(c)
    BY <1>m, <2>2 DEF NoAnswer
  <2>3. CASE CheckOne(c)
    <3> DEFINE left(x) == [proc[c] EXCEPT !.todo = @ \ {x}]
    <3>1. PICK x \in proc[c].todo :
            \/ ~HashAlreadyUsed(x[2], x[1]) /\ proc' = [proc EXCEPT ![c] =
                 [left(x) EXCEPT !.pc = "status", !.req = x[1], !.hash = x[2]]]
            \/ proc' = [proc EXCEPT ![c] = NextInLine(left(x))]
      BY <2>3 DEF CheckOne
    <3>2. left(x) \in ProcType
      BY <2>0 DEF ProcType
    <3>3. bought' = bought
      BY <2>3 DEF CheckOne
    <3> HIDE DEF left
    <3>4. CASE proc' = [proc EXCEPT ![c] = NextInLine(left(x))]
      <4>1. NextInLine(left(x)).pc \in {"idle", "check"}
        BY <3>2, NextInLineType
      <4> QED
        BY <1>p, <3>3, <3>4, <4>1 DEF Deciding
    <3>5. ASSUME ~HashAlreadyUsed(x[2], x[1]),
                 proc' = [proc EXCEPT ![c] =
                            [left(x) EXCEPT !.pc = "status", !.req = x[1], !.hash = x[2]]]
          PROVE  OneInv'
      <4>1. /\ proc'[c].pc = "status" /\ proc'[c].req = x[1] /\ proc'[c].hash = x[2]
            /\ \A d \in Coroutines \ {c} : proc'[d] = proc[d]
        BY <1>0, <3>2, <3>5 DEF ProcType
      <4>2. ASSUME NEW h \in Hashes \ loose, x[2] = h PROVE bought[h] \subseteq {x[1]}
        BY <1>0, <3>5, <4>2, NotSlipped DEF HashAlreadyUsed
      <4>3. ASSUME NEW h \in Hashes \ loose, NEW d \in Coroutines,
                   Deciding(proc'[d]), proc'[d].hash = h
            PROVE  bought[h] \subseteq {proc'[d].req}
        <5>1. CASE d = c
          BY <4>1, <4>2, <4>3, <5>1
        <5>2. CASE d # c
          BY <4>1, <4>3, <5>2 DEF OneInv
        <5> QED
          BY <5>1, <5>2
      <4>4. \A d \in Coroutines : proc'[d].pc = "attach" => proc'[d].hash = NoHash
        BY <4>1 DEF OneInv, At
      <4>5. \A h \in Hashes \ loose : \A q, r \in bought[h] : q = r
        BY DEF OneInv
      <4> QED
        BY <1>s, <3>3, <4>3, <4>4, <4>5 DEF OneInv, At, Deciding
    <3> QED
      BY <3>1, <3>4, <3>5
  <2>4. CASE Refuse(c)
    BY <1>m, <2>4 DEF Refuse
  <2>5. CASE Approve(c)
    <3>1. CASE Status(c)
      BY <1>m, <3>1 DEF Status, At, Deciding, Steps, Busy
    <3>2. CASE Commit(c)
      <4> DEFINE q == proc[c].req
      <4>1. /\ \A d \in Coroutines \ {c} : proc'[d] = proc[d]
            /\ ~Deciding(proc'[c]) /\ proc'[c].pc # "attach"
        BY <1>0, <2>0, <3>2, IdleType DEF Commit, Fails, Goto, Deciding, ProcType
      <4>2. \A h \in Hashes \ loose :
              bought'[h] = bought[h] \/ (proc[c].hash = h /\ bought'[h] = bought[h] \cup {q})
        BY <1>0, <3>2 DEF Commit
      <4>3. Deciding(proc[c])
        BY <3>2 DEF Commit, At, Deciding
      <4>4. ASSUME NEW h \in Hashes \ loose, proc[c].hash = h PROVE bought'[h] \subseteq {q}
        BY <4>2, <4>3, <4>4 DEF OneInv
      <4>5. ASSUME NEW h \in Hashes \ loose PROVE \A r, s \in bought'[h] : r = s
        BY <4>2, <4>4 DEF OneInv
      <4>6. ASSUME NEW h \in Hashes \ loose, NEW d \in Coroutines,
                   Deciding(proc'[d]), proc'[d].hash = h
            PROVE  bought'[h] \subseteq {proc'[d].req}
        <5>1. d # c /\ Deciding(proc[d]) /\ proc'[d] = proc[d]
          BY <4>1, <4>6
        <5>2. CASE proc[c].hash = h
          BY <4>3, <4>4, <4>6, <5>1, <5>2, NotSlipped
        <5>3. CASE proc[c].hash # h
          BY <4>2, <4>6, <5>1, <5>3 DEF OneInv
        <5> QED
          BY <5>2, <5>3
      <4>7. \A d \in Coroutines : proc'[d].pc = "attach" => proc'[d].hash = NoHash
        BY <4>1 DEF OneInv, At
      <4> QED
        BY <1>s, <4>5, <4>6, <4>7 DEF OneInv, At, Deciding
    <3>3. CASE Refresh(c)
      BY <1>m, <3>3 DEF Refresh, Deciding, Steps, Busy
    <3>4. CASE ReadCoupon(c)
      <4>1. proc' = [proc EXCEPT ![c] = [proc[c] EXCEPT !.pc = "spend", !.seen = used]]
        BY <3>4, <1>0 DEF ReadCoupon, ProcType
      <4>2. [proc[c] EXCEPT !.pc = "spend", !.seen = used].pc = "spend"
        BY <2>0 DEF ProcType
      <4> QED
        BY <1>p, <3>4, <4>1, <4>2 DEF ReadCoupon, Deciding
    <3>5. CASE SpendCoupon(c)
      BY <1>m, <3>5 DEF SpendCoupon, Deciding, Steps, Busy
    <3>6. CASE Give(c)
      BY <1>m, <3>6 DEF Give, Deciding, Steps, Busy
    <3>7. CASE Reward(c)
      <4> DEFINE yes == ~AlreadyRewarded(row[proc[c].req].user)
      <4>1. proc' = [proc EXCEPT ![c] = [proc[c] EXCEPT !.pc = "record", !.yes = yes]]
        BY <3>7, <1>0 DEF Reward, ProcType
      <4> HIDE DEF yes
      <4>2. [proc[c] EXCEPT !.pc = "record", !.yes = yes].pc = "record"
        BY <2>0 DEF ProcType
      <4> QED
        BY <1>p, <3>7, <4>1, <4>2 DEF Reward, Deciding
    <3>8. CASE Record(c)
      BY <1>m, <3>8 DEF Record, Deciding, Steps, Busy
    <3>9. CASE Credit(c)
      BY <1>m, <3>9 DEF Credit
    <3> QED
      BY <2>5, <3>1, <3>2, <3>3, <3>4, <3>5, <3>6, <3>7, <3>8, <3>9 DEF Approve
  <2> QED
    BY <1>13, <2>1, <2>2, <2>3, <2>4, <2>5 DEF Work
<1>14. ASSUME Crash PROVE OneInv'
  <2>1. \A d \in Coroutines : proc'[d] = Idle
    BY <1>14 DEF Crash
  <2>2. bought' = bought
    BY <1>14 DEF Crash
  <2> QED
    BY <1>s, <2>1, <2>2, IdleType DEF OneInv, At, Deciding
<1> QED
  BY <1>1, <1>2, <1>3, <1>4, <1>5, <1>6, <1>7, <1>8, <1>9, <1>10, <1>11, <1>12, <1>13,
     <1>14 DEF Step

\* A transfer pays for at most one request in every instance: any number of customers may send
\* its hash, also for requests that were decided before, and rounds, checks and kills come in
\* any order, as long as two decisions with the hash never overlap and what it has paid for
\* keeps it (Slips).
THEOREM PaidOnce == Spec => []HashPaysOnce
<1>1. Init => TypeOK /\ OnRequest /\ OneInv
  <2>1. Init => OneInv
    BY IdleType DEF Init, OneInv, Slips, Decides, Deciding, At
  <2> QED
    BY <2>1, TypeInit
<1>2. TypeOK /\ OnRequest /\ OneInv /\ [Next]_vars => (TypeOK /\ OnRequest /\ OneInv)'
  BY TypeStep, OnRequestStep, OneStep
<1>3. TypeOK /\ OneInv => HashPaysOnce
  <2> SUFFICES ASSUME TypeOK, OneInv, NEW h \in Hashes \ loose
               PROVE  Cardinality(bought[h]) <= 1
    BY DEF HashPaysOnce
  <2>1. CASE bought[h] = {}
    BY <2>1, FS_EmptySet
  <2>2. CASE bought[h] # {}
    <3>1. PICK q \in bought[h] : TRUE
      BY <2>2
    <3>2. bought[h] = {q}
      BY <3>1 DEF OneInv
    <3>3. Cardinality({q}) = 1
      BY FS_Singleton
    <3> QED
      BY <3>2, <3>3
  <2> QED
    BY <2>1, <2>2
<1> QED
  BY <1>1, <1>2, <1>3, PTL DEF Spec
=============================================================================
