---------------------------- MODULE Entitlement ----------------------------
(***************************************************************************)
(* What a customer may still use (services/entitlement.py, credits.py):    *)
(* the quota of his plan, counted in period_usage, and then the credits he *)
(* bought. Whoever spends reserves first, and gives back what came to      *)
(* nothing. A SELECT opens no transaction in SQLite: each counter is read  *)
(* in one step and written, as read, in a later one.                       *)
(***************************************************************************)
EXTENDS Integers, FiniteSets, Functions

CONSTANTS
    Spenders,  \* coroutines that spend one customer's units
    Amounts,   \* what may be asked for at once
    Limit,     \* the plan's quota
    Credit,    \* the credits bought
    MaxAsks    \* bound: reservations

ASSUME EntitlementAssumption ==
    /\ Amounts \subseteq Nat \ {0} /\ Limit \in Nat /\ Credit \in Nat /\ MaxAsks \in Nat
    /\ IsFiniteSet(Spenders)

VARIABLES
    usage,     \* the row of period_usage: does it exist, used
    credits,   \* users.history_credits
    s,         \* each spender: step, what came from where, the counter as read
    overlap,   \* ghost: a counter was written that another spender had read
    spent,     \* ghost: units whose work was begun, or that a kill swallowed
    asks       \* how many reservations were begun

ledger == <<usage, credits, s, overlap, spent, asks>>

Idle == [pc |-> "idle", quota |-> 0, credit |-> 0, old |-> 0]

EntitlementInit ==
    /\ usage = [row |-> FALSE, used |-> 0]
    /\ credits = Credit
    /\ s = [c \in Spenders |-> Idle]
    /\ overlap = FALSE /\ spent = 0 /\ asks = 0

-----------------------------------------------------------------------------
Does(c, step) == s[c].pc = step
Least(a, b) == IF a < b THEN a ELSE b
AtLeastZero(n) == IF n < 0 THEN 0 ELSE n
Move(c, step) == s' = [s EXCEPT ![c].pc = step]
ReadOld(c, step, n) == s' = [s EXCEPT ![c].pc = step, ![c].old = n]

\* Steps between which a spender relies on period_usage, on the credits.
OnUsage == {"credits", "pay", "take", "insert", "update", "back"}
OnCredits == {"pay", "refund"}
Overlaps(c, steps) == overlap' = (overlap \/ \E d \in Spenders \ {c} : s[d].pc \in steps)

Left == AtLeastZero(Limit - usage.used)

\* reserve: from the quota what is left, from the credits the rest
Reserve(c, n) ==
    LET quota == Least(n, Left)
    IN  /\ Does(c, "idle")
        /\ s' = [s EXCEPT ![c] = [pc |-> IF n > quota THEN "credits" ELSE "take",
                                  quota |-> quota, credit |-> n - quota, old |-> 0]]
        /\ asks < MaxAsks /\ asks' = asks + 1
        /\ UNCHANGED <<usage, credits, overlap, spent>>

\* credits.consume reads; with too few of them nothing is taken at all.
Consume(c) ==
    /\ Does(c, "credits")
    /\ IF credits < s[c].credit THEN s' = [s EXCEPT ![c] = Idle]
                                ELSE ReadOld(c, "pay", credits)
    /\ UNCHANGED <<usage, credits, overlap, spent, asks>>

ConsumeWrite(c) ==
    /\ Does(c, "pay")
    /\ credits' = s[c].old - s[c].credit
    /\ Overlaps(c, OnCredits)
    /\ Move(c, IF s[c].quota > 0 THEN "take" ELSE "granted")
    /\ UNCHANGED <<usage, spent, asks>>

\* _take
TakeRead(c) ==
    /\ Does(c, "take")
    /\ ReadOld(c, IF usage.row THEN "update" ELSE "insert", usage.used)
    /\ UNCHANGED <<usage, credits, overlap, spent, asks>>

\* The first to take inserts the row; who comes second reads it again.
TakeInsert(c) ==
    /\ Does(c, "insert")
    /\ IF usage.row
       THEN ReadOld(c, "update", usage.used) /\ UNCHANGED <<usage, overlap>>
       ELSE /\ usage' = [row |-> TRUE, used |-> s[c].quota]
            /\ Overlaps(c, OnUsage)
            /\ Move(c, "granted")
    /\ UNCHANGED <<credits, spent, asks>>

TakeUpdate(c) ==
    /\ Does(c, "update")
    /\ usage' = [usage EXCEPT !.used = s[c].old + s[c].quota]
    /\ Overlaps(c, OnUsage)
    /\ Move(c, "granted")
    /\ UNCHANGED <<credits, spent, asks>>

\* What was reserved is used.
Use(c) ==
    /\ Does(c, "granted")
    /\ spent' = spent + s[c].quota + s[c].credit
    /\ s' = [s EXCEPT ![c] = Idle]
    /\ UNCHANGED <<usage, credits, overlap, asks>>

\* It came to nothing: release gives back the quota, then the credits.
Release(c) ==
    /\ Does(c, "granted")
    /\ Move(c, IF s[c].quota > 0 THEN "return" ELSE "recredit")
    /\ UNCHANGED <<usage, credits, overlap, spent, asks>>

ReturnRead(c) ==
    /\ Does(c, "return")
    /\ ReadOld(c, "back", usage.used)
    /\ UNCHANGED <<usage, credits, overlap, spent, asks>>

Forgotten(c) == Idle
Unreturned(c) == IF s[c].credit > 0 THEN [s[c] EXCEPT !.pc = "recredit", !.quota = 0] ELSE Idle
ReturnWrite(c) ==
    /\ Does(c, "back")
    /\ usage' = [usage EXCEPT !.used = AtLeastZero(s[c].old - s[c].quota)]
    /\ Overlaps(c, OnUsage)
    /\ s' = [s EXCEPT ![c] = Unreturned(c)]
    /\ UNCHANGED <<credits, spent, asks>>

RecreditRead(c) ==
    /\ Does(c, "recredit")
    /\ ReadOld(c, "refund", credits)
    /\ UNCHANGED <<usage, credits, overlap, spent, asks>>

RecreditWrite(c) ==
    /\ Does(c, "refund")
    /\ credits' = s[c].old + s[c].credit
    /\ Overlaps(c, OnCredits)
    /\ s' = [s EXCEPT ![c] = Idle]
    /\ UNCHANGED <<usage, spent, asks>>

Reserving(c) ==
    \/ Consume(c) \/ ConsumeWrite(c) \/ TakeRead(c) \/ TakeInsert(c) \/ TakeUpdate(c)
    \/ \E n \in Amounts : Reserve(c, n)
Returning(c) == ReturnRead(c) \/ ReturnWrite(c) \/ RecreditRead(c) \/ RecreditWrite(c)

EntitlementSpec ==
    /\ EntitlementInit
    /\ [][\E c \in Spenders : Reserving(c) \/ Use(c) \/ Release(c) \/ Returning(c)]_ledger

-----------------------------------------------------------------------------
\* What a spender has taken and not given back or used.
Held(c) ==
    CASE s[c].pc \in {"take", "insert", "update", "recredit", "refund"} -> s[c].credit
      [] s[c].pc \in {"granted", "return", "back"} -> s[c].quota + s[c].credit
      [] OTHER -> 0
AllHeld == SumFunction([c \in Spenders |-> Held(c)])

EntitlementTypeOK ==
    /\ usage \in [row : BOOLEAN, used : Nat] /\ credits \in Nat /\ spent \in Nat
    /\ s \in [Spenders -> [pc : {"idle", "credits", "pay", "take", "insert", "update", "granted",
                                "return", "back", "recredit", "refund"},
                           quota : 0 .. Limit, credit : Nat, old : Nat]]
    /\ overlap \in BOOLEAN

\* Every unit that was taken is held by a coroutine that reserved it, or was used:
\* a refusal takes nothing, and what comes to nothing is given back to where it
\* came from.  Nor is the quota exceeded.  Both but for coroutines of one customer
\* that overlap on a counter.
Accounted ==
    overlap \/ (usage.used + (Credit - credits) = spent + AllHeld /\ usage.used <= Limit)
=============================================================================
