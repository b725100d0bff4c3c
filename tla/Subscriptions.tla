--------------------------- MODULE Subscriptions ---------------------------
(***************************************************************************)
(* Who has which plan until when, and the money that moves for it: grants  *)
(* by an approved payment, a gift code, a reseller, the admin, the trial   *)
(* and the renewal loop; the wallet and its ledger; the ownership of       *)
(* customers by resellers.                                                 *)
(*                                                                         *)
(* Each handler is a coroutine whose reads and writes are separate         *)
(* transactions.  Time is counted in days.  A plan never leaves PLANS, so  *)
(* grant, asked for a plan that was found before, does not answer None and *)
(* the refunds for that answer are not reached.                            *)
(***************************************************************************)
EXTENDS Integers, FiniteSets, Functions

CONSTANTS
    Users,
    Resellers,  \* users with is_reseller
    Keepers,    \* the resellers with reseller_keeps
    AutoRenew,  \* users with auto_renew
    Plans,
    Trial,      \* the plan of the trial, which has no price
    Price,      \* of each plan
    Cut,        \* what a reseller pays for each plan
    Days,       \* of each plan
    Gifts,      \* gift codes
    GiftPlan,   \* what each is for
    Ids,        \* bound: ids of rows of subscriptions
    Chats,      \* coroutines of the bot's handlers and of the web panel
    Renewer,    \* the coroutine of renewal.run_forever
    Nothing,    \* NULL
    Subscribers, \* bound: users whose subscriptions an instance follows
    MaxBusy,    \* bound: coroutines at work at a time
    Sums,       \* bound: amounts an admin or a top-up moves
    Shifts,     \* bound: days an admin adds or takes
    MaxAsked,   \* bound: handlers started
    MaxDay,     \* bound: the last day
    MaxFailures \* bound: kills of the process and raising transactions

ASSUME PeopleAreUsers ==
    /\ Resellers \subseteq Users /\ Keepers \subseteq Resellers
    /\ AutoRenew \subseteq Users /\ Subscribers \subseteq Users
ASSUME PlansHavePrices ==
    /\ Trial \in Plans
    /\ Price \in [Plans -> Nat] /\ Cut \in [Plans -> Nat] /\ Days \in [Plans -> Nat \ {0}]
    /\ \A p \in Plans : Cut[p] <= Price[p]
    /\ GiftPlan \in [Gifts -> Plans]
ASSUME NothingIsApart ==
    Nothing \notin Users /\ Nothing \notin Gifts /\ Nothing \notin Ids /\ Nothing \notin Plans
ASSUME ChatsAreFinite == IsFiniteSet(Chats) /\ Renewer \notin Chats
ASSUME BoundsAreNumbers ==
    /\ Sums \subseteq Nat \ {0} /\ Shifts \subseteq Int
    /\ MaxBusy \in Nat /\ MaxAsked \in Nat /\ MaxDay \in Nat /\ MaxFailures \in Nat

VARIABLES
    day,
    sub,       \* subscriptions; a row with no user is not there yet
    wallet,    \* users.wallet_toman
    ledger,    \* the sum of a user's wallet_entries
    purchases, \* the number of wallet_entries with reason purchase
    taken,     \* gift_codes.used_by
    owner,     \* users.owned_by
    order,     \* the user's open request for a plan, and whether it is an upgrade
    marks,     \* reminder_state rows of kind auto_renewed
    proc,      \* every coroutine's step and local variables
    given,     \* ghost: subscriptions a gift code was redeemed for
    renewed,   \* ghost: renewals of a subscription
    served,    \* ghost: subscriptions paid from a wallet
    burnt,     \* ghost: purchases whose coroutine died before the grant
    lost,      \* ghost: wallets a credit wrote over a change it had not seen
    disturbed, \* ghost: Disturbs has happened
    asked,
    failures

vars == <<day, sub, wallet, ledger, purchases, taken, owner, order, marks, proc,
          given, renewed, served, burnt, lost, disturbed, asked, failures>>
money == <<wallet, ledger, lost>>
\* Everything but the coroutines, the ghosts and the counters.
rows == <<day, sub, money, purchases, taken, owner, order, marks>>
ghosts == <<given, renewed, served, burnt, disturbed>>
counts == <<asked, failures>>

Coroutines == Chats \cup {Renewer}
NoSub == [user |-> Nothing, plan |-> Nothing, ends |-> 0]
NoOrder == [plan |-> Nothing, replace |-> FALSE]
Idle == [pc |-> "idle", does |-> "nothing", user |-> Nothing, payer |-> Nothing, amount |-> 0,
         plan |-> Nothing, gift |-> Nothing, id |-> Nothing, seen |-> 0, replace |-> FALSE, todo |-> {}]

Init ==
    /\ day = 0
    /\ sub = [i \in Ids |-> NoSub]
    /\ wallet = [u \in Users |-> 0]
    /\ ledger = [u \in Users |-> 0]
    /\ purchases = 0
    /\ taken = [g \in Gifts |-> Nothing]
    /\ owner = [u \in Users |-> Nothing]
    /\ order = [u \in Users |-> NoOrder]
    /\ marks = {}
    /\ proc = [c \in Coroutines |-> Idle]
    /\ given = [g \in Gifts |-> 0]
    /\ renewed = [i \in Ids |-> 0]
    /\ served = 0
    /\ burnt = 0
    /\ lost = [u \in Users |-> FALSE]
    /\ disturbed = FALSE
    /\ asked = 0
    /\ failures = 0

-----------------------------------------------------------------------------
(* Questions asked of the tables, and the coroutines.                      *)

Had(u) == {i \in Ids : sub[i].user = u}
Active(u) == {i \in Had(u) : sub[i].ends > day}
AnyActive(u) == Active(u)
\* active_subscription: the one that ends last; of two that end together, either.
Farthest(u) == {i \in Active(u) : \A j \in Active(u) : sub[j].ends <= sub[i].ends}

RemainingValue(i) ==
    LET p == sub[i].plan
        left == IF sub[i].ends - day < Days[p] THEN sub[i].ends - day ELSE Days[p]
    IN  (Price[p] * left) \div Days[p]
\* upgrade_quote: a dearer plan than the current one, whose rest is worth something.
IsUpgrade(i, p) == Price[p] > Price[sub[i].plan] /\ RemainingValue(i) > 0

At(c, step) == proc[c].pc = step
Goto(c, step) == proc' = [proc EXCEPT ![c].pc = step]
\* A chat's handler is over; the renewer goes on with the rest of its list.
NextInLine(p) == IF p.todo = {} THEN Idle ELSE [Idle EXCEPT !.pc = "renew", !.todo = p.todo]
Finish(c) == proc' = [proc EXCEPT ![c] = NextInLine(@)]
Room == Cardinality({c \in Coroutines : ~At(c, "idle")}) < MaxBusy
Begin(c, locals) == At(c, "idle") /\ Room /\ proc' = [proc EXCEPT ![c] = locals]
Ask == asked < MaxAsked /\ asked' = asked + 1
Granting(does, u, p) ==
    [Idle EXCEPT !.pc = "current", !.does = does, !.user = u, !.plan = p]

-----------------------------------------------------------------------------
(* What starts a handler.                                                  *)

\* grant_trial_if_new, on /start.
StartTrial(c, u) ==
    /\ Had(u) = {}
    /\ Ask /\ Begin(c, Granting("trial", u, Trial))
    /\ UNCHANGED <<rows, ghosts, failures>>

\* create_request: the price is quoted, the request takes the place of an older one.
Order(u, p) ==
    /\ Ask
    /\ Price[p] > 0
    /\ order[u].plan # p
    /\ \/ /\ Active(u) = {}
          /\ order' = [order EXCEPT ![u] = [plan |-> p, replace |-> FALSE]]
       \/ \E i \in Farthest(u) :
            order' = [order EXCEPT ![u] = [plan |-> p, replace |-> IsUpgrade(i, p)]]
    /\ UNCHANGED <<day, sub, money, purchases, taken, owner, marks, proc, ghosts, failures>>

\* approve, once its status is committed.
Approve(c, u) ==
    /\ order[u] # NoOrder
    /\ Ask /\ Begin(c, [Granting("order", u, order[u].plan) EXCEPT !.replace = order[u].replace])
    /\ order' = [order EXCEPT ![u] = NoOrder]
    /\ UNCHANGED <<day, sub, money, purchases, taken, owner, marks, ghosts, failures>>

\* The admin's grant, from the bot or the web panel.
GrantPlan(c, u, p) ==
    /\ Ask /\ Begin(c, Granting("gesture", u, p))
    /\ UNCHANGED <<rows, ghosts, failures>>

\* giftcodes.redeem, first half: the code is looked up.
Redeem(c, u, g) ==
    /\ taken[g] = Nothing
    /\ Ask /\ Begin(c, [Granting("gift", u, GiftPlan[g]) EXCEPT !.pc = "take", !.gift = g])
    /\ UNCHANGED <<rows, ghosts, failures>>

\* reseller.activate, until the debit.
Sell(c, r, u, p) ==
    /\ u # r
    /\ Price[p] > 0
    /\ wallet[r] >= Cut[p]
    /\ Ask /\ Begin(c, [Granting("sale", u, p) EXCEPT !.pc = "pay", !.payer = r, !.amount = Cut[p]])
    /\ UNCHANGED <<rows, ghosts, failures>>

\* wallet.credit: a top-up, a referral reward, or the admin's adjustment.
PayIn(c, u, n) ==
    /\ Ask /\ Begin(c, [Idle EXCEPT !.pc = "credit", !.payer = u, !.amount = n])
    /\ UNCHANGED <<rows, ghosts, failures>>

\* wallet.adjust with a negative amount: one conditional UPDATE.
TakeBack(u, n) ==
    /\ Ask
    /\ wallet[u] >= n
    /\ wallet' = [wallet EXCEPT ![u] = @ - n]
    /\ ledger' = [ledger EXCEPT ![u] = @ - n]
    /\ UNCHANGED <<day, sub, purchases, taken, owner, order, marks, proc, ghosts, lost, failures>>

\* adjust_days, which subscription.
AdjustDays(c, u, n) ==
    /\ Ask /\ \E i \in Farthest(u) : Begin(c, [Idle EXCEPT !.pc = "days", !.id = i, !.amount = n])
    /\ UNCHANGED <<rows, ghosts, failures>>

\* revoke, which subscriptions.
Revoke(c, u) ==
    /\ Active(u) # {}
    /\ Ask /\ Begin(c, [Idle EXCEPT !.pc = "revoke", !.todo = Active(u), !.seen = day])
    /\ UNCHANGED <<rows, ghosts, failures>>

-----------------------------------------------------------------------------
(* wallet.py.                                                              *)

DebitWithoutEntry(u, n) ==
    /\ n > 0 /\ wallet[u] >= n
    /\ wallet' = [wallet EXCEPT ![u] = @ - n]
    /\ ledger' = ledger

\* One UPDATE ... WHERE wallet_toman >= amount, and the entry with it.
Debit(u, n) ==
    /\ n > 0 /\ wallet[u] >= n
    /\ wallet' = [wallet EXCEPT ![u] = @ - n]
    /\ ledger' = [ledger EXCEPT ![u] = @ - n]

PayUnlooked(c) ==
    LET p == proc[c]
    IN  /\ At(c, "pay")
        /\ \/ Debit(p.payer, p.amount) /\ purchases' = purchases + 1
           \/ wallet[p.payer] < p.amount /\ UNCHANGED <<wallet, ledger, purchases>>
        /\ Goto(c, "current")
        /\ UNCHANGED <<day, sub, lost, taken, owner, order, marks, ghosts, counts>>

Pay(c) ==
    LET p == proc[c]
    IN  /\ At(c, "pay")
        /\ \/ /\ Debit(p.payer, p.amount)
              /\ purchases' = purchases + 1
              /\ Goto(c, "current")
           \/ /\ ~(p.amount > 0 /\ wallet[p.payer] >= p.amount)
              /\ Finish(c)
              /\ UNCHANGED <<wallet, ledger, purchases>>
        /\ UNCHANGED <<day, sub, lost, taken, owner, order, marks, ghosts, counts>>

\* wallet.credit reads the balance ...
ReadBalance(c) ==
    /\ At(c, "credit")
    /\ proc' = [proc EXCEPT ![c].pc = "write", ![c].seen = wallet[proc[c].payer]]
    /\ UNCHANGED <<rows, ghosts, counts>>

\* ... and writes the sum, with the entry, in a later transaction.
WriteBalance(c) ==
    LET u == proc[c].payer
    IN  /\ At(c, "write")
        /\ wallet' = [wallet EXCEPT ![u] = proc[c].seen + proc[c].amount]
        /\ ledger' = [ledger EXCEPT ![u] = @ + proc[c].amount]
        /\ lost' = [lost EXCEPT ![u] = @ \/ wallet[u] # proc[c].seen]
        /\ Finish(c)
        /\ UNCHANGED <<day, sub, purchases, taken, owner, order, marks, ghosts, counts>>

-----------------------------------------------------------------------------
(* subscription.py.                                                        *)

\* A change of ends after which a subscription that was renewed may be the one that ends
\* last: one ends earlier than it did, or not before another one any more, or later than
\* a grant under way reckons with.
Disturbs ==
    \E i \in Ids :
        \/ sub'[i].ends < sub[i].ends
        \/ \E j \in Ids : /\ sub[i].user = sub[j].user /\ sub[i].ends < sub[j].ends
                          /\ sub'[i].ends >= sub'[j].ends
        \/ \E c \in Coroutines : /\ At(c, "insert") /\ proc[c].user = sub[i].user
                                 /\ sub[i].ends <= proc[c].seen /\ proc[c].seen < sub'[i].ends

TakeUnconditional(g) == TRUE
StillFree(g) == taken[g] = Nothing
\* giftcodes.redeem, second half: one UPDATE ... WHERE used_by IS NULL.
TakeGift(c) ==
    LET g == proc[c].gift
    IN  /\ At(c, "take")
        /\ \/ /\ StillFree(g)
              /\ taken' = [taken EXCEPT ![g] = proc[c].user]
              /\ Goto(c, "current")
           \/ ~StillFree(g) /\ Finish(c) /\ UNCHANGED taken
        /\ UNCHANGED <<day, sub, money, purchases, owner, order, marks, ghosts, counts>>

\* grant reads the active subscription: where the new one starts, what it replaces.
Current(c) ==
    LET p == proc[c]
    IN  /\ At(c, "current")
        /\ \/ /\ Active(p.user) = {}
              /\ proc' = [proc EXCEPT ![c] = [p EXCEPT !.pc = "insert", !.seen = day]]
           \/ \E i \in Farthest(p.user) :
                proc' = [proc EXCEPT ![c] =
                    IF p.replace THEN [p EXCEPT !.pc = "close", !.seen = day, !.todo = {i}]
                    ELSE [p EXCEPT !.pc = "insert", !.seen = sub[i].ends]]
        /\ UNCHANGED <<rows, ghosts, counts>>

\* An upgrade closes the current subscription ...
Close(c) ==
    /\ At(c, "close")
    /\ sub' = [i \in Ids |-> IF i \in proc[c].todo THEN [sub[i] EXCEPT !.ends = day] ELSE sub[i]]
    /\ proc' = [proc EXCEPT ![c].pc = "insert", ![c].todo = {}]
    /\ disturbed' = (disturbed \/ Disturbs)
    /\ UNCHANGED <<day, money, purchases, taken, owner, order, marks, given, renewed, served, burnt,
                   counts>>

\* ... and the new one is inserted.
Then(p) == CASE p.does = "sale" -> [p EXCEPT !.pc = "claim"]
             [] p.does = "order" -> [p EXCEPT !.pc = "commission"]
             [] p.does = "renewal" -> [p EXCEPT !.pc = "mark"]
             [] OTHER -> Idle
Insert(c) ==
    LET p == proc[c]
    IN  /\ At(c, "insert")
        /\ \E i \in Ids :
            /\ sub[i] = NoSub
            /\ sub' = [sub EXCEPT ![i] =
                         [user |-> p.user, plan |-> p.plan, ends |-> p.seen + Days[p.plan]]]
        /\ proc' = [proc EXCEPT ![c] = Then(p)]
        /\ given' = IF p.does = "gift" THEN [given EXCEPT ![p.gift] = @ + 1] ELSE given
        /\ renewed' = IF p.does = "renewal" THEN [renewed EXCEPT ![p.id] = @ + 1] ELSE renewed
        /\ served' = IF p.does \in {"sale", "renewal"} THEN served + 1 ELSE served
        /\ UNCHANGED <<day, money, purchases, taken, owner, order, marks, burnt, disturbed, counts>>

\* Taking too many days ends the subscription now, not in the past.
Shifted(ends, n) == IF ends + n > day THEN ends + n ELSE day
ReadDays(c) ==
    /\ At(c, "days")
    /\ proc' = [proc EXCEPT ![c].pc = "shift", ![c].seen = sub[proc[c].id].ends]
    /\ UNCHANGED <<rows, ghosts, counts>>
ShiftDays(c) ==
    /\ At(c, "shift")
    /\ sub' = [sub EXCEPT ![proc[c].id].ends = Shifted(proc[c].seen, proc[c].amount)]
    /\ Finish(c)
    /\ disturbed' = (disturbed \/ Disturbs)
    /\ UNCHANGED <<day, money, purchases, taken, owner, order, marks, given, renewed, served, burnt,
                   counts>>

EndAll(c) ==
    /\ At(c, "revoke")
    /\ sub' = [i \in Ids |-> IF i \in proc[c].todo THEN [sub[i] EXCEPT !.ends = proc[c].seen]
                             ELSE sub[i]]
    /\ proc' = [proc EXCEPT ![c] = Idle]
    /\ disturbed' = (disturbed \/ Disturbs)
    /\ UNCHANGED <<day, money, purchases, taken, owner, order, marks, given, renewed, served, burnt,
                   counts>>

-----------------------------------------------------------------------------
(* reseller.py: claim after a sale, pay_commission after a purchase.       *)

Claim(c) ==
    /\ At(c, "claim")
    /\ IF owner[proc[c].user] = Nothing /\ proc[c].payer \in Keepers THEN Goto(c, "own") ELSE Finish(c)
    /\ UNCHANGED <<rows, ghosts, counts>>

Own(c) ==
    /\ At(c, "own")
    /\ owner' = [owner EXCEPT ![proc[c].user] = proc[c].payer]
    /\ Finish(c)
    /\ UNCHANGED <<day, sub, money, purchases, taken, order, marks, ghosts, counts>>

Commission(c) ==
    LET o == owner[proc[c].user]
        share == Price[proc[c].plan] - Cut[proc[c].plan]
    IN  /\ At(c, "commission")
        /\ IF o \in Keepers \ {proc[c].user} /\ share > 0
           THEN proc' = [proc EXCEPT ![c] = [Idle EXCEPT !.pc = "credit", !.payer = o, !.amount = share]]
           ELSE Finish(c)
        /\ UNCHANGED <<rows, ghosts, counts>>

-----------------------------------------------------------------------------
(* renewal.py.                                                             *)

Renewable == {u \in AutoRenew : Active(u) # {}}
EndsSoon(i) == sub[i].ends - day <= 1
\* The subscription of each user that ends last, if it ends within a day.
ListAny(S) == \E f \in [Renewable -> Ids] :
    /\ \A u \in Renewable : f[u] \in AnyActive(u)
    /\ S = {f[u] : u \in {v \in Renewable : EndsSoon(f[v])}}
Due(S) == \E f \in [Renewable -> Ids] :
    /\ \A u \in Renewable : f[u] \in Farthest(u)
    /\ S = {f[u] : u \in {v \in Renewable : EndsSoon(f[v])}}
ListDue ==
    /\ \E S \in SUBSET Ids \ {{}} :
        /\ Due(S)
        /\ Begin(Renewer, [Idle EXCEPT !.pc = "renew", !.todo = S])
    /\ UNCHANGED <<rows, ghosts, counts>>

\* try_renew, until the debit.
TryRenew ==
    /\ At(Renewer, "renew")
    /\ \E i \in proc[Renewer].todo :
        LET p == sub[i].plan
            left == [proc[Renewer] EXCEPT !.todo = @ \ {i}]
        IN  proc' = [proc EXCEPT ![Renewer] =
               IF Price[p] > 0 /\ i \notin marks /\ wallet[sub[i].user] >= Price[p]
               THEN [left EXCEPT !.pc = "pay", !.does = "renewal", !.user = sub[i].user,
                                 !.payer = sub[i].user, !.amount = Price[p], !.plan = p, !.id = i]
               ELSE NextInLine(left)]
    /\ UNCHANGED <<rows, ghosts, counts>>

Mark(c) ==
    /\ At(c, "mark")
    /\ marks' = marks \cup {proc[c].id}
    /\ Finish(c)
    /\ UNCHANGED <<day, sub, money, purchases, taken, owner, order, ghosts, counts>>

-----------------------------------------------------------------------------
Tick ==
    /\ day < MaxDay
    /\ day' = day + 1
    /\ UNCHANGED <<sub, money, purchases, taken, owner, order, marks, proc, ghosts, counts>>

\* A purchase that was paid and not granted yet.
Paid(c) == proc[c].does \in {"sale", "renewal"} /\ proc[c].pc \in {"current", "insert"}

\* A transaction raises: the handler ends, the renewer goes on with the next.
Raise(c) ==
    /\ failures < MaxFailures
    /\ failures' = failures + 1
    /\ ~At(c, "idle")
    /\ burnt' = IF Paid(c) THEN burnt + 1 ELSE burnt
    /\ proc' = [proc EXCEPT ![c] = IF c = Renewer THEN NextInLine(@) ELSE Idle]
    /\ UNCHANGED <<rows, given, renewed, served, disturbed, asked>>

Crash ==
    /\ failures < MaxFailures
    /\ failures' = failures + 1
    /\ burnt' = burnt + Cardinality({c \in Coroutines : Paid(c)})
    /\ proc' = [c \in Coroutines |-> Idle]
    /\ UNCHANGED <<rows, given, renewed, served, disturbed, asked>>

Start(c) ==
    \/ \E u \in Subscribers : StartTrial(c, u) \/ Approve(c, u) \/ Revoke(c, u)
    \/ \E u \in Subscribers, p \in Plans : GrantPlan(c, u, p)
    \/ \E u \in Subscribers, g \in Gifts : Redeem(c, u, g)
    \/ \E r \in Resellers, u \in Subscribers, p \in Plans : Sell(c, r, u, p)
    \/ \E u \in Users, n \in Sums : PayIn(c, u, n)
    \/ \E u \in Subscribers, n \in Shifts : AdjustDays(c, u, n)

Work(c) ==
    \/ Pay(c) \/ ReadBalance(c) \/ WriteBalance(c) \/ TakeGift(c)
    \/ Current(c) \/ Close(c) \/ Insert(c) \/ ReadDays(c) \/ ShiftDays(c) \/ EndAll(c)
    \/ Claim(c) \/ Own(c) \/ Commission(c) \/ Mark(c)

Next ==
    \/ \E c \in Chats : Start(c)
    \/ \E u \in Subscribers, p \in Plans : Order(u, p)
    \/ \E u \in Users, n \in Sums : TakeBack(u, n)
    \/ ListDue \/ TryRenew
    \/ \E c \in Coroutines : Work(c) \/ Raise(c)
    \/ Tick \/ Crash

Spec == Init /\ [][Next]_vars

-----------------------------------------------------------------------------
Steps == {"idle", "pay", "credit", "write", "take", "current", "close", "insert", "days", "shift",
          "revoke", "claim", "own", "commission", "renew", "mark"}

Row == [user : Users, plan : Plans, ends : Nat]
Request == [plan : Plans, replace : BOOLEAN]
Locals == [pc : Steps,
           does : {"nothing", "trial", "order", "gesture", "gift", "sale", "renewal"},
           user : Users \cup {Nothing}, payer : Users \cup {Nothing}, amount : Int,
           plan : Plans \cup {Nothing}, gift : Gifts \cup {Nothing},
           id : Ids \cup {Nothing}, seen : Int, replace : BOOLEAN, todo : SUBSET Ids]

TypeOK ==
    /\ day \in 0 .. MaxDay
    /\ sub \in [Ids -> Row \cup {NoSub}]
    /\ wallet \in [Users -> Int]
    /\ ledger \in [Users -> Int]
    /\ purchases \in Nat
    /\ taken \in [Gifts -> Users \cup {Nothing}]
    /\ owner \in [Users -> Resellers \cup {Nothing}]
    /\ order \in [Users -> Request \cup {NoOrder}]
    /\ marks \subseteq Ids
    /\ proc \in [Coroutines -> Locals]
    /\ given \in [Gifts -> Nat]
    /\ renewed \in [Ids -> Nat]
    /\ served \in Nat
    /\ burnt \in Nat
    /\ lost \in [Users -> BOOLEAN]
    /\ disturbed \in BOOLEAN
    /\ asked \in 0 .. MaxAsked
    /\ failures \in 0 .. MaxFailures

\* No order of sales, renewals, credits and adjustments makes a balance
\* negative (the condition in wallet.debit's UPDATE).
NeverNegative == \A u \in Users : wallet[u] >= 0

\* The balance is the sum of the entries, unless a credit wrote over a change
\* made after it had read the balance (credit and debit, each in one transaction).
LedgerKept == \A u \in Users : ~lost[u] => wallet[u] = ledger[u]

\* A gift code gives one subscription, however many redeem it together and
\* whatever fails (the condition in redeem's UPDATE).
GiftOnce == \A g \in Gifts : given[g] <= 1

\* Each purchase from a wallet was granted, is about to be, or died with its
\* coroutine; none is granted unpaid (activate, try_renew).
PaidFor == purchases = served + burnt + Cardinality({c \in Coroutines : Paid(c)})

\* A subscription is renewed again only when its mark was lost in a failure and it
\* came to end last again as well (try_renew's mark, and the choice of the farthest in
\* run_once: either is enough).
RenewedOnce == \A i \in Ids : renewed[i] <= 1 \/ (failures > 0 /\ disturbed)
=============================================================================
