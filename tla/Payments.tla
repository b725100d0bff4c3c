------------------------------ MODULE Payments ------------------------------
(***************************************************************************)
(* A payment request from the price that was quoted to the goods that were *)
(* given.  Four kinds of coroutine may decide it: an admin at a button or  *)
(* in the web panel, the blockchain checker's round, the check the         *)
(* customer's own message starts, and the return from the bank gateway.    *)
(* All but the rejection end in payments.approve, whose steps are separate *)
(* transactions: a SELECT does not open one, so what it read may be old    *)
(* when the COMMIT comes.                                                  *)
(*                                                                         *)
(* Amounts are abstracted: a discount is there or not, a transfer is       *)
(* enough or Small.  What is bought is abstracted to one step, Give.       *)
(***************************************************************************)
EXTENDS Integers, FiniteSets, FiniteSetsExt, Functions

CONSTANTS
    Requests,   \* ids of rows of payment_requests
    Users,      \* customers; each stands for its handler coroutine too
    Reviewers,  \* coroutines of the admins' buttons and of the web panel
    Checker,    \* the coroutine of cryptocheck.run_forever
    Gateways,   \* coroutines of zarinpal_return
    Hashes,     \* transaction hashes
    Small,      \* the hashes of transfers below the price
    Reference,  \* what a gateway's ref_id looks like in tx_hash
    NoHash,     \* the empty tx_hash
    NoRequest,
    Pages,      \* MAX_PAGE * MAX_PAGES: transfers one answer of the network has at most
    Coupon,     \* there is an enabled coupon for what is sold
    MaxUses,    \* coupon.max_uses, 0 for no limit
    PerUser,    \* coupon.per_user_limit, 0 for no limit
    Resend,     \* bound: a customer may go back and send a proof again
    MaxBusy,    \* bound: coroutines at a time between the first read and the
                \* last write of a decision or of a new request
    MaxCrash    \* bound: kills of the process

ASSUME HashesApart == NoHash \notin Hashes /\ Reference \notin Hashes /\ NoHash # Reference
ASSUME SmallAreHashes == Small \subseteq Hashes
ASSUME NoRequestIsNone == NoRequest \notin Requests
ASSUME FinitelyMany ==
    IsFiniteSet(Requests) /\ IsFiniteSet(Users) /\ IsFiniteSet(Reviewers) /\ IsFiniteSet(Gateways)
ASSUME BoundsAreNumbers ==
    /\ Coupon \in BOOLEAN /\ Resend \in BOOLEAN
    /\ Pages \in Nat \ {0} /\ MaxUses \in Nat /\ PerUser \in Nat /\ MaxBusy \in Nat /\ MaxCrash \in Nat

VARIABLES
    row,       \* payment_requests; before, by its created_at: the transfers that
               \* were more than an hour old when it was made
    flow,      \* each customer's dialogue: the request and the proof it waits for
    used,      \* coupon.used_count
    uses,      \* CouponUse rows by payment_id
    rewards,   \* ReferralReward rows by payment_id
    chain,     \* hashes of the transfers our wallet has received
    atBank,    \* requests paid at the gateway
    proc,      \* every coroutine's step and local variables
    given,     \* ghost: how often what was bought was handed out
    credited,  \* ghost: how often the referrer's wallet was credited
    bought,    \* ghost: requests approved on the strength of a hash
    loose,     \* ghost: hashes that have slipped (Slips)
    crashes

tables == <<row, used, uses, rewards>>
ghosts == <<given, credited, bought>>
world == <<flow, chain, atBank, crashes>>
program == <<tables, ghosts, world, proc>>
vars == <<program, loose>>

Coroutines == Users \cup Reviewers \cup {Checker} \cup Gateways
Proofs == Hashes \cup {NoHash, Reference}
NoRow == [st |-> "none", user |-> NoRequest, coupon |-> FALSE,
          method |-> "card", file |-> FALSE, tx |-> NoHash, before |-> {}]
NoFlow == [req |-> NoRequest, wants |-> "nothing"]
Idle == [pc |-> "idle", req |-> NoRequest, hash |-> NoHash, todo |-> {},
         net |-> {}, stale |-> {}, seen |-> 0, yes |-> FALSE]

Init ==
    /\ row = [q \in Requests |-> NoRow]
    /\ flow = [u \in Users |-> NoFlow]
    /\ used = 0
    /\ uses = [q \in Requests |-> 0]
    /\ rewards = [q \in Requests |-> "none"]
    /\ chain = {}
    /\ atBank = {}
    /\ proc = [c \in Coroutines |-> Idle]
    /\ given = [q \in Requests |-> 0]
    /\ credited = [q \in Requests |-> 0]
    /\ bought = [h \in Hashes |-> {}]
    /\ loose = {}
    /\ crashes = 0

-----------------------------------------------------------------------------
(* Questions asked of the tables.                                          *)

Exists(q) == row[q].st \notin {"none", "gone"}
Pending(q) == row[q].st = "pending"
HasProof(q) == row[q].file \/ row[q].tx # NoHash
ByCoin(q) == row[q].method = "coin" /\ row[q].tx # NoHash
Of(u) == {q \in Requests : row[q].user = u}

UsedUp == MaxUses > 0 /\ used >= MaxUses
UsedByMe(u) == PerUser > 0 /\ MapThenSumSet(LAMBDA q : uses[q], Of(u)) >= PerUser
CouponValid(u) == Coupon /\ ~UsedUp /\ ~UsedByMe(u)

HashUsedByPending(h, q) == \E r \in Requests \ {q} : row[r].tx = h /\ row[r].st = "pending"
HashAlreadyUsed(h, q) == \E r \in Requests \ {q} : row[r].tx = h /\ row[r].st = "approved"

\* A hash slips when two coroutines decide on different requests with it, or when what
\* was bought with it is no longer an approved row that names it.
Decides(q, h) == \E c \in Coroutines :
    proc[c].pc \in {"status", "commit"} /\ proc[c].req = q /\ proc[c].hash = h
Slips == {h \in Hashes :
    \/ \E q \in bought[h] : row[q].st # "approved" \/ row[q].tx # h
    \/ \E q, r \in Requests : q # r /\ Decides(q, h) /\ Decides(r, h)}

\* first_purchase_only: a purchase of the same customer was rewarded already.
AlreadyRewarded(u) == \E q \in Of(u) : rewards[q] = "paid"

Busy == {"open", "attach", "status", "commit", "refresh", "coupon", "spend", "give",
             "reward", "record", "credit", "refuse"}
Room == Cardinality({c \in Coroutines : proc[c].pc \in Busy}) < MaxBusy

At(c, step) == proc[c].pc = step
Goto(c, step) == proc' = [proc EXCEPT ![c].pc = step]
Fails(c) == proc' = [proc EXCEPT ![c] = Idle]
\* A request is dealt with; the checker goes on with the rest of its list.
NextInLine(p) == IF p.todo = {} THEN Idle
                 ELSE [Idle EXCEPT !.pc = "check", !.todo = p.todo, !.net = p.net]
Finish(c) == proc' = [proc EXCEPT ![c] = NextInLine(@)]

-----------------------------------------------------------------------------
(* The customer.                                                           *)

\* create_request, first half: the price, and the pending rows to clear away.
Unproven(u) == {q \in Of(u) : Pending(q) /\ ~row[q].file}
Open(u) ==
    /\ At(u, "idle")
    /\ Room
    /\ \E q \in Requests : row[q].st = "none"   \* bound: as many requests as there are ids
    /\ \E code \in BOOLEAN :
        proc' = [proc EXCEPT ![u] = [Idle EXCEPT !.pc = "open", !.stale = Unproven(u),
                                                 !.yes = code /\ CouponValid(u)]]
    /\ UNCHANGED <<tables, ghosts, world>>

\* ... second half: they are deleted by id and the new row is inserted.  What was an
\* hour old for an earlier row is so for this one.
Aged(S) == S \subseteq chain /\ \A r \in Requests : row[r].before \subseteq S
Insert(u) ==
    /\ At(u, "open")
    /\ \E q \in Requests, S \in SUBSET Hashes :
        /\ row[q].st = "none" /\ Aged(S)
        /\ row' = [r \in Requests |->
                     IF r = q THEN [NoRow EXCEPT !.st = "pending", !.user = u,
                                                 !.coupon = proc[u].yes, !.before = S]
                     ELSE IF r \in proc[u].stale THEN [row[r] EXCEPT !.st = "gone"]
                     ELSE row[r]]
    /\ Fails(u)
    /\ UNCHANGED <<used, uses, rewards, ghosts, world>>

\* cb_pay_method: the menu's message stays, so any request may be picked again.
Choose(u, q, m) ==
    /\ At(u, "idle")
    /\ Exists(q) /\ row[q].user = u
    /\ Resend \/ ~HasProof(q)
    /\ m = "gate" => Gateways # {}   \* the menu's button is there
    /\ row' = [row EXCEPT ![q].method = m]
    /\ flow' = [flow EXCEPT ![u] = IF m = "gate" THEN NoFlow ELSE [req |-> q, wants |-> m]]
    /\ UNCHANGED <<used, uses, rewards, chain, atBank, proc, ghosts, crashes>>

SendReceipt(u) ==
    LET q == flow[u].req
    IN  /\ At(u, "idle")
        /\ flow[u].wants = "card"
        /\ row' = IF Exists(q) THEN [row EXCEPT ![q].file = TRUE] ELSE row
        /\ flow' = [flow EXCEPT ![u] = NoFlow]
        /\ UNCHANGED <<used, uses, rewards, chain, atBank, proc, ghosts, crashes>>

\* got_tx_hash: the hash is stored, and verify_now is about to read the row.
SendHash(u, h) ==
    LET q == flow[u].req
    IN  /\ At(u, "idle")
        /\ flow[u].wants = "coin"
        /\ Exists(q)
        /\ row' = [row EXCEPT ![q].tx = h]
        /\ flow' = [flow EXCEPT ![u] = NoFlow]
        /\ proc' = [proc EXCEPT ![u] = [Idle EXCEPT !.pc = "verify", !.req = q]]
        /\ UNCHANGED <<used, uses, rewards, chain, atBank, ghosts, crashes>>

Transfer(h) ==
    /\ chain' = chain \cup {h}
    /\ UNCHANGED <<tables, flow, atBank, proc, ghosts, crashes>>

PayAtBank(q) ==
    /\ Pending(q) /\ row[q].method = "gate"
    /\ atBank' = atBank \cup {q}
    /\ UNCHANGED <<tables, flow, chain, proc, ghosts, crashes>>

-----------------------------------------------------------------------------
(* The blockchain: the customer's own check, and the checker's round.      *)

Listed(S) == {<<q, row[q].tx>> : q \in S}

VerifyNow(u) ==
    LET q == proc[u].req
    IN  /\ At(u, "verify")
        /\ proc' = [proc EXCEPT ![u] =
                      IF Pending(q) /\ ByCoin(q)
                      THEN [Idle EXCEPT !.pc = "read", !.todo = Listed({q})]
                      ELSE Idle]
        /\ UNCHANGED <<tables, ghosts, world>>

PendingUsdtReceipt == {q \in Requests : Pending(q) /\ ByCoin(q) /\ row[q].file}
PendingUsdt == {q \in Requests : Pending(q) /\ ByCoin(q)}

CheckList ==
    /\ At(Checker, "idle")
    /\ PendingUsdt # {}
    /\ proc' = [proc EXCEPT ![Checker] =
                  [Idle EXCEPT !.pc = "read", !.todo = Listed(PendingUsdt)]]
    /\ UNCHANGED <<tables, ghosts, world>>

\* tron.incoming: from an hour before the oldest of the requests on, and no more than
\* fits; or an error that ends the round.
Since(S) == chain \ {h \in Hashes : \A q \in S : h \in row[q].before}
Answer(c) ==
    /\ At(c, "read")
    /\ \E net \in SUBSET Since({x[1] : x \in proc[c].todo}) :
        /\ IF Cardinality(Since({x[1] : x \in proc[c].todo})) <= Pages
           THEN net = Since({x[1] : x \in proc[c].todo}) ELSE Cardinality(net) = Pages
        /\ proc' = [proc EXCEPT ![c].pc = "check", ![c].net = net]
    /\ UNCHANGED <<tables, ghosts, world>>

NoAnswer(c) ==
    /\ At(c, "read")
    /\ Fails(c)
    /\ UNCHANGED <<tables, ghosts, world>>

\* check_one, on the copy of the row the list was made with.
CheckOne(c) ==
    /\ At(c, "check")
    /\ \E x \in proc[c].todo :
        LET q == x[1]
            h == x[2]
            left == [proc[c] EXCEPT !.todo = @ \ {x}]
        IN  IF h \in proc[c].net \ Small /\ ~HashAlreadyUsed(h, q)
            THEN /\ Room
                 /\ proc' = [proc EXCEPT ![c] = [left EXCEPT !.pc = "status", !.req = q, !.hash = h]]
            ELSE proc' = [proc EXCEPT ![c] = NextInLine(left)]
    /\ UNCHANGED <<tables, ghosts, world>>

-----------------------------------------------------------------------------
(* The bank gateway and the admins.                                        *)

\* zarinpal_return: the page may be opened again; verify says paid each time.
GatewayReturn(g, q) ==
    /\ At(g, "idle")
    /\ Room
    /\ q \in atBank
    /\ Exists(q) /\ row[q].st # "approved"
    /\ proc' = [proc EXCEPT ![g] = [Idle EXCEPT !.pc = "attach", !.req = q]]
    /\ UNCHANGED <<tables, ghosts, world>>

AttachReference(g) ==
    LET q == proc[g].req
    IN  /\ At(g, "attach")
        /\ row' = IF Exists(q) THEN [row EXCEPT ![q].tx = Reference] ELSE row
        /\ Goto(g, "status")
        /\ UNCHANGED <<used, uses, rewards, ghosts, world>>

\* A button under the receipt, or the same in the web panel: the row is read.
Press(d, q, answer) ==
    /\ At(d, "idle")
    /\ Room
    /\ Pending(q) /\ HasProof(q)
    /\ proc' = [proc EXCEPT ![d] = [Idle EXCEPT !.pc = answer, !.req = q]]
    /\ UNCHANGED <<tables, ghosts, world>>

Refuse(c) ==
    LET q == proc[c].req
    IN  /\ At(c, "refuse")
        /\ row' = IF Exists(q) THEN [row EXCEPT ![q].st = "rejected"] ELSE row
        /\ Fails(c)
        /\ UNCHANGED <<used, uses, rewards, ghosts, world>>

-----------------------------------------------------------------------------
(* payments.approve.                                                       *)

Status(c) ==
    /\ At(c, "status")
    /\ IF Pending(proc[c].req) THEN Goto(c, "commit") ELSE Finish(c)
    /\ UNCHANGED <<tables, ghosts, world>>

\* The UPDATE goes by id alone; it raises when the row is no longer there.
Commit(c) ==
    LET q == proc[c].req
        h == proc[c].hash
    IN  /\ At(c, "commit")
        /\ IF Exists(q)
           THEN /\ row' = [row EXCEPT ![q].st = "approved"]
                /\ bought' = IF h = NoHash THEN bought ELSE [bought EXCEPT ![h] = @ \cup {q}]
                /\ Goto(c, "refresh")
           ELSE Fails(c) /\ UNCHANGED <<row, bought>>
        /\ UNCHANGED <<used, uses, rewards, given, credited, world>>

RefreshOnlyCoupons(c) ==
    LET q == proc[c].req
    IN  /\ At(c, "refresh")
        /\ IF Exists(q) /\ row[q].coupon THEN Goto(c, "coupon") ELSE Finish(c)
        /\ UNCHANGED <<tables, ghosts, world>>

Refresh(c) ==
    LET q == proc[c].req
    IN  /\ At(c, "refresh")
        /\ IF ~Exists(q) THEN Fails(c)
           ELSE Goto(c, IF row[q].coupon THEN "coupon" ELSE "give")
        /\ UNCHANGED <<tables, ghosts, world>>

\* coupons.redeem: used_count is read, and written back one higher.
ReadCoupon(c) ==
    /\ At(c, "coupon")
    /\ proc' = [proc EXCEPT ![c].pc = "spend", ![c].seen = used]
    /\ UNCHANGED <<tables, ghosts, world>>

SpendCoupon(c) ==
    /\ At(c, "spend")
    /\ used' = proc[c].seen + 1
    /\ uses' = [uses EXCEPT ![proc[c].req] = @ + 1]
    /\ Goto(c, "give")
    /\ UNCHANGED <<row, rewards, ghosts, world>>

\* wallet.credit, credits.add or subscription.grant.
Give(c) ==
    /\ At(c, "give")
    /\ given' = [given EXCEPT ![proc[c].req] = @ + 1]
    /\ Goto(c, "reward")
    /\ UNCHANGED <<tables, credited, bought, world>>

\* referral.on_payment_approved: the conditions ...
Reward(c) ==
    /\ At(c, "reward")
    /\ proc' = [proc EXCEPT ![c].pc = "record",
                            ![c].yes = ~AlreadyRewarded(row[proc[c].req].user)]
    /\ UNCHANGED <<tables, ghosts, world>>

\* ... the row, whose payment_id is unique ...
NotUnique(q) == FALSE
Recorded(q) == rewards[q] # "none"
Record(c) ==
    LET q == proc[c].req
    IN  /\ At(c, "record")
        /\ IF Recorded(q)
           THEN Finish(c) /\ UNCHANGED rewards
           ELSE /\ rewards' = [rewards EXCEPT ![q] = IF proc[c].yes THEN "paid" ELSE "void"]
                /\ IF proc[c].yes THEN Goto(c, "credit") ELSE Finish(c)
        /\ UNCHANGED <<row, used, uses, ghosts, world>>

\* ... and the money.
Credit(c) ==
    /\ At(c, "credit")
    /\ credited' = [credited EXCEPT ![proc[c].req] = @ + 1]
    /\ Finish(c)
    /\ UNCHANGED <<tables, given, bought, world>>

-----------------------------------------------------------------------------
\* Coroutines, their locals and the dialogues (kept in memory) are gone.
Crash ==
    /\ crashes < MaxCrash
    /\ crashes' = crashes + 1
    /\ proc' = [c \in Coroutines |-> Idle]
    /\ flow' = [u \in Users |-> NoFlow]
    /\ UNCHANGED <<tables, chain, atBank, ghosts>>

Approve(c) ==
    \/ Status(c) \/ Commit(c) \/ Refresh(c) \/ ReadCoupon(c) \/ SpendCoupon(c)
    \/ Give(c) \/ Reward(c) \/ Record(c) \/ Credit(c)

Work(c) == Answer(c) \/ NoAnswer(c) \/ CheckOne(c) \/ Refuse(c) \/ Approve(c)

Step ==
    \/ \E u \in Users : Open(u) \/ Insert(u) \/ SendReceipt(u) \/ VerifyNow(u)
    \/ \E u \in Users, q \in Requests, m \in {"card", "coin", "gate"} : Choose(u, q, m)
    \/ \E u \in Users, h \in Hashes : SendHash(u, h)
    \/ \E h \in Hashes : Transfer(h)
    \/ CheckList
    \/ \E g \in Gateways, q \in Requests : PayAtBank(q) \/ GatewayReturn(g, q)
    \/ \E g \in Gateways : AttachReference(g)
    \/ \E d \in Reviewers, q \in Requests, a \in {"commit", "refuse"} : Press(d, q, a)
    \/ \E c \in Coroutines : Work(c)
    \/ Crash

\* What slips is noted, whichever step it is.
Next == Step /\ loose' = loose \cup Slips'

Spec == Init /\ [][Next]_vars

\* The event loop runs whatever can go on, the checker's loop starts a round
\* again, and the network, asked again and again, answers now and then.
Scheduled ==
    /\ \A c \in Coroutines : WF_program(Work(c))
    /\ \A u \in Users : WF_program(Insert(u)) /\ WF_program(VerifyNow(u))
    /\ \A g \in Gateways : WF_program(AttachReference(g))
    /\ WF_program(CheckList)
    /\ SF_program(Answer(Checker))

FairSpec == Spec /\ Scheduled

-----------------------------------------------------------------------------
Steps == Busy \cup {"idle", "verify", "read", "check"}

TypeOK ==
    /\ row \in [Requests -> [st : {"none", "pending", "approved", "rejected", "gone"},
                             user : Users \cup {NoRequest}, coupon : BOOLEAN,
                             method : {"card", "coin", "gate"}, file : BOOLEAN, tx : Proofs,
                             before : SUBSET Hashes]]
    /\ flow \in [Users -> [req : Requests \cup {NoRequest}, wants : {"card", "coin", "nothing"}]]
    /\ used \in Nat
    /\ uses \in [Requests -> Nat]
    /\ rewards \in [Requests -> {"none", "paid", "void"}]
    /\ chain \subseteq Hashes
    /\ atBank \subseteq Requests
    /\ proc \in [Coroutines -> [pc : Steps, req : Requests \cup {NoRequest},
                                hash : Hashes \cup {NoHash}, todo : SUBSET (Requests \X Proofs),
                                net : SUBSET Hashes, stale : SUBSET Requests,
                                seen : Nat, yes : BOOLEAN]]
    /\ given \in [Requests -> Nat]
    /\ credited \in [Requests -> Nat]
    /\ bought \in [Hashes -> SUBSET Requests]
    /\ loose \subseteq Hashes
    /\ crashes \in 0 .. MaxCrash

\* What a request bought is handed out once, however many may decide it
\* (the status check of approve).
GivenOnce == \A q \in Requests : given[q] <= 1

\* A transfer pays for one request, whoever asks for it, whatever copy of the row the
\* checker has and whenever the process is killed, unless two requests that name it were
\* being decided at the same time or the one it has paid for names another proof or is
\* no longer approved (hash_already_used).
HashPaysOnce == \A h \in Hashes \ loose : Cardinality(bought[h]) <= 1

\* The referrer's wallet is credited once for a payment, even when two
\* approvals of it run to the end (the unique payment_id of a reward).
RewardedOnce == \A q \in Requests : credited[q] <= 1

\* A purchase with a receipt that was approved is handed out, unless the process
\* is killed (approve after its first commit).
ApprovedServed ==
    \A q \in Requests : (row[q].st = "approved" /\ row[q].file) ~> (given[q] > 0 \/ crashes > 0)

\* A confirmed transfer of enough money activates the request that names it,
\* whatever rounds fail and whenever the process is killed (run_once), when it is not
\* older than an hour before the request and the wallet has not more than one answer shows.
ConfirmedActivated ==
    \A q \in Requests, h \in Hashes \ Small :
        LET Waits == Pending(q) /\ ByCoin(q) /\ row[q].tx = h /\ h \in chain \ row[q].before
        IN  Waits ~> (~Waits \/ HashAlreadyUsed(h, q) \/ Cardinality(chain) > Pages)
=============================================================================
