------------------------------ MODULE CoinRate ------------------------------
(* The rate of each coin that customers pay with (services/usdtrate.py,      *)
(* services/crypto.py): set by hand, or taken from the market every quarter  *)
(* of an hour by a round that asks several sources one after the other.      *)
EXTENDS Integers, Sequences, FiniteSets

CONSTANTS
    Coins, Usdt,  \* of which Usdt anchors the others
    Rounds,       \* coroutines: run_forever, and the handlers of the panel and the bot
    Loop,         \* which of them is run_forever
    Markets,      \* bound: sources asked for a coin
    Prices,       \* bound: what a source may answer
    Low, High,    \* SANE_RANGE
    Margin,       \* percent taken off
    MaxActs       \* bound: rounds begun and rates set by hand

ASSUME RateAssumption == IsFiniteSet(Coins) /\ Usdt \in Coins /\ Loop \in Rounds

MaxSpread == 20   \* MAX_SPREAD_PERCENT
MaxJump == 25     \* MAX_JUMP_PERCENT

VARIABLES
    rate,         \* the stored rate of each coin, 0 for none
    auto,         \* the automatic rate is on
    round,        \* what every coroutine is doing
    byHand,       \* ghost: the rate an admin has set since automatic or forced changes
    early,        \* ghost: the rounds that were past asking for it by then, or forced
    acts

money == <<rate, auto, round, byHand, early, acts>>

NoRound == [at |-> "rest"]

RateInit ==
    /\ rate \in [Coins -> {0} \cup {p \in Prices : p >= Low /\ p <= High}]
    /\ auto \in BOOLEAN
    /\ round = [h \in Rounds |-> NoRound]
    /\ byHand = [c \in Coins |-> 0]
    /\ early = [c \in Coins |-> {}]
    /\ acts = 0

Silent == 0
Sane(p) == Low <= p /\ p <= High

\* _agree: quotes that are further apart than MaxSpread agree on nothing; else their
\* median, by the sorted sequence of quotes.
Sorted(q) == CHOOSE s \in [1 .. Cardinality(DOMAIN q) -> {q[m] : m \in DOMAIN q}] :
                 /\ \A i, j \in DOMAIN s : i < j => s[i] <= s[j]
                 /\ \A p \in {q[m] : m \in DOMAIN q} :
                        Cardinality({i \in DOMAIN s : s[i] = p})
                            = Cardinality({m \in DOMAIN q : q[m] = p})

Apart(s) == (s[Len(s)] - s[1]) * 100 > MaxSpread * s[1]

Agree(q) ==
    LET s == Sorted(q)
        middle == Len(s) \div 2
    IN  IF Apart(s) THEN Silent
        ELSE IF Len(s) % 2 = 1 THEN s[middle + 1]
        ELSE (s[middle] + s[middle + 1]) \div 2

\* What market_toman can make of its sources' answers: those out of range and those
\* that fail are left out; none left is an answer of its own.
Outcomes ==
    {Agree(q) : q \in UNION {[ms -> {p \in Prices : Sane(p)}] : ms \in SUBSET Markets \ {{}}}}

WithMargin(market) == (market * (100 - Margin)) \div 100

Jumped(old, new) ==
    LET moved == IF new > old THEN new - old ELSE old - new
    IN  old > 0 /\ moved * 100 > MaxJump * old

----------------------------------------------------------------------------
\* Every coin, Usdt first.
InTurn == {s \in [1 .. Cardinality(Coins) -> Coins] : s[1] = Usdt /\ {s[i] : i \in DOMAIN s} = Coins}

OpenRound(h, force, coins) ==
    /\ round[h] = NoRound /\ acts < MaxActs
    /\ acts' = acts + 1
    /\ round' = [round EXCEPT ![h] = [at |-> "ask", force |-> force, todo |-> coins]]

\* refresh_all by run_forever: every coin in turn.
Quarterly(order) ==
    /\ OpenRound(Loop, FALSE, order)
    /\ UNCHANGED <<rate, auto, byHand, early>>

\* "Fetch the rate now", and a changed margin: forced, also while auto is off.
FetchNow(h, coins) ==
    /\ h # Loop
    /\ OpenRound(h, TRUE, coins)
    /\ byHand' = [c \in Coins |-> IF c \in {coins[i] : i \in DOMAIN coins} THEN 0 ELSE byHand[c]]
    /\ UNCHANGED <<rate, auto, early>>

\* The switch; switching on fetches a rate at once.
TurnOn(h) ==
    /\ h # Loop /\ ~auto
    /\ auto' = TRUE
    /\ \E coins \in InTurn \cup {<<Usdt>>} : OpenRound(h, TRUE, coins)
    /\ byHand' = [c \in Coins |-> 0]
    /\ UNCHANGED <<rate, early>>

TurnOff ==
    /\ auto /\ acts < MaxActs
    /\ acts' = acts + 1
    /\ auto' = FALSE
    /\ UNCHANGED <<rate, round, byHand, early>>

\* A round that will not ask any more whether it is wanted for this coin.
AtWork(h, c) ==
    /\ round[h] # NoRound
    /\ \/ round[h].force /\ \E i \in DOMAIN round[h].todo : round[h].todo[i] = c
       \/ round[h].at # "ask" /\ Head(round[h].todo) = c

\* An admin sets a rate by hand.
SetByHand ==
    /\ acts < MaxActs
    /\ acts' = acts + 1
    /\ \E c \in Coins, v \in {p \in Prices : Sane(p)} :
           /\ rate' = [rate EXCEPT ![c] = v]
           /\ byHand' = [byHand EXCEPT ![c] = IF auto THEN 0 ELSE v]
           /\ early' = [early EXCEPT ![c] = {h \in Rounds : AtWork(h, c)}]
    /\ UNCHANGED <<auto, round>>

\* The next coin of a round, or its end.
Onward(h) ==
    round' = [round EXCEPT ![h] = IF Len(@.todo) = 1 THEN NoRound
                                  ELSE [at |-> "ask", force |-> @.force, todo |-> Tail(@.todo)]]

\* Is the automatic rate on?  Asked once for every coin.
Anyway(h) == TRUE
Wanted(h) == round[h].force \/ auto

Ask(h) ==
    /\ round[h].at = "ask"
    /\ IF Wanted(h) THEN round' = [round EXCEPT ![h].at = "market"] ELSE Onward(h)
    /\ UNCHANGED <<rate, auto, byHand, early, acts>>

\* market_toman: the sources answer.  A coin no source knows is worked out from the
\* rate of Usdt that is stored, which has its own margin taken off already.
Market(h) ==
    /\ round[h].at = "market"
    /\ LET coin == Head(round[h].todo)
           anchor == IF coin # Usdt /\ rate[Usdt] > 0 /\ Sane(rate[Usdt])
                     THEN rate[Usdt] ELSE Silent
       IN  \E market \in Outcomes \cup {Silent, anchor} :
               IF market = Silent THEN Onward(h)
               ELSE round' = [round EXCEPT ![h] = [at |-> "compare", force |-> @.force,
                                                   todo |-> @.todo, new |-> WithMargin(market)]]
    /\ UNCHANGED <<rate, auto, byHand, early, acts>>

\* The rate is read: the same stays, and a jump is only reported.
Compare(h) ==
    /\ round[h].at = "compare"
    /\ LET old == rate[Head(round[h].todo)]
           new == round[h].new
       IN  IF new = old \/ (~round[h].force /\ Jumped(old, new)) THEN Onward(h)
           ELSE round' = [round EXCEPT ![h] = [at |-> "set", force |-> @.force,
                                               todo |-> @.todo, new |-> new]]
    /\ UNCHANGED <<rate, auto, byHand, early, acts>>

\* set_rate.
Store(h) ==
    /\ round[h].at = "set"
    /\ LET coin == Head(round[h].todo)
       IN  /\ rate' = [rate EXCEPT ![coin] = round[h].new]
           /\ byHand' = IF h \in early[coin] THEN [byHand EXCEPT ![coin] = 0] ELSE byHand
    /\ Onward(h)
    /\ UNCHANGED <<auto, early, acts>>

\* The process ends: what is stored stays, the rounds are gone.
Killed ==
    /\ round # [h \in Rounds |-> NoRound]
    /\ round' = [h \in Rounds |-> NoRound]
    /\ UNCHANGED <<rate, auto, byHand, early, acts>>

RateNext ==
    \/ \E order \in InTurn : Quarterly(order)
    \/ \E h \in Rounds :
          \/ \E coins \in InTurn \cup {<<c>> : c \in Coins} : FetchNow(h, coins)
          \/ TurnOn(h) \/ Ask(h) \/ Market(h) \/ Compare(h) \/ Store(h)
    \/ TurnOff \/ SetByHand \/ Killed

RateSpec == RateInit /\ [][RateNext]_money

----------------------------------------------------------------------------
\* The types of the variables.
RateTypeOK ==
    /\ rate \in [Coins -> Nat] /\ auto \in BOOLEAN
    /\ byHand \in [Coins -> Nat] /\ early \in [Coins -> SUBSET Rounds]
    /\ acts \in 0 .. MaxActs

\* A rate set by hand while the automatic one is off stays until an admin changes it,
\* switches the automatic one on or asks for the market's; only a round that had already
\* asked for that coin when it was set, or was forced, can still write over it.
ByHandKept == \A c \in Coins : byHand[c] > 0 => rate[c] = byHand[c]
=============================================================================
