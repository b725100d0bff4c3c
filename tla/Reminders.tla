----------------------------- MODULE Reminders -----------------------------
(* Notices about a subscription that ends: reminders.py warns the customer   *)
(* before it does and asks afterwards why he left, agentnudge.py tells the    *)
(* reseller whose customer he is.  Each is a coroutine that sleeps, reads the *)
(* tables and sends one message after another, while subscriptions are bought *)
(* and moved.  A row of reminder_state keeps a notice from being sent again,  *)
(* until maintenance.py forgets it; the time of the next round is in memory,  *)
(* so a restart puts it off.  Hours and days are points of the clock.         *)
EXTENDS Integers, Sequences, FiniteSets, FiniteSetsExt

CONSTANTS
    Customers,
    Sold,         \* the customers some reseller owns (users.owned_by)
    SellerOf,     \* whose they are
    Round,        \* reminders.CHECK_INTERVAL
    SellerRound,  \* agentnudge.CHECK_INTERVAL
    DayHours,     \* a day
    ChurnAfter, ChurnBefore, \* CHURN_AFTER_HOURS, CHURN_BEFORE_HOURS
    Warning,      \* EXPIRY_WARNING_DAYS
    Grace,        \* EXPIRED_GRACE_DAYS
    Keep,         \* the age at which prune_reminder_state forgets a row
    Terms,        \* lengths of the plans that are sold
    Shifts,       \* by how much an admin moves the end of a subscription
    MaxHour,      \* bound: the clock
    MaxSubs,    \* bound: subscriptions
    SaleHours,    \* bound: the hours at which something is bought
    MaxTroubles   \* bound: ends that are moved, messages to resellers that
                  \* fail, and kills of the process

ASSUME RemindersAssumption ==
    /\ {Round, SellerRound, DayHours} \subseteq Nat \ {0}
    /\ {ChurnAfter, ChurnBefore, Warning, Grace, Keep} \subseteq Nat
    /\ Terms \subseteq Nat /\ Shifts \subseteq Int
    /\ {MaxHour, MaxSubs, MaxTroubles} \subseteq Nat

\* A round fits into each time in which a customer is told, and one more than can fail into
\* those of his reseller (in the code 1 h into 24 h and into 6 .. 96 h, 6 h into 7 d and 48 h).
ASSUME WindowsAssumption ==
    /\ Round + 2 <= DayHours
    /\ ChurnAfter + Round + 1 <= ChurnBefore
    /\ (MaxTroubles + 1) * (SellerRound + 1) <= Warning
    /\ (MaxTroubles + 1) * (SellerRound + 1) + 1 <= Grace

VARIABLES
    hour,
    subs,       \* subscriptions by id
    noted,        \* reminder_state: when each notice was marked, or Never
    turn,       \* both coroutines' steps and local variables
    troubles,
    told,         \* ghost: notices that were sent
    unmarked,     \* ghost: those whose mark was forgotten, or never made for a kill
    again,        \* ghost: notices sent twice
    upSince       \* ghost: when the process started

reminding == <<hour, subs, noted, turn, troubles, told, unmarked, again, upSince>>

Never == -1
Expiry == [expiry_3 |-> 3, expiry_1 |-> 1]   \* THRESHOLDS, by the kind of their notice
Warnings == DOMAIN Expiry
NoticeKinds == Warnings \cup {"churn_ask", "agent_expiry_soon", "agent_expired"}
Notices == NoticeKinds \X (1 .. MaxSubs)
Loops == {"reminders", "agentnudge"}
Interval == [reminders |-> Round, agentnudge |-> SellerRound]

About == [reminders |-> Warnings \cup {"churn_ask"},
          agentnudge |-> {"agent_expiry_soon", "agent_expired"}]

Asleep(l) == [stage |-> 0, at |-> hour + Interval[l], todo |-> {}, doing |-> {}]

\* Neither writes a row the other reads, so a behaviour is about one of them.
RemindInit ==
    /\ hour = 0
    /\ subs = <<>>
    /\ noted = [n \in Notices |-> Never]
    /\ \E L \in {{l} : l \in Loops} : turn = [l \in L |-> Asleep(l)]
    /\ troubles = 0
    /\ told = {} /\ unmarked = {} /\ again = {}
    /\ upSince = 0

-----------------------------------------------------------------------------
(* Subscriptions.                                                          *)

SubIds == DOMAIN subs
Running == {i \in SubIds : subs[i].end > hour}
OfCustomer(c, S) == {i \in S : subs[i].who = c}
\* The one that ends last, the first of several.
EndsLast(S) == CHOOSE i \in S : \A j \in S : subs[j].end < subs[i].end \/
                                         (subs[j].end = subs[i].end /\ i <= j)
Latest(S) == {EndsLast(OfCustomer(c, S)) : c \in {subs[i].who : i \in S}}

\* grant: it begins where the current one ends.
Buys(c, term) ==
    LET current == OfCustomer(c, Running)
        start == IF current = {} THEN hour ELSE subs[EndsLast(current)].end
    IN  /\ Len(subs) < MaxSubs /\ hour \in SaleHours
        /\ subs' = Append(subs, [who |-> c, end |-> start + term, set |-> hour])
        /\ UNCHANGED <<hour, noted, turn, troubles, told, unmarked, again, upSince>>

\* adjust_days: the end of the one that runs is moved, to now at the earliest.
Moves(i, n) ==
    /\ troubles < MaxTroubles
    /\ i \in Latest(Running)
    /\ subs' = [subs EXCEPT ![i].end = Max({@ + n, hour}), ![i].set = hour]
    /\ troubles' = troubles + 1
    /\ UNCHANGED <<hour, noted, turn, told, unmarked, again, upSince>>

-----------------------------------------------------------------------------
(* The rounds.  A round has two stages; what is to be sent in a stage is read *)
(* when it begins, and sent in groups: one notice to a customer, all notices  *)
(* of one kind to a reseller.                                                 *)

DaysLeft(i) == (subs[i].end - hour) \div DayHours
Warned == {n \in Warnings \X Latest(Running) : DaysLeft(n[2]) = Expiry[n[1]] - 1}

Gone(i) == hour - subs[i].end
Left == {i \in SubIds : OfCustomer(subs[i].who, Running) = {} /\ Gone(i) \in ChurnAfter .. ChurnBefore}

HasMark(n) == noted[n] # Never
MarkedOrNot(k, S) == {k} \X S
Unmarked(k, S) == {n \in {k} \X S : ~HasMark(n)}
SellerTold(n) == SellerOf[subs[n[2]].who]
BySeller(S) == {{n \in S : SellerTold(n) = s} : s \in {SellerTold(n) : n \in S}}
Owned == {i \in Latest(SubIds) : subs[i].who \in Sold}
EndsSoon == {i \in Owned : subs[i].end - hour \in 1 .. Warning}
JustEnded == {i \in Owned : Gone(i) \in 0 .. Grace - 1}

\* What a stage of a round is about.
Stage(l, stage) ==
    CASE l = "reminders" /\ stage = 1 -> {{n} : n \in Warned}
      [] l = "reminders" /\ stage = 2 -> {{n} : n \in {"churn_ask"} \X Left}
      [] l = "agentnudge" /\ stage = 1 -> BySeller(Unmarked("agent_expiry_soon", EndsSoon))
      [] l = "agentnudge" /\ stage = 2 -> BySeller(Unmarked("agent_expired", JustEnded))

Advances(l, what) == turn' = [turn EXCEPT ![l] = what]

Begins(l) ==
    /\ turn[l].stage = 0 /\ turn[l].at <= hour
    /\ Advances(l, [turn[l] EXCEPT !.stage = 1, !.at = hour, !.todo = Stage(l, 1)])
    /\ UNCHANGED <<hour, subs, noted, troubles, told, unmarked, again, upSince>>

GoesOn(l) ==
    /\ turn[l].stage # 0 /\ turn[l].todo = {} /\ turn[l].doing = {}
    /\ Advances(l, IF turn[l].stage = 1 THEN [turn[l] EXCEPT !.stage = 2, !.todo = Stage(l, 2)]
                  ELSE Asleep(l))
    /\ UNCHANGED <<hour, subs, noted, troubles, told, unmarked, again, upSince>>

AlreadySent(l, group) == l = "reminders" /\ \E n \in group : HasMark(n)

Passed(l, group) ==
    /\ turn[l].doing = {} /\ group \in turn[l].todo
    /\ AlreadySent(l, group)
    /\ Advances(l, [turn[l] EXCEPT !.todo = @ \ {group}])
    /\ UNCHANGED <<hour, subs, noted, troubles, told, unmarked, again, upSince>>

\* To a customer a message counts as sent although it failed.
Tells(l, group) ==
    /\ turn[l].doing = {} /\ group \in turn[l].todo
    /\ ~AlreadySent(l, group)
    /\ Advances(l, [turn[l] EXCEPT !.todo = @ \ {group}, !.doing = group])
    /\ told' = told \cup group
    /\ again' = again \cup ((group \cap told) \ unmarked)
    /\ unmarked' = unmarked \ group
    /\ UNCHANGED <<hour, subs, noted, troubles, upSince>>

\* To a reseller it does not, and the next round tries again.
IsLost(l, group) ==
    /\ troubles < MaxTroubles
    /\ turn[l].doing = {} /\ group \in turn[l].todo
    /\ Advances(l, [turn[l] EXCEPT !.todo = @ \ {group}])
    /\ troubles' = troubles + 1
    /\ UNCHANGED <<hour, subs, noted, told, unmarked, again, upSince>>

WritesMarks(l) ==
    /\ turn[l].doing # {}
    /\ noted' = [n \in Notices |-> IF n \in turn[l].doing THEN hour ELSE noted[n]]
    /\ Advances(l, [turn[l] EXCEPT !.doing = {}])
    /\ UNCHANGED <<hour, subs, troubles, told, unmarked, again, upSince>>

-----------------------------------------------------------------------------
\* prune_reminder_state.
Stale == {n \in Notices : HasMark(n) /\ hour - noted[n] > Keep}
Prunes ==
    /\ Stale # {}
    /\ noted' = [n \in Notices |-> IF n \in Stale THEN Never ELSE noted[n]]
    /\ unmarked' = unmarked \cup Stale
    /\ UNCHANGED <<hour, subs, turn, troubles, told, again, upSince>>

\* bound: a coroutine that is due begins, and a round ends within the hour after
\* the one it began in.
HourPasses ==
    /\ hour < MaxHour
    /\ \A l \in DOMAIN turn : IF turn[l].stage = 0 THEN turn[l].at > hour ELSE turn[l].at = hour
    /\ hour' = hour + 1
    /\ UNCHANGED <<subs, noted, turn, troubles, told, unmarked, again, upSince>>

Restarts ==
    /\ troubles < MaxTroubles
    /\ troubles' = troubles + 1
    /\ turn' = [l \in DOMAIN turn |-> Asleep(l)]
    /\ unmarked' = unmarked \cup UNION {turn[l].doing : l \in DOMAIN turn}
    /\ upSince' = hour
    /\ UNCHANGED <<hour, subs, noted, told, again>>

RemindNext ==
    \/ \E c \in Customers, t \in Terms : Buys(c, t)
    \/ \E i \in SubIds, n \in Shifts : Moves(i, n)
    \/ \E l \in DOMAIN turn : Begins(l) \/ GoesOn(l) \/ WritesMarks(l)
    \/ \E l \in DOMAIN turn : \E g \in turn[l].todo : Passed(l, g) \/ Tells(l, g)
    \/ \E l \in DOMAIN turn \ {"reminders"} : \E g \in turn[l].todo : IsLost(l, g)
    \/ Prunes \/ HourPasses \/ Restarts

RemindSpec == RemindInit /\ [][RemindNext]_reminding

-----------------------------------------------------------------------------
RemindTypeOK ==
    /\ hour \in 0 .. MaxHour
    /\ subs \in Seq([who : Customers, end : Nat, set : 0 .. MaxHour]) /\ Len(subs) <= MaxSubs
    /\ noted \in [Notices -> 0 .. MaxHour \cup {Never}]
    /\ \E l \in Loops :
         turn \in [{l} -> [stage : 0 .. 2, at : Nat,
                           todo : SUBSET SUBSET Notices, doing : SUBSET Notices]]
    /\ troubles \in 0 .. MaxTroubles
    /\ told \subseteq Notices /\ unmarked \subseteq Notices /\ again \subseteq Notices
    /\ upSince \in 0 .. MaxHour

\* A notice is not sent twice in the time its mark is kept, unless the process is
\* killed between the message and the mark (the table reminder_state).
ToldOnce == again = {}

\* The hours in which a notice is due, by what the end of its subscription is now.
Due(n) ==
    LET e == subs[n[2]].end
    IN  CASE n[1] \in Warnings -> e - Expiry[n[1]] * DayHours + 1 ..
                                       Min({e - (Expiry[n[1]] - 1) * DayHours, e - 1})
          [] n[1] = "churn_ask" -> e + ChurnAfter .. e + ChurnBefore
          [] n[1] = "agent_expiry_soon" -> e - Warning .. e - 1
          [] n[1] = "agent_expired" -> e .. e + Grace - 1

\* Since before those hours nothing was bought or moved for this customer, this is his
\* last subscription, and the process was not restarted.
Undisturbed(n) ==
    LET i == n[2]
        begin == Min(Due(n))
    IN  /\ upSince < begin
        /\ \A j \in OfCustomer(subs[i].who, SubIds) : subs[j].set < begin
        /\ i = EndsLast(OfCustomer(subs[i].who, SubIds))

\* Whoever has to be told is told before it is too late: the customer in each window
\* before the end and in the one after it, his reseller a week before and when it ended,
\* although a message to the reseller may fail.
ToldInTime ==
    \A n \in Notices :
        /\ n[2] \in SubIds /\ \E l \in DOMAIN turn : n[1] \in About[l]
        /\ n[1] \in About.agentnudge => subs[n[2]].who \in Sold
        /\ hour > Max(Due(n)) + 1 /\ Undisturbed(n)
        => n \in told

\* Both: each notice comes, and once.
ToldOnceInTime == ToldOnce /\ ToldInTime
=============================================================================
