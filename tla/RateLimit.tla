----------------------------- MODULE RateLimit -----------------------------
(* How many posts go out in a while (services/ratelimit.py and its callers    *)
(* in services/copier.py): the pace of one target, whose senders wait in line *)
(* for its lock; the cap of one task's hour, which refuses; and the fair use  *)
(* of one customer's day, counted in memory and started from DailyStat.  The  *)
(* windows and the count are in memory, and gone when the process is killed.  *)
EXTENDS Naturals, Sequences, FiniteSets

CONSTANTS
    Senders,    \* tasks of the event loop that send posts
    PerMinute,  \* RateLimiter.per_minute
    PerHour,    \* max_per_hour of the task
    FairUse,    \* plan.fair_use_daily
    Minute, Hour, DayLong, \* bound: their lengths on the clock
    MaxTime,    \* bound: the clock
    MaxPosts    \* bound: posts sent

\* per_minute is at least 1 and a task without a limit of its own is not counted.
ASSUME LimitAssumption ==
    /\ PerMinute \in Nat \ {0} /\ PerHour \in Nat \ {0} /\ FairUse \in Nat
    /\ Minute \in Nat /\ Hour \in Nat

VARIABLES
    clock,
    window,     \* RateLimiter._sent of the target and HourlyQuota._counts of the task
    line,       \* who waits for the target's lock, in order; its head holds it
    wakes,      \* when the head's sleep ends
    count,      \* DailyQuota: its day, whether the customer was counted, and how many
    copied,     \* DailyStat.copied of every day
    post,       \* what every sender is doing
    sentAt,     \* ghost: times let through since the last forgetting, by cap
    admitted,   \* ghost: posts let into every day
    loose,      \* ghost: days whose count began from a sum that lacked posts let in
    posts

rates == <<clock, window, line, wakes, count, copied, post, sentAt, admitted, loose, posts>>

Caps == {"target", "task"}
Span == [target |-> Minute, task |-> Hour]
Most == [target |-> PerMinute, task |-> PerHour]
Days == 0 .. MaxTime \div DayLong
Today == clock \div DayLong
Unseeded(day) == [day |-> day, seeded |-> FALSE, used |-> 0]
NoPost == [at |-> "rest"]
NoStamps == [cap \in Caps |-> <<>>]

LimitInit ==
    /\ clock = 0
    /\ window = NoStamps
    /\ line = <<>> /\ wakes = 0
    /\ count = Unseeded(0)
    /\ copied = [d \in Days |-> 0]
    /\ post = [s \in Senders |-> NoPost]
    /\ sentAt = NoStamps
    /\ admitted = [d \in Days |-> 0] /\ loose = {}
    /\ posts = 0

Goes(s, what) == post' = [post EXCEPT ![s] = what]

\* time.monotonic() and the date.
Passes ==
    /\ clock < MaxTime
    /\ clock' = clock + 1
    /\ UNCHANGED <<window, line, wakes, count, copied, post, sentAt, admitted, loose, posts>>

\* How many stamps popleft takes, one after another while the first is older than the span.
Outdated(stamps, span) ==
    CHOOSE k \in 0 .. Len(stamps) :
        /\ \A i \in 1 .. k : clock - stamps[i] > span
        /\ k < Len(stamps) => clock - stamps[k + 1] <= span

\* What is still in a window.
Fresh(stamps, span) == SubSeq(stamps, Outdated(stamps, span) + 1, Len(stamps))

\* A cap lets a post through, and notes when.
Let(cap) ==
    /\ Len(Fresh(window[cap], Span[cap])) < Most[cap]
    /\ window' = [window EXCEPT ![cap] = Append(Fresh(@, Span[cap]), clock)]
    /\ sentAt' = [sentAt EXCEPT ![cap] = Append(@, clock)]

Full(cap) ==
    /\ Len(Fresh(window[cap], Span[cap])) >= Most[cap]
    /\ window' = [window EXCEPT ![cap] = Fresh(@, Span[cap])]
    /\ UNCHANGED sentAt

----------------------------------------------------------------------------
\* HourlyQuota.allow: the post goes on to the day's count, or it is skipped.
NewPost(s) ==
    /\ post[s] = NoPost /\ posts < MaxPosts
    /\ posts' = posts + 1
    /\ \/ Let("task") /\ Goes(s, [at |-> "day"])
       \/ Full("task") /\ UNCHANGED post
    /\ UNCHANGED <<clock, line, wakes, count, copied, admitted, loose>>

\* HourlyQuota.forget, when the task is paused.
Paused ==
    /\ window["task"] # <<>>
    /\ window' = [window EXCEPT !["task"] = <<>>]
    /\ sentAt' = [sentAt EXCEPT !["task"] = <<>>]
    /\ UNCHANGED <<clock, line, wakes, count, copied, post, admitted, loose, posts>>

\* DailyQuota._roll: another day than the memory's forgets what was counted.
Rolled(day) == IF count.day = day THEN count ELSE Unseeded(day)

\* DailyQuota.allow.
Allow(s, rolled, day) ==
    IF rolled.used < FairUse
    THEN /\ count' = [rolled EXCEPT !.used = @ + 1]
         /\ admitted' = [admitted EXCEPT ![day] = @ + 1]
         /\ Goes(s, [at |-> "wait"])
    ELSE count' = rolled /\ UNCHANGED admitted /\ Goes(s, NoPost)

\* _message_quota_ok: is the day seeded?  Then the post is counted at once.
Look(s) ==
    /\ post[s].at = "day"
    /\ LET day == Today
       IN  IF ~Rolled(day).seeded
           THEN /\ count' = Rolled(day)
                /\ Goes(s, [at |-> "query", day |-> day])
                /\ UNCHANGED admitted
           ELSE Allow(s, Rolled(day), day)
    /\ UNCHANGED <<clock, window, line, wakes, copied, sentAt, loose, posts>>

\* The sum of DailyStat.
Query(s) ==
    /\ post[s].at = "query"
    /\ Goes(s, [at |-> "seed", day |-> post[s].day, spent |-> copied[post[s].day]])
    /\ UNCHANGED <<clock, window, line, wakes, count, copied, sentAt, admitted, loose, posts>>

\* The count an unseeded day starts with: setdefault leaves one that is there.
Replaced(kept, spent) == [kept EXCEPT !.seeded = TRUE, !.used = spent]
Seeded(kept, spent) == IF kept.seeded THEN kept ELSE Replaced(kept, spent)

\* seed, and allow with no await between.
Seed(s) ==
    /\ post[s].at = "seed"
    /\ LET day == post[s].day
       IN  /\ Allow(s, Seeded(Rolled(day), post[s].spent), day)
           /\ loose' = IF ~Rolled(day).seeded /\ post[s].spent < admitted[day]
                       THEN loose \cup {day} ELSE loose
    /\ UNCHANGED <<clock, window, line, wakes, copied, sentAt, posts>>

\* acquire: the lock is asked for.
Acquire(s) ==
    /\ post[s].at = "wait"
    /\ Goes(s, [at |-> "line"])
    /\ line' = Append(line, s)
    /\ UNCHANGED <<clock, window, wakes, count, copied, sentAt, admitted, loose, posts>>

\* Who holds the lock.
Holder == {line[i] : i \in {1} \cap DOMAIN line}

\* The loop of acquire, by who holds the lock and does not sleep: the window has
\* room, or the holder sleeps until its first stamp has left it.
Try(s) ==
    /\ s \in Holder /\ clock >= wakes
    /\ \/ /\ Let("target")
          /\ line' = SelectSeq(line, LAMBDA t : t # s)
          /\ wakes' = 0
          /\ Goes(s, [at |-> "send"])
       \/ /\ Full("target")
          /\ wakes' = Fresh(window["target"], Minute)[1] + Minute + 1
          /\ UNCHANGED <<line, post>>
    /\ UNCHANGED <<clock, count, copied, admitted, loose, posts>>

\* The post was sent and counted; or it was not, or _bump_daily lost it to another
\* one that had read the same row, and DailyStat does not know of it.
Sent(s) ==
    /\ post[s].at = "send"
    /\ Goes(s, NoPost)
    /\ \E counted \in 0 .. 1 : copied' = [copied EXCEPT ![Today] = @ + counted]
    /\ UNCHANGED <<clock, window, line, wakes, count, sentAt, admitted, loose, posts>>

\* A queue of its user is stopped while the sender waits or sleeps: the lock goes on.
Cancelled(s) ==
    /\ post[s].at \in {"line", "wait"}
    /\ Goes(s, NoPost)
    /\ line' = SelectSeq(line, LAMBDA t : t # s)
    /\ wakes' = IF s \in Holder THEN 0 ELSE wakes
    /\ UNCHANGED <<clock, window, count, copied, sentAt, admitted, loose, posts>>

\* The process ends and starts again.
Restarted ==
    /\ posts > 0
    /\ window' = NoStamps /\ sentAt' = NoStamps
    /\ line' = <<>> /\ wakes' = 0
    /\ count' = Unseeded(Today)
    /\ post' = [s \in Senders |-> NoPost]
    /\ UNCHANGED <<clock, copied, admitted, loose, posts>>

LimitNext ==
    \/ \E s \in Senders :
          NewPost(s) \/ Look(s) \/ Query(s) \/ Seed(s) \/ Acquire(s) \/ Try(s)
          \/ Sent(s) \/ Cancelled(s)
    \/ Passes \/ Paused \/ Restarted

LimitSpec == LimitInit /\ [][LimitNext]_rates

----------------------------------------------------------------------------
\* The types of the variables.
LimitTypeOK ==
    /\ clock \in 0 .. MaxTime /\ posts \in 0 .. MaxPosts
    /\ window \in [Caps -> Seq(Nat)] /\ sentAt \in [Caps -> Seq(Nat)]
    /\ line \in Seq(Senders) /\ wakes \in Nat
    /\ count \in [day : Days, seeded : BOOLEAN, used : Nat]
    /\ copied \in [Days -> Nat] /\ admitted \in [Days -> Nat] /\ loose \subseteq Days

\* However its senders come, wait, are cancelled and wake: no span of time sees more
\* posts to a target, or of a task, than its cap, as long as the memory is not lost.
SteadyPace ==
    \A cap \in Caps :
        \A i \in DOMAIN sentAt[cap] :
            i > Most[cap] => sentAt[cap][i] - sentAt[cap][i - Most[cap]] > Span[cap]

\* No day lets in more posts than its fair use, though its count is seeded after an
\* await: it can be passed only when the count was forgotten (by a restart, or by a
\* handler of another day) and began again from a DailyStat that lacked posts let in.
FairDay == \A d \in Days : admitted[d] <= FairUse \/ d \in loose

\* Both: no window and no day lets through more than it may.
PaceKept == SteadyPace /\ FairDay
=============================================================================
