----------------------------- MODULE SimpleMode -----------------------------
(***************************************************************************)
(* Simple mode: customers without an account of their own.  A pool of      *)
(* service accounts (services/pool.py) reads the public sources: each      *)
(* source is leased to one account, and the lease carries the mark of what *)
(* was seen.  One poller (services/pubpoll.py) walks over the sources and  *)
(* hands fresh posts to Copier.process; other coroutines (reader.for_task, *)
(* called by retries, releases and checks) lease as well.  An admin        *)
(* switches accounts, drops them and logs them in (admin_pool, svclogin).  *)
(*                                                                         *)
(* A step is the code between two awaits another coroutine could use.  A   *)
(* table is account, lease, on, delivered; memory is client and proc.      *)
(***************************************************************************)
EXTENDS Integers, FiniteSets

CONSTANTS
    Accounts,    \* our own Telegram accounts
    Sources,     \* public channels
    Tasks,       \* simple tasks
    SourceOf,    \* the channel each of them copies
    Poller,      \* the coroutine of PublicPoller.run_forever
    Readers,     \* coroutines that call reader.for_task
    NoOne,
    MaxPost,     \* bound: posts per channel
    Lookback,    \* LOOKBACK of the poller
    MaxTrouble   \* bound: floods, dead sessions, switches, crashes

ASSUME SourceAssumption == SourceOf \in [Tasks -> Sources]
ASSUME PollerAssumption == Poller \notin Readers
ASSUME NoOneAssumption == NoOne \notin Accounts \cup Sources
ASSUME NumberAssumption == /\ MaxPost \in Nat /\ Lookback \in Nat \ {0}
                           /\ MaxTrouble \in Nat

VARIABLES
    account,    \* service_accounts
    key,        \* Telegram: is the session of the account still valid
    client,     \* pool._clients: none, or connected with a good or dead key
    lease,      \* source_leases: the account and the mark of each source
    on,         \* enabled tasks
    top,        \* Telegram: the newest post of each channel
    delivered,  \* MessageMap rows
    copies,     \* Telegram: how often a task's destination shows a post
    proc,       \* where each coroutine stands, and its locals
    owed,       \* ghost: (task, post) pairs published under a mark, for a task
                \* of the round, that nobody has dealt with
    unrecorded, \* ghost: sends whose row a crash has lost
    trouble

vars == <<account, key, client, lease, on, top, delivered, copies, proc,
          owed, unrecorded, trouble>>
world == <<on, top, delivered, copies, unrecorded, trouble>>

Coroutines == Readers \cup {Poller}
Posts == 1 .. MaxPost
Pairs == Tasks \X Posts
Ids == {0, 1}     \* a row id of SQLite: that of the last row deleted, or not

NoRow == [exists |-> FALSE, enabled |-> FALSE, state |-> "ok"]
NoLease == [by |-> NoOne, seen |-> 0, id |-> 0]
Idle == [pc |-> "idle", src |-> NoOne, by |-> NoOne, id |-> 0, todo |-> {},
         jobs |-> {}, seen |-> 0, newest |-> 0, left |-> {}, sent |-> {}]

Init ==
    /\ account = [a \in Accounts |->
                    [exists |-> TRUE, enabled |-> TRUE, state |-> "ok"]]
    /\ key = [a \in Accounts |-> "good"]
    /\ client = [a \in Accounts |-> "none"]
    /\ lease = [s \in Sources |-> NoLease]
    /\ on = Tasks
    /\ top = [s \in Sources |-> 0]
    /\ delivered = {}
    /\ copies = [x \in Pairs |-> 0]
    /\ proc = [c \in Coroutines |-> Idle]
    /\ owed = {}
    /\ unrecorded = [x \in Pairs |-> 0]
    /\ trouble = 0

-----------------------------------------------------------------------------
(* Questions asked of the tables.                                          *)

Leased(s) == lease[s].by # NoOne
\* quiet_until is set together with the state "flood", which only a new login
\* takes back: it decides nothing.
Usable(a) == account[a].enabled /\ account[a].state = "ok"       \* _usable, lease
Wanted(tasks) == {SourceOf[t] : t \in tasks}
JobsOf(s) == {t \in proc[Poller].jobs : SourceOf[t] = s}
PairsOf(s) == {x \in Pairs : SourceOf[x[1]] = s}

At(c, step) == proc[c].pc = step
Goto(c, step) == proc' = [proc EXCEPT ![c].pc = step]
\* What a coroutine goes back to: the poller has the rest of its round.
Rest(c) == IF c = Poller /\ proc[c].todo # {}
           THEN [Idle EXCEPT !.pc = "round", !.todo = proc[c].todo, !.jobs = proc[c].jobs]
           ELSE Idle
Return(c) == proc' = [proc EXCEPT ![c] = Rest(c)]

\* The lease goes, and with it the mark: what was published under it and not
\* yet read will be below the next mark.
Forget(sources) ==
    /\ lease' = [s \in Sources |-> IF s \in sources THEN NoLease ELSE lease[s]]
    /\ owed' = owed \ UNION {PairsOf(s) : s \in sources}

-----------------------------------------------------------------------------
(* The world.                                                              *)

Publish(s) ==
    /\ top[s] < MaxPost
    /\ top' = [top EXCEPT ![s] = @ + 1]
    /\ owed' = IF lease[s].seen > 0
               THEN owed \cup {x \in PairsOf(s) :
                                 /\ x[1] \in on /\ x[2] = top[s] + 1
                                 /\ At(Poller, "idle") \/ x[1] \in proc[Poller].jobs}
               ELSE owed
    /\ UNCHANGED <<account, key, client, lease, on, delivered, copies, proc,
                   unrecorded, trouble>>

Happens == trouble < MaxTrouble /\ trouble' = trouble + 1

\* The owner switches a task off or on.
Switch(t) ==
    /\ Happens
    /\ on' = IF t \in on THEN on \ {t} ELSE on \cup {t}
    /\ owed' = {x \in owed : x[1] # t}
    /\ UNCHANGED <<account, key, client, lease, top, delivered, copies, proc,
                   unrecorded>>

\* Telegram ends a session.  A client that is connected stays so.
SessionDies(a) ==
    /\ Happens
    /\ key[a] = "good"
    /\ key' = [key EXCEPT ![a] = "dead"]
    /\ client' = [client EXCEPT ![a] = IF @ = "none" THEN "none" ELSE "dead"]
    /\ UNCHANGED <<account, lease, on, top, delivered, copies, proc, owed,
                   unrecorded>>

Disconnected(a) ==
    /\ Happens
    /\ client[a] # "none"
    /\ client' = [client EXCEPT ![a] = "none"]
    /\ UNCHANGED <<account, key, lease, on, top, delivered, copies, proc, owed,
                   unrecorded>>

\* The admin's button: on and off.  A banned account stays off.
Toggle(a) ==
    /\ Happens
    /\ account[a].exists
    /\ account' = [account EXCEPT ![a].enabled = ~@ /\ account[a].state # "banned"]
    /\ UNCHANGED <<key, client, lease, on, top, delivered, copies, proc, owed,
                   unrecorded>>

\* The admin drops an account: banned first, which frees its sources, and
\* then deleted.  Its client stays in the cache.
Drop(a) ==
    /\ Happens
    /\ account[a].exists
    /\ account' = [account EXCEPT ![a] = NoRow]
    /\ Forget({s \in Sources : lease[s].by = a})
    /\ UNCHANGED <<key, client, on, top, delivered, copies, proc,
                   unrecorded>>

\* The QR code is scanned: a row for a new account, a new session for an old
\* one, whatever had become of it.
Login(a) ==
    /\ Happens
    /\ account' = [account EXCEPT ![a] = [exists |-> TRUE, enabled |-> TRUE,
                                          state |-> "ok"]]
    /\ key' = [key EXCEPT ![a] = "good"]
    /\ UNCHANGED <<client, lease, on, top, delivered, copies, proc, owed,
                   unrecorded>>

-----------------------------------------------------------------------------
(* pool.lease and pool.client_for, for whoever calls them.                 *)

\* run_once lists the tasks once, then walks over their sources.
Round ==
    /\ At(Poller, "idle")
    /\ on # {}
    /\ proc' = [proc EXCEPT ![Poller] = [Idle EXCEPT !.pc = "round", !.jobs = on,
                                                     !.todo = Wanted(on)]]
    /\ UNCHANGED <<account, key, client, lease, owed, world>>

NextSource ==
    /\ At(Poller, "round")
    /\ \E s \in proc[Poller].todo :
        proc' = [proc EXCEPT ![Poller].pc = "find", ![Poller].src = s,
                             ![Poller].todo = @ \ {s}]
    /\ UNCHANGED <<account, key, client, lease, owed, world>>

\* reader.for_task: a task without a source id takes any usable account.
Ask(c) ==
    /\ c \in Readers
    /\ At(c, "idle")
    /\ \/ \E s \in Sources : proc' = [proc EXCEPT ![c].pc = "find", ![c].src = s]
       \/ \E a \in Accounts : /\ Usable(a)
                              /\ proc' = [proc EXCEPT ![c].pc = "client", ![c].by = a]
    /\ UNCHANGED <<account, key, client, lease, owed, world>>

ReusableAlways(a) == account[a].exists
Reusable(a) == Usable(a)

\* The lease stays where it is while its account can be used.
Find(c) ==
    /\ At(c, "find")
    /\ LET held == lease[proc[c].src]
       IN  IF held.by = NoOne THEN Goto(c, "choose")
           ELSE proc' = IF Reusable(held.by)
                        THEN [proc EXCEPT ![c].pc = "client", ![c].by = held.by]
                        ELSE [proc EXCEPT ![c].pc = "drop", ![c].id = held.id,
                                ![c].by = IF account[held.by].exists THEN held.by ELSE NoOne]
    /\ UNCHANGED <<account, key, client, lease, owed, world>>

\* Otherwise it is deleted by its id, and its account is counted down: that
\* raises when the account has been deleted since.
DropLease(c) ==
    /\ At(c, "drop")
    /\ \/ /\ proc[c].by \in {a \in Accounts : ~account[a].exists}
          /\ Return(c)
          /\ UNCHANGED <<lease, owed>>
       \/ /\ proc' = [proc EXCEPT ![c].pc = "choose", ![c].by = NoOne, ![c].id = 0]
          /\ LET s == proc[c].src
             IN  Forget({x \in {s} : Leased(x) /\ lease[x].id = proc[c].id})
    /\ UNCHANGED <<account, key, client, world>>

\* The least loaded usable account; which one that is, is left open.
Choose(c) ==
    /\ At(c, "choose")
    /\ \/ /\ \A a \in Accounts : ~Usable(a)
          /\ Return(c)
       \/ \E a \in Accounts :
            /\ Usable(a)
            /\ proc' = [proc EXCEPT ![c].pc = "insert", ![c].by = a]
    /\ UNCHANGED <<account, key, client, lease, owed, world>>

\* The key is unique: whoever comes second fails.
InsertLease(c) ==
    /\ At(c, "insert")
    /\ LET s == proc[c].src
       IN  IF Leased(s) THEN Return(c) /\ UNCHANGED lease
           ELSE /\ \E i \in Ids :
                    lease' = [lease EXCEPT ![s] = [by |-> proc[c].by, seen |-> 0, id |-> i]]
                /\ Goto(c, "client")
    /\ UNCHANGED <<account, key, client, owed, world>>

HasClient(c) == IF c = Poller THEN Goto(c, "seen") ELSE Return(c)

\* A connected client is taken as it is; a new one must be authorized.
Connect(c) ==
    /\ At(c, "client")
    /\ LET a == proc[c].by
       IN  \/ client[a] # "none" /\ HasClient(c) /\ UNCHANGED client
           \/ /\ client[a] = "none" /\ key[a] = "good"
              /\ client' = [client EXCEPT ![a] = "good"]
              /\ HasClient(c)
           \/ /\ client[a] = "none" /\ key[a] = "dead"
              /\ Goto(c, "ban")
              /\ UNCHANGED client
    /\ UNCHANGED <<account, key, lease, owed, world>>

\* mark_banned: all its sources are free for another account.
Ban(c) ==
    /\ At(c, "ban")
    /\ LET a == proc[c].by
       IN  /\ account' = IF account[a].exists
                         THEN [account EXCEPT ![a].enabled = FALSE, ![a].state = "banned"]
                         ELSE account
           /\ Forget({s \in Sources : lease[s].by = a})
    /\ Return(c)
    /\ UNCHANGED <<key, client, world>>

-----------------------------------------------------------------------------
(* PublicPoller._poll.                                                     *)

Src == proc[Poller].src
Mark == IF Leased(Src) THEN lease[Src].seen ELSE 0

ReadMark ==
    /\ At(Poller, "seen")
    /\ proc' = [proc EXCEPT ![Poller].pc = "read", ![Poller].seen = Mark]
    /\ UNCHANGED <<account, key, client, lease, owed, world>>

\* The newest LOOKBACK posts, and those of them above the mark.
Window(s) == {p \in Posts : p <= top[s] /\ p > top[s] - Lookback}
Fresh == {p \in Window(Src) : p > proc[Poller].seen}
Missed(s, seen) == {p \in Posts : p > seen /\ p <= top[s] - Lookback}

\* Telegram shows the channel.  Nothing is fresh; or the source is seen for
\* the first time, and only its mark is set; or every fresh post goes to every
\* task of the round.  What does not fit into LOOKBACK is never seen again.
ReadSource ==
    /\ At(Poller, "read")
    /\ client[proc[Poller].by] = "good"
    /\ LET p == proc[Poller]
       IN  IF Fresh = {} THEN Return(Poller) /\ UNCHANGED owed
           ELSE /\ proc' = [proc EXCEPT ![Poller].newest = top[Src],
                              ![Poller].by = NoOne,
                              ![Poller].pc = IF p.seen = 0 THEN "remember" ELSE "offer",
                              ![Poller].left = IF p.seen = 0 THEN {}
                                               ELSE JobsOf(Src) \X Fresh]
                /\ owed' = {x \in owed : ~(SourceOf[x[1]] = Src /\ x[2] \in Missed(Src, p.seen))}
    /\ UNCHANGED <<account, key, client, lease, world>>

\* The channel cannot be resolved, or the read fails for another reason.
ReadFails ==
    /\ At(Poller, "read")
    /\ client[proc[Poller].by] # "dead"
    /\ Return(Poller)
    /\ UNCHANGED <<account, key, client, lease, owed, world>>

\* The session is dead: the account is banned, whoever logged it in since.
ReadDead ==
    /\ At(Poller, "read")
    /\ client[proc[Poller].by] = "dead"
    /\ Goto(Poller, "ban")
    /\ UNCHANGED <<account, key, client, lease, owed, world>>

\* FloodWaitError, and mark_flood.
ReadFlooded ==
    /\ At(Poller, "read")
    /\ client[proc[Poller].by] = "good"
    /\ Happens
    /\ Goto(Poller, "flood")
    /\ UNCHANGED <<account, key, client, lease, on, top, delivered, copies,
                   owed, unrecorded>>

MarkFlood ==
    /\ At(Poller, "flood")
    /\ LET a == proc[Poller].by
       IN  account' = IF account[a].exists
                      THEN [account EXCEPT ![a].state = "flood"]
                      ELSE account
    /\ Return(Poller)
    /\ UNCHANGED <<key, client, lease, owed, world>>

\* Oldest post first; of its tasks, any.
Oldest == {x \in proc[Poller].left : \A y \in proc[Poller].left : x[2] <= y[2]}
Done(x) == /\ owed' = owed \ {x}
           /\ proc' = [proc EXCEPT ![Poller].pc = "offer",
                                   ![Poller].left = @ \ {x}, ![Poller].sent = {}]

AlreadySent(x) == x \in delivered

\* Copier.process: the post arrives, or it is held, filtered, queued for a
\* retry, or an exception leaves process and is logged: the loop goes on.
Offer ==
    /\ At(Poller, "offer")
    /\ \E x \in Oldest :
        \/ Done(x) /\ UNCHANGED copies
        \/ /\ ~AlreadySent(x)
           /\ x[1] \in on
           /\ copies' = [copies EXCEPT ![x] = @ + 1]
           /\ proc' = [proc EXCEPT ![Poller].pc = "record", ![Poller].sent = {x}]
           /\ UNCHANGED owed
    /\ UNCHANGED <<account, key, client, lease, on, top, delivered,
                   unrecorded, trouble>>

Record ==
    /\ At(Poller, "record")
    /\ \E x \in proc[Poller].sent : Done(x)
    /\ delivered' = delivered \cup proc[Poller].sent
    /\ UNCHANGED <<account, key, client, lease, on, top, copies,
                   unrecorded, trouble>>

RoundBroken ==
    /\ At(Poller, "offer")
    /\ Goto(Poller, "remember")
    /\ UNCHANGED <<account, key, client, lease, owed, world>>

\* All offered.  The mark moves, whatever became of them.
RoundOver ==
    /\ At(Poller, "offer")
    /\ proc[Poller].left = {}
    /\ Goto(Poller, "remember")
    /\ UNCHANGED <<account, key, client, lease, owed, world>>

NewMark == proc[Poller].newest

\* _remember: the mark of the lease there is now, if there is one.
Remember ==
    /\ At(Poller, "remember")
    /\ lease' = IF Leased(Src) /\ NewMark > lease[Src].seen
                THEN [lease EXCEPT ![Src].seen = NewMark] ELSE lease
    /\ Return(Poller)
    /\ UNCHANGED <<account, key, client, owed, world>>

\* The process dies, perhaps between a send and its row.
Crash ==
    /\ Happens
    /\ unrecorded' = [x \in Pairs |-> unrecorded[x] + IF x \in proc[Poller].sent THEN 1 ELSE 0]
    /\ proc' = [c \in Coroutines |-> Idle]
    /\ client' = [a \in Accounts |-> "none"]
    /\ UNCHANGED <<account, key, lease, on, top, delivered, copies, owed>>

Leasing(c) == \/ Find(c) \/ DropLease(c) \/ Choose(c) \/ InsertLease(c)
              \/ Connect(c) \/ Ban(c)
Polling == \/ Round \/ NextSource \/ ReadMark \/ ReadSource \/ ReadFails
           \/ ReadDead \/ ReadFlooded \/ MarkFlood \/ Offer \/ Record
           \/ RoundOver \/ Remember

Next ==
    \/ \E s \in Sources : Publish(s)
    \/ \E t \in Tasks : Switch(t)
    \/ \E a \in Accounts : \/ SessionDies(a) \/ Disconnected(a)
                           \/ Toggle(a) \/ Drop(a) \/ Login(a)
    \/ Polling
    \/ \E c \in Coroutines : Ask(c) \/ Leasing(c)
    \/ Crash

Spec == Init /\ [][Next]_vars

\* asyncio resumes whoever waits, and run_forever goes round for ever.
Fairness == WF_vars(Polling) /\ \A c \in Coroutines : WF_vars(Leasing(c))
FairSpec == Spec /\ Fairness

-----------------------------------------------------------------------------
(* What must hold.                                                         *)

Steps == {"idle", "round", "find", "drop", "choose", "insert", "client", "ban",
          "seen", "read", "flood", "offer", "record", "remember"}
Locals == [pc : Steps, src : Sources \cup {NoOne}, by : Accounts \cup {NoOne},
           id : Ids, todo : SUBSET Sources, jobs : SUBSET Tasks, seen : Nat,
           newest : Nat, left : SUBSET Pairs, sent : SUBSET Pairs]

TypeOK ==
    /\ account \in [Accounts -> [exists : BOOLEAN, enabled : BOOLEAN,
                                 state : {"ok", "flood", "banned"}]]
    /\ key \in [Accounts -> {"good", "dead"}]
    /\ client \in [Accounts -> {"none", "good", "dead"}]
    /\ lease \in [Sources -> [by : Accounts \cup {NoOne}, seen : 0 .. MaxPost, id : Ids]]
    /\ on \subseteq Tasks
    /\ top \in [Sources -> 0 .. MaxPost]
    /\ delivered \subseteq Pairs
    /\ copies \in [Pairs -> Nat]
    /\ proc \in [Coroutines -> Locals]
    /\ owed \subseteq Pairs
    /\ unrecorded \in [Pairs -> Nat]
    /\ trouble \in 0 .. MaxTrouble

\* A post published under a mark, for a task that stayed on, was handed to
\* Copier.process before the mark passed it: across crashes, failed rounds,
\* and leases taken by others meanwhile (pubpoll.py, _poll: the mark moves
\* after the attempt).  A mark that went with its lease, and what did not fit
\* into LOOKBACK, are taken out of owed where they are lost.
NothingPassedOver ==
    \A x \in owed :
        Leased(SourceOf[x[1]]) /\ lease[SourceOf[x[1]]].seen < x[2]

\* A task's destination shows a post once, plus once for every crash between
\* the send and its row: a round that ends early is repeated from its mark,
\* and _already_sent tells what was done (pubpoll.py, _poll).
PolledOnce ==
    \A x \in Pairs : copies[x] <= 1 + unrecorded[x]

\* Both: no post of a source is passed over, and none is repeated.
EachPostOnce == NothingPassedOver /\ PolledOnce

\* A source somebody wants does not stay with an account that is switched off,
\* flooded or dead while another one could read it (pool.py, lease: otherwise
\* this source would sleep for ever; mark_banned).
ServedAgain ==
    \A s \in Sources :
        <>[](s \in Wanted(on) /\ \E a \in Accounts : Usable(a))
            => []<>(Leased(s) /\ Usable(lease[s].by) /\ key[lease[s].by] = "good")
=============================================================================
