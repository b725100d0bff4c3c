------------------------------ MODULE Userbot ------------------------------
(***************************************************************************)
(* The Telegram account of one customer (services/userbot.py): its stored  *)
(* session, the client connected with it (the runtime), the map from       *)
(* channels to tasks that decides which posts are heard, and the           *)
(* coroutines that rebuild them: bot and panel handlers (a task switched,  *)
(* a login, a logout, a ban), whoever only needs the client, restore_all   *)
(* at the start and heal every few minutes.  ensure_client holds a lock;   *)
(* the rest of reload_user, _finish_login, logout and stop_user do not.    *)
(*                                                                         *)
(* A step is the code between two awaits.  A client and the UserRuntime    *)
(* made for it are one record: ensure_client and reload_user never pair    *)
(* them otherwise.                                                         *)
(***************************************************************************)
EXTENDS Integers, FiniteSets

CONSTANTS
    Tasks,        \* the customer's tasks, none in simple mode
    Callers,      \* coroutines of handlers, the watchdog, the workers
    Healer,       \* heal_forever, and restore_all at the start
    Nobody,
    MaxKey,       \* bound: logins, each with a key of its own
    MaxClient,    \* bound: clients that exist at the same time; two of them are kept
                  \* for reconnections, so a login may have to wait, and a third
                  \* for a login, so not every client stays that could
    MaxTrouble    \* bound: faults, cancellations and restarts

ASSUME HealerAssumption == Healer \notin Callers /\ Nobody \notin Callers \cup {Healer}
ASSUME NumberAssumption == /\ MaxKey \in Nat \ {0} /\ MaxClient \in Nat \ {0}
                           /\ MaxTrouble \in Nat

VARIABLES
    on,          \* Task.enabled
    known,       \* tasks whose source_id is stored
    session,     \* User.session_enc: the key it holds, 0 for none
    valid,       \* Telegram: the keys it accepts
    client,      \* the connected clients: key, source_map, sets of handlers;
                 \* ghosts: mixed, rebuilt by two coroutines at a time;
                 \* left, abandoned by a cancellation, a crossed login or a
                 \* connection that failed halfway; cut, its last reload
                 \* broke off
    runtime,     \* _runtimes: the client in it, 0 for none
    lock,        \* _locks: who holds it
    proc,        \* where each coroutine stands, and its locals
    crossed,     \* ghost: the last login or logout ran beside a reconnection
    trouble

vars == <<on, known, session, valid, client, runtime, lock, proc, crossed, trouble>>

Coroutines == Callers \cup {Healer}
Keys == 1 .. MaxKey
Clients == 1 .. MaxClient
Gone == [key |-> 0, map |-> [t \in Tasks |-> 0], sets |-> 0,
         mixed |-> FALSE, left |-> FALSE, cut |-> FALSE]
Fresh(k) == [Gone EXCEPT !.key = k]
Idle == [pc |-> "idle", next |-> "none", client |-> 0, key |-> 0,
         todo |-> {}, found |-> FALSE]

Init ==
    /\ on = Tasks /\ known = {}
    /\ session = 1 /\ valid = {1}
    /\ client = [i \in Clients |-> Gone]
    /\ runtime = 0
    /\ lock = Nobody
    /\ proc = [c \in Coroutines |-> Idle]
    /\ crossed = FALSE
    /\ trouble = 0

-----------------------------------------------------------------------------
(* Vocabulary.                                                             *)

At(c, steps) == proc[c].pc \in steps
Up(i) == client[i].key # 0
Connected == runtime # 0 /\ Up(runtime)
Heard(t) == Connected /\ client[runtime].map[t] > 0 /\ client[runtime].sets > 0
\* What happens to a client that is no longer connected has no effect.
Write(i, record) == [client EXCEPT ![i] = IF Up(i) THEN record ELSE @]
Unused == {i \in Clients : ~Up(i)} \ ({runtime} \cup {proc[c].client : c \in Coroutines})
Newest == CHOOSE i \in Unused : TRUE
Room(kept) == Cardinality({i \in Clients : Up(i)}) + kept < MaxClient /\ Unused # {}
\* A key is taken again once nothing remembers it.
NewKeys == Keys \ (valid \cup {session} \cup {client[i].key : i \in Clients}
                       \cup {proc[c].key : c \in Coroutines})

Reconnecting == {"session", "connect", "connected"}
Changing == {"login", "install", "revoked", "stop", "stopping", "forget"}
Rebuilding == {"rows", "resolve"}

\* c goes on to another step.  A change that meets another one or a
\* reconnection on its way is remembered until the next change.
Go(c, record) ==
    LET steps == {proc[c].pc, record.pc}
        meets == \E d \in Coroutines \ {c} :
                    \/ steps \cap Reconnecting # {} /\ At(d, Changing)
                    \/ steps \cap Changing # {} /\ At(d, Reconnecting \cup Changing)
        begins == At(c, {"idle"}) /\ record.pc \in Changing /\ record.next # "ban"
    IN  /\ proc' = [proc EXCEPT ![c] = record]
        /\ crossed' = (meets \/ (crossed /\ ~begins))
Goto(c, step) == Go(c, [proc[c] EXCEPT !.pc = step])
Return(c) == Go(c, Idle)

Happens == trouble < MaxTrouble /\ trouble' = trouble + 1
Release(c) == lock' = IF lock = c THEN Nobody ELSE lock
tables == <<on, known, session, valid>>

-----------------------------------------------------------------------------
(* ensure_client                                                           *)

KeptAsItWas(c, i) == client[i]
Emptied(c, i) ==
    IF ~Up(i) THEN Gone
    ELSE [Fresh(client[i].key) EXCEPT
            !.left = client[i].left,
            !.mixed = \E d \in Coroutines \ {c} : At(d, Rebuilding) /\ proc[d].client = i]

\* The runtime is replaced by a login, or by a reconnection that crossed one.  The
\* client in it stays connected with its handlers; its map is not consulted any more.
Abandoned == IF Connected THEN [client EXCEPT ![runtime].left = @ \/ crossed] ELSE client

\* What follows ensure_client: nothing, or the rest of reload_user, which
\* first takes the old handlers off and empties the map.
Obtained(c, i, clients) ==
    IF proc[c].next = "reload"
    THEN /\ client' = [clients EXCEPT ![i] = Emptied(c, i)]
         /\ Go(c, [Idle EXCEPT !.pc = "rows", !.client = i])
    ELSE client' = clients /\ Return(c)

NoWait == TRUE
Entry == lock = Nobody

\* The lock is free, and a connected client is there: it is the answer.
Reuse(c) ==
    /\ At(c, {"lock"}) /\ Entry /\ Connected
    /\ Obtained(c, runtime, client)
    /\ UNCHANGED <<tables, runtime, lock, trouble>>

TakeLock(c) ==
    /\ At(c, {"lock"}) /\ Entry /\ ~Connected
    /\ lock' = c
    /\ Goto(c, "session")
    /\ UNCHANGED <<tables, client, runtime, trouble>>

ReadSession(c) ==
    /\ At(c, {"session"})
    /\ IF session = 0 THEN Release(c) /\ Return(c)
       ELSE lock' = lock /\ Go(c, [proc[c] EXCEPT !.pc = "connect", !.key = session])
    /\ UNCHANGED <<tables, client, runtime, trouble>>

Connect(c) ==
    /\ At(c, {"connect"}) /\ proc[c].key \in valid /\ Unused # {}
    /\ client' = [client EXCEPT ![Newest] = Fresh(proc[c].key)]
    /\ Go(c, [proc[c] EXCEPT !.pc = "connected", !.client = Newest, !.key = 0])
    /\ UNCHANGED <<tables, runtime, lock, trouble>>

\* Nobody disconnects a client that has connected and then fails or is refused in
\* is_user_authorized, or is cancelled there: it stays, and nothing refers to it.
Remains(c) ==
    \/ client' = client
    \/ Room(3) /\ client' = [client EXCEPT ![Newest] = [Fresh(proc[c].key) EXCEPT !.left = TRUE]]

\* The key is not accepted: after the record, logout(revoked=True), under the lock.
Refused(c) ==
    /\ At(c, {"connect"}) /\ proc[c].key \notin valid
    /\ Remains(c)
    /\ Go(c, [Idle EXCEPT !.pc = "revoked", !.next = "forget"])
    /\ UNCHANGED <<tables, runtime, lock, trouble>>

ConnectFails(c) ==
    /\ At(c, {"connect"}) /\ Happens
    /\ Remains(c)
    /\ Release(c) /\ Return(c)
    /\ UNCHANGED <<tables, runtime>>

\* After health.clear the client becomes the runtime, whatever is there by now.
Publish(c) ==
    /\ At(c, {"connected"})
    /\ runtime' = proc[c].client
    /\ Release(c)
    /\ Obtained(c, proc[c].client, Abandoned)
    /\ UNCHANGED <<tables, trouble>>

-----------------------------------------------------------------------------
(* reload_user, after ensure_client                                        *)

Active == on
ReadTasks(c) ==
    /\ At(c, {"rows"})
    /\ IF Active = {} THEN Return(c)
       ELSE Go(c, [proc[c] EXCEPT !.pc = "resolve", !.todo = Active])
    /\ UNCHANGED <<tables, client, runtime, lock, trouble>>

\* One task is dealt with; after the last, the handlers go on if any was resolved.
Next1(c, t, found, map) ==
    LET i == proc[c].client
        last == proc[c].todo = {t}
    IN  /\ client' = Write(i, [client[i] EXCEPT
                                  !.map = map, !.sets = IF last /\ found THEN @ + 1 ELSE @])
        /\ IF last THEN Return(c)
           ELSE Go(c, [proc[c] EXCEPT !.todo = @ \ {t}, !.found = found])

Resolve(c, t) ==
    /\ At(c, {"resolve"}) /\ t \in proc[c].todo
    /\ known' = known \cup {t}
    /\ Next1(c, t, TRUE, [client[proc[c].client].map EXCEPT ![t] = @ + 1])
    /\ UNCHANGED <<on, session, valid, runtime, lock, trouble>>

\* resolve_chat_id answers None for most errors, and the task is skipped ...
ResolveFails(c, t) ==
    /\ At(c, {"resolve"}) /\ t \in proc[c].todo \ known /\ Happens
    /\ Next1(c, t, proc[c].found, client[proc[c].client].map)
    /\ UNCHANGED <<tables, runtime, lock>>

\* ... but a LoginError (a private channel without its member) or a failing query ends
\* reload_user, as a cancellation does: what is listed by then stays, without handlers.
BreaksOff(c) ==
    LET i == proc[c].client IN client' = Write(i, [client[i] EXCEPT !.cut = TRUE])
ReloadFails(c) ==
    /\ At(c, Rebuilding) /\ Happens
    /\ BreaksOff(c)
    /\ Return(c)
    /\ UNCHANGED <<tables, runtime, lock>>

-----------------------------------------------------------------------------
(* _finish_login, logout, stop_user                                        *)

\* The customer has entered his code: a new key, and the client of the login.
BeginLogin(c) ==
    /\ At(c, {"idle"}) /\ c # Healer /\ NewKeys # {}
    /\ Room(2)
    /\ LET k == CHOOSE k \in NewKeys : TRUE
       IN  /\ valid' = valid \cup {k}
           /\ client' = [client EXCEPT ![Newest] = Fresh(k)]
           /\ Go(c, [Idle EXCEPT !.pc = "login", !.client = Newest, !.key = k])
    /\ UNCHANGED <<on, known, session, runtime, lock, trouble>>

StoreSession(c) ==
    /\ At(c, {"login"})
    /\ session' = proc[c].key
    /\ Goto(c, "install")
    /\ UNCHANGED <<on, known, valid, client, runtime, lock, trouble>>

\* The runtime is replaced, the client in it left as it is; then reload_user.
Installed(c) == proc[c].client
Install(c) ==
    /\ At(c, {"install"})
    /\ runtime' = Installed(c)
    /\ client' = Abandoned
    /\ Go(c, [Idle EXCEPT !.pc = "lock", !.next = "reload"])
    /\ UNCHANGED <<tables, lock, trouble>>

\* logout tells Telegram first, when it can; a ban switches the tasks off first.
BeginLogout(c) ==
    /\ At(c, {"idle"}) /\ c # Healer
    /\ valid' = IF Connected THEN valid \ {client[runtime].key} ELSE valid
    /\ Go(c, [Idle EXCEPT !.pc = "stop", !.next = "forget"])
    /\ UNCHANGED <<on, known, session, client, runtime, lock, trouble>>

BeginBan(c) ==
    /\ At(c, {"idle"}) /\ c # Healer
    /\ on' = {}
    /\ Go(c, [Idle EXCEPT !.pc = "stop", !.next = "ban"])
    /\ UNCHANGED <<known, session, valid, client, runtime, lock, trouble>>

\* stop_user takes the runtime out with its handlers, then disconnects it.
Stopped(c) == IF proc[c].next = "forget"
              THEN Go(c, [Idle EXCEPT !.pc = "forget"]) ELSE Return(c)
Popped == 0
Stop(c) ==
    /\ At(c, {"stop", "revoked"})
    /\ IF runtime = 0
       THEN UNCHANGED <<client, runtime>> /\ Stopped(c)
       ELSE /\ client' = Write(runtime, [Abandoned[runtime] EXCEPT !.map = Gone.map, !.sets = 0])
            /\ runtime' = Popped
            /\ Go(c, [proc[c] EXCEPT !.pc = "stopping", !.client = runtime])
    /\ UNCHANGED <<tables, lock, trouble>>

Disconnect(c) ==
    /\ At(c, {"stopping"})
    /\ client' = [client EXCEPT ![proc[c].client] = Gone]
    /\ Stopped(c)
    /\ UNCHANGED <<tables, runtime, lock, trouble>>

ForgetSession(c) ==
    /\ At(c, {"forget"})
    /\ session' = 0
    /\ Release(c) /\ Return(c)
    /\ UNCHANGED <<on, known, valid, client, runtime, trouble>>

-----------------------------------------------------------------------------
(* Who calls                                                               *)

BeginEnsure(c) ==
    /\ At(c, {"idle"}) /\ c # Healer
    /\ Go(c, [Idle EXCEPT !.pc = "lock", !.next = "none"])
    /\ UNCHANGED <<tables, client, runtime, lock, trouble>>

\* A handler, the watchdog or _pause_task commits the switch, then reloads.
BeginSwitch(c, t) ==
    /\ At(c, {"idle"}) /\ c # Healer
    /\ on' = IF t \in on THEN on \ {t} ELSE on \cup {t}
    /\ Go(c, [Idle EXCEPT !.pc = "lock", !.next = "reload"])
    /\ UNCHANGED <<known, session, valid, client, runtime, lock, trouble>>

\* heal: a customer with an enabled task whose runtime looks ill is reloaded.
Present == runtime # 0
Healthy == Connected /\ \E t \in Tasks : client[runtime].map[t] > 0
Heal ==
    /\ At(Healer, {"idle"}) /\ on # {} /\ ~Healthy
    /\ Go(Healer, [Idle EXCEPT !.pc = "lock", !.next = "reload"])
    /\ UNCHANGED <<tables, client, runtime, lock, trouble>>

\* wait_for cancels the reload of heal and of restore_all, wherever it stands.
TimedOut ==
    /\ ~At(Healer, {"idle"}) /\ Happens
    /\ Release(Healer)
    /\ LET i == proc[Healer].client
       IN  /\ At(Healer, {"connected", "stopping"}) =>
                  client' = Write(i, [client[i] EXCEPT !.left = TRUE])
           /\ At(Healer, {"connect"}) => Remains(Healer)
           /\ At(Healer, Rebuilding) => BreaksOff(Healer)
           /\ ~At(Healer, {"connect", "connected", "stopping"} \cup Rebuilding) => client' = client
    /\ Return(Healer)
    /\ UNCHANGED <<tables, runtime>>

-----------------------------------------------------------------------------
(* The world                                                               *)

\* A connection the library has given up reconnecting.
ConnectionLost(i) ==
    /\ Up(i) /\ Happens
    /\ client' = [client EXCEPT ![i] = Gone]
    /\ UNCHANGED <<tables, runtime, lock, proc, crossed>>

\* The customer ends the session from his own Telegram.
KeyRevoked(k) ==
    /\ k \in valid /\ Happens
    /\ valid' = valid \ {k}
    /\ UNCHANGED <<on, known, session, client, runtime, lock, proc, crossed>>

\* The process dies, and restore_all starts from the stored sessions.
Restart ==
    /\ Happens
    /\ client' = [i \in Clients |-> Gone]
    /\ runtime' = 0 /\ lock' = Nobody
    /\ proc' = [c \in Coroutines |->
                  IF c = Healer /\ session # 0
                  THEN [Idle EXCEPT !.pc = "lock", !.next = "reload"] ELSE Idle]
    /\ crossed' = FALSE
    /\ UNCHANGED tables

Proceed(c) ==
    \/ Reuse(c) \/ TakeLock(c) \/ ReadSession(c)
    \/ Connect(c) \/ Refused(c) \/ Publish(c)
    \/ ReadTasks(c) \/ \E t \in Tasks : Resolve(c, t)
    \/ StoreSession(c) \/ Install(c)
    \/ Stop(c) \/ Disconnect(c) \/ ForgetSession(c)

Fails(c) == ConnectFails(c) \/ ReloadFails(c) \/ \E t \in Tasks : ResolveFails(c, t)

Begin(c) ==
    \/ BeginEnsure(c) \/ BeginLogin(c) \/ BeginLogout(c) \/ BeginBan(c)
    \/ \E t \in Tasks : BeginSwitch(c, t)

Next ==
    \/ \E c \in Coroutines : Proceed(c) \/ Fails(c)
    \/ \E c \in Callers : Begin(c)
    \/ Heal \/ TimedOut \/ Restart
    \/ \E i \in Clients : ConnectionLost(i)
    \/ \E k \in Keys : KeyRevoked(k)

Spec == Init /\ [][Next]_vars

\* A started coroutine goes on; the lock is first come, first served; heal
\* runs every few minutes.
Scheduled ==
    /\ \A c \in Coroutines : WF_vars(Proceed(c)) /\ SF_vars(Reuse(c) \/ TakeLock(c))
    /\ WF_vars(Heal)

FairSpec == Spec /\ Scheduled

-----------------------------------------------------------------------------
TypeOK ==
    /\ on \subseteq Tasks /\ known \subseteq Tasks
    /\ session \in Keys \cup {0} /\ valid \subseteq Keys
    /\ client \in [Clients -> [key : Keys \cup {0}, map : [Tasks -> Nat], sets : Nat,
                               mixed : BOOLEAN, left : BOOLEAN, cut : BOOLEAN]]
    /\ runtime \in Clients \cup {0}
    /\ lock \in Coroutines \cup {Nobody}
    /\ DOMAIN proc = Coroutines
    /\ \A c \in Coroutines :
          /\ proc[c].client \in Clients \cup {0} /\ proc[c].key \in Keys \cup {0}
          /\ proc[c].todo \subseteq Tasks
    /\ crossed \in BOOLEAN
    /\ trouble \in 0 .. MaxTrouble

\* The runtime reads with the account that is stored, once the login or logout
\* at work is done: only a change beside a reconnection can part them.
OwnAccount ==
    Connected /\ ~crossed /\ (\A c \in Coroutines : ~At(c, Changing))
        => client[runtime].key = session

\* No two clients are connected with one key, except one that is being stopped
\* or that a cancellation, a crossed login or a reconnection that failed after it
\* had connected has left behind: Telegram ends a key used twice.
OneClientPerKey ==
    \A i, j \in Clients :
        i # j /\ Up(i) /\ Up(j) /\ client[i].key = client[j].key /\ ~crossed
        => \E k \in {i, j} :
              \/ client[k].left
              \/ \E c \in Coroutines : At(c, {"stopping"}) /\ proc[c].client = k

\* Both: one client, and it is of the account that is stored.
OneOwnClient == OwnAccount /\ OneClientPerKey

\* However often and from wherever reload_user is called, no task is listed
\* twice and no client has two sets of handlers, unless two reloads overlap;
\* the next one that is alone repairs what they did.
HeardOnce ==
    \A i \in Clients : ~client[i].mixed =>
        client[i].sets <= 1 /\ \A t \in Tasks : client[i].map[t] <= 1

\* Whatever fails, is cut off or restarts, a customer with a session Telegram
\* accepts and an enabled task is connected again, with handlers that hear one of
\* his tasks, unless a reload broke off after it had listed some: heal looks at the
\* list and takes it for healthy.
HalfListed == Connected /\ client[runtime].cut /\ \E t \in Tasks : client[runtime].map[t] > 0
Reconnected == []<>(session \notin valid \/ on = {} \/ (\E t \in Tasks : Heard(t)) \/ HalfListed)
=============================================================================
