---------------------------- MODULE UserbotProofs ----------------------------
(***************************************************************************)
(* Proofs about Userbot, for any number of tasks, coroutines, keys and     *)
(* clients: HeardOnce and OneOwnClient.                                    *)
(*                                                                         *)
(* HeardInv says what a coroutine that rebuilds a client alone finds in it *)
(* (Unheard).  OwnInv says who has which client and key: a client that is  *)
(* connected but not the runtime yet has one holder (HeldAlone), nobody    *)
(* reconnects without the lock (LockHeld), and while nothing has crossed,  *)
(* who reconnects or stops finds no client connected (Uncrossed) and a     *)
(* client that a login replaced has a key nobody remembers (OrphansApart). *)
(* Quiet steps keep all of it (QuietKeeps); a step that connects, replaces *)
(* or stops a client is alone, or has crossed another (ApartKeeps).        *)
(***************************************************************************)
EXTENDS Userbot, TLAPS

Steps == {"idle", "lock", "session", "connect", "connected", "rows", "resolve",
          "login", "install", "revoked", "stop", "stopping", "forget"}
ClientType == [key : Keys \cup {0}, map : [Tasks -> Nat], sets : Nat,
               mixed : BOOLEAN, left : BOOLEAN, cut : BOOLEAN]
ProcType == [pc : Steps, next : {"none", "reload", "forget", "ban"},
             client : Clients \cup {0}, key : Keys \cup {0},
             todo : SUBSET Tasks, found : BOOLEAN]

\* The type of the state; a client that is gone has left nothing.
BotType ==
    /\ TypeOK /\ proc \in [Coroutines -> ProcType]
    /\ \A i \in Clients : ~Up(i) => client[i] = Gone

-----------------------------------------------------------------------------
\* HeardOnce: who rebuilds a client alone finds in it what he has put there.
Rebuilds(c, i) == At(c, Rebuilding) /\ proc[c].client = i
Alone(i) == \A c, d \in Coroutines : Rebuilds(c, i) /\ Rebuilds(d, i) => c = d
Unheard(c, i) ==
    /\ client[i].sets = 0
    /\ At(c, {"rows"}) => \A t \in Tasks : client[i].map[t] = 0
    /\ At(c, {"resolve"}) => \A t \in proc[c].todo : client[i].map[t] = 0

HeardInv ==
    \A i \in Clients : Up(i) /\ ~client[i].mixed =>
        /\ Alone(i)
        /\ \A c \in Coroutines : Rebuilds(c, i) => Unheard(c, i)
        /\ client[i].sets <= 1 /\ \A t \in Tasks : client[i].map[t] <= 1

-----------------------------------------------------------------------------
\* OneOwnClient.  Who holds a client that is not the runtime yet; nobody else has it.
Holding == {"connected", "login", "install"}
Holds(c, i) == At(c, Holding) /\ proc[c].client = i
Stops(c, i) == At(c, {"stopping"}) /\ proc[c].client = i
Held(i) == \E c \in Coroutines : Holds(c, i)
HeldAlone ==
    \A c \in Coroutines :
        /\ At(c, Holding) => /\ proc[c].client # runtime
                             /\ \A d \in Coroutines \ {c} : proc[d].client # proc[c].client
        /\ At(c, {"stopping"}) => proc[c].client # runtime
        /\ At(c, Holding \cup {"stopping"} \cup Rebuilding) => proc[c].client \in Clients

\* Only who reconnects has the lock; the healer neither logs in nor stops.
LockHeld == \A c \in Coroutines : At(c, Reconnecting) => lock = c
HealerHeals == ~At(Healer, {"login", "install", "stop"})

\* Two at a time have crossed, if one of them changes the account.
Crossing ==
    \A c, d \in Coroutines :
        c # d /\ At(c, Changing) /\ At(d, Changing \cup Reconnecting) => crossed

\* The keys the coroutines remember.
KeysHeld ==
    \A c \in Coroutines :
        /\ proc[c].key # 0 => At(c, {"connect", "login", "install"})
        /\ At(c, {"connect"}) => proc[c].key # 0
        /\ At(c, {"login", "install"}) /\ Up(proc[c].client) => client[proc[c].client].key = proc[c].key

\* Without a crossing: who reconnects or stops finds no client connected, and has
\* the stored key; a login has a key of its own, and stores it.
Uncrossed ==
    ~crossed => \A c \in Coroutines :
        /\ At(c, Reconnecting \cup {"revoked", "stopping", "forget"}) => ~Connected
        /\ At(c, {"connect"}) => proc[c].key = session
        /\ At(c, {"connected"}) /\ Up(proc[c].client) => client[proc[c].client].key = session
        /\ At(c, {"login", "install"}) =>
              \A j \in Clients : Up(j) /\ j # proc[c].client => client[j].key # proc[c].key
        /\ At(c, {"install"}) => session = proc[c].key

\* A client that was replaced by a login, and neither left nor stopped, has a key
\* nobody else has, nor will have.
Good(i) == Up(i) /\ ~client[i].left /\ \A c \in Coroutines : ~Stops(c, i)
Orphan(i) == Good(i) /\ i # runtime /\ ~Held(i)
OrphansApart ==
    \A i \in Clients : Orphan(i) =>
        /\ session # client[i].key /\ \A c \in Coroutines : proc[c].key # client[i].key
        /\ \A j \in Clients \ {i} : Good(j) => client[j].key # client[i].key

OwnInv == /\ HeldAlone /\ LockHeld /\ HealerHeals /\ Crossing /\ KeysHeld /\ Uncrossed
          /\ OrphansApart /\ OwnAccount

-----------------------------------------------------------------------------
\* One coroutine goes on to m: the others stay.
LEMMA MovesOn ==
    ASSUME BotType, NEW c \in Coroutines, NEW m \in ProcType, Go(c, m)
    PROVE  /\ proc' \in [Coroutines -> ProcType] /\ proc'[c] = m /\ crossed' \in BOOLEAN
           /\ \A d \in Coroutines \ {c} : proc'[d] = proc[d]
<1>1. proc \in [Coroutines -> ProcType]
  BY DEF BotType
<1>2. proc' = [proc EXCEPT ![c] = m] /\ crossed' \in BOOLEAN
  BY DEF Go, BotType, TypeOK
<1>. QED BY <1>1, <1>2

\* What becomes of crossed.  Who changes the account has met nobody, or has crossed.
Calm(c, m) ==
    ~crossed' =>
        /\ {proc[c].pc, m.pc} \cap Changing # {} =>
               \A d \in Coroutines \ {c} : ~At(d, Reconnecting \cup Changing)
        /\ {proc[c].pc, m.pc} \cap Reconnecting # {} =>
               \A d \in Coroutines \ {c} : ~At(d, Changing)
        /\ crossed => At(c, {"idle"}) /\ m.pc \in Changing

\* A move that ends or keeps no crossing has met nobody, and Crossing stays.
LEMMA CalmMove ==
    ASSUME BotType, Crossing, NEW c \in Coroutines, NEW m \in ProcType, Go(c, m)
    PROVE  Calm(c, m) /\ Crossing'
<1>. DEFINE steps == {proc[c].pc, m.pc}
<1>1. /\ proc'[c] = m /\ \A d \in Coroutines \ {c} : proc'[d] = proc[d]
  BY MovesOn
<1>2. ~crossed' => /\ \A d \in Coroutines \ {c} :
                          /\ ~(steps \cap Reconnecting # {} /\ At(d, Changing))
                          /\ ~(steps \cap Changing # {} /\ At(d, Reconnecting \cup Changing))
                   /\ crossed => At(c, {"idle"}) /\ m.pc \in Changing
  BY DEF Go
<1>3. Calm(c, m)
  BY <1>2 DEF Calm, At
<1>4. Crossing'
  <2>. SUFFICES ASSUME NEW a \in Coroutines, NEW b \in Coroutines, a # b, ~crossed',
                       At(a, Changing)', At(b, Changing \cup Reconnecting)'
                PROVE  FALSE
    BY DEF Crossing
  <2>1. CASE a = c
    BY <1>1, <1>2, <2>1 DEF At
  <2>2. CASE b = c
    BY <1>1, <1>2, <2>2 DEF At
  <2>3. CASE a # c /\ b # c
    <3>1. At(a, Changing) /\ At(b, Changing \cup Reconnecting)
      BY <1>1, <2>3 DEF At
    <3>2. crossed
      BY <3>1 DEF Crossing
    <3>3. m.pc \in Changing
      BY <1>2, <3>2
    <3>. QED BY <1>2, <2>3, <3>1, <3>3 DEF At
  <2>. QED BY <2>1, <2>2, <2>3
<1>. QED BY <1>3, <1>4

\* A crossing that is not over is over for whoever works on the account.
LEMMA NotCrossed ==
    ASSUME NEW c \in Coroutines, NEW m \in ProcType, Calm(c, m), ~crossed'
    PROVE  /\ \A d \in Coroutines \ {c} : At(d, Reconnecting \cup Changing) => ~crossed
           /\ ~At(c, {"idle"}) \/ m.pc \notin Changing => ~crossed
  BY DEF Calm, At, Changing, Reconnecting

\* A new client listens to nothing yet.
LEMMA FreshIs ==
    /\ Gone \in ClientType /\ Gone.key = 0 /\ Gone.map = [t \in Tasks |-> 0]
    /\ Gone.sets = 0
    /\ \A k \in Keys \cup {0} :
          /\ Fresh(k) \in ClientType /\ Fresh(k).key = k /\ Fresh(k).map = Gone.map
          /\ Fresh(k).sets = 0 /\ ~Fresh(k).mixed /\ ~Fresh(k).left /\ ~Fresh(k).cut
  BY DEF Gone, Fresh, ClientType

\* A coroutine at rest has no client and remembers no key.
LEMMA IdleIs ==
    Idle \in ProcType /\ Idle.pc = "idle" /\ Idle.client = 0 /\ Idle.key = 0
  BY DEF Idle, ProcType, Steps

\* The client that is taken for a new connection is one nobody has.
LEMMA NewestUnused ==
    ASSUME BotType, Unused # {}
    PROVE  /\ Newest \in Clients /\ ~Up(Newest) /\ Newest # runtime
           /\ \A c \in Coroutines : proc[c].client # Newest
<1>1. Newest \in Unused
  BY DEF Newest
<1>. QED BY <1>1 DEF Unused

-----------------------------------------------------------------------------
(* The type of the state.                                                  *)

ClientsOK(f) == f \in [Clients -> ClientType] /\ \A i \in Clients : f[i].key = 0 => f[i] = Gone
TablesOK ==
    /\ on \subseteq Tasks /\ known \subseteq Tasks
    /\ session \in Keys \cup {0} /\ valid \subseteq Keys /\ runtime \in Clients \cup {0}
    /\ lock \in Coroutines \cup {Nobody} /\ trouble \in 0 .. MaxTrouble

\* BotType, by its parts.
LEMMA TypeIs ==
    /\ BotType <=> /\ TablesOK /\ ClientsOK(client)
                   /\ proc \in [Coroutines -> ProcType] /\ crossed \in BOOLEAN
    /\ BotType' <=> /\ TablesOK' /\ ClientsOK(client')
                    /\ proc' \in [Coroutines -> ProcType] /\ crossed' \in BOOLEAN
<1>1. ASSUME proc \in [Coroutines -> ProcType]
      PROVE  \A c \in Coroutines : /\ proc[c].client \in Clients \cup {0}
                                   /\ proc[c].key \in Keys \cup {0} /\ proc[c].todo \subseteq Tasks
  BY <1>1 DEF ProcType
<1>2. ASSUME proc' \in [Coroutines -> ProcType]
      PROVE  \A c \in Coroutines : /\ proc'[c].client \in Clients \cup {0}
                                   /\ proc'[c].key \in Keys \cup {0} /\ proc'[c].todo \subseteq Tasks
  BY <1>2 DEF ProcType
<1>3. ASSUME proc \in [Coroutines -> ProcType] PROVE DOMAIN proc = Coroutines
  BY <1>3
<1>4. ASSUME proc' \in [Coroutines -> ProcType] PROVE DOMAIN proc' = Coroutines
  BY <1>4
<1>5. BotType <=> /\ TablesOK /\ ClientsOK(client)
                  /\ proc \in [Coroutines -> ProcType] /\ crossed \in BOOLEAN
  BY <1>1, <1>3, Zenon DEF BotType, TypeOK, TablesOK, ClientsOK, ClientType, Up
<1>6. BotType' <=> /\ TablesOK' /\ ClientsOK(client')
                   /\ proc' \in [Coroutines -> ProcType] /\ crossed' \in BOOLEAN
  BY <1>2, <1>4, Zenon DEF BotType, TypeOK, TablesOK, ClientsOK, ClientType, Up
<1>. QED BY <1>5, <1>6

\* One client is written.
LEMMA OneWritten ==
    ASSUME NEW f, ClientsOK(f), NEW i \in Clients, NEW r \in ClientType, r.key = 0 => r = Gone
    PROVE  ClientsOK([f EXCEPT ![i] = r])
  BY DEF ClientsOK

\* A step of c to m keeps the types, if what it writes has them.
LEMMA TypeMoves ==
    ASSUME BotType, NEW c \in Coroutines, NEW m \in ProcType, Go(c, m),
           TablesOK', ClientsOK(client')
    PROVE  BotType'
  BY MovesOn, TypeIs

\* The lock is kept, taken when free, or given back by its holder.
LEMMA ReleaseIs ==
    ASSUME BotType, NEW c \in Coroutines, Release(c)
    PROVE  lock' = lock \/ (lock = c /\ lock' = Nobody)
  BY DEF Release

-----------------------------------------------------------------------------
(* OneOwnClient: what a step of c to m leaves of OwnInv.                   *)

LockMoves(c, m) ==
    /\ \/ lock' = lock
       \/ lock = Nobody /\ lock' = c
       \/ lock = c /\ lock' = Nobody
    /\ m.pc \in Reconnecting => lock' = c
    /\ c = Healer => m.pc \notin {"login", "install", "stop"}

\* The lock stays with who reconnects, and the healer only heals.
LEMMA LockKeeps ==
    ASSUME BotType, LockHeld, HealerHeals, NEW c \in Coroutines, NEW m \in ProcType, Go(c, m),
           LockMoves(c, m)
    PROVE  LockHeld' /\ HealerHeals'
<1>1. /\ proc'[c] = m /\ \A d \in Coroutines \ {c} : proc'[d] = proc[d]
  BY MovesOn
<1>2. LockHeld'
  <2>. SUFFICES ASSUME NEW d \in Coroutines, At(d, Reconnecting)'
                PROVE  lock' = d
    BY DEF LockHeld
  <2>1. CASE d = c
    BY <1>1, <2>1 DEF LockMoves, At
  <2>2. CASE d # c
    <3>1. lock = d
      BY <1>1, <2>2 DEF LockHeld, At
    <3>2. d # Nobody
      BY HealerAssumption DEF Coroutines
    <3>. QED BY <2>2, <3>1, <3>2 DEF LockMoves
  <2>. QED BY <2>1, <2>2
<1>3. HealerHeals'
  <2>1. CASE c = Healer
    BY <1>1, <2>1 DEF LockMoves, HealerHeals, At
  <2>2. CASE c # Healer
    BY <1>1, <2>2 DEF HealerHeals, At, Coroutines
  <2>. QED BY <2>1, <2>2
<1>. QED BY <1>2, <1>3

\* A step of c that keeps the clients' keys and the tables.
Stays == session' = session /\ runtime' = runtime
Fading ==
    \A i \in Clients : client'[i].key = client[i].key /\ (client[i].left => client'[i].left)
QuietMove(c, m) ==
    /\ Stays /\ Fading
    /\ proc[c].pc \notin Holding \cup {"stopping"} /\ m.pc \notin Holding \cup {"stopping"}
    /\ m.client \in {0, runtime, proc[c].client}
    /\ m.pc \in Rebuilding => m.client \in Clients
    /\ m.key = IF m.pc = "connect" THEN session ELSE 0
    /\ m.pc = "connect" => m.key # 0
    /\ m.pc \in Reconnecting \cup {"revoked", "forget"} /\ ~crossed' => ~Connected
    /\ At(c, Changing) /\ m.pc \notin Changing /\ ~crossed' => ~Connected

\* Whoever works with a client that is connected, and with it only, disturbs nothing.
LEMMA QuietKeeps ==
    ASSUME BotType, OwnInv, NEW c \in Coroutines, NEW m \in ProcType, Go(c, m),
           LockMoves(c, m), QuietMove(c, m)
    PROVE  OwnInv'
<1>1. /\ proc'[c] = m /\ \A d \in Coroutines \ {c} : proc'[d] = proc[d]
  BY MovesOn
<1>2. Calm(c, m) /\ Crossing' /\ LockHeld' /\ HealerHeals'
  BY CalmMove, LockKeeps DEF OwnInv
<1>3. \A i \in Clients : Up(i)' = Up(i)
  BY DEF QuietMove, Fading, Up
<1>4. Connected' = Connected
  <2>1. runtime \in Clients \cup {0} /\ runtime' = runtime
    BY DEF BotType, TypeOK, QuietMove, Stays
  <2>. QED BY <1>3, <2>1 DEF Connected, Up
<1>5. HeldAlone'
  <2>1. ASSUME NEW d \in Coroutines, At(d, Holding \cup {"stopping"})'
        PROVE  /\ d # c /\ proc'[d] = proc[d] /\ proc[d].client \in Clients
               /\ At(d, Holding \cup {"stopping"})
    BY <1>1, <2>1 DEF QuietMove, At, OwnInv, HeldAlone
  <2>2. ASSUME NEW d \in Coroutines, At(d, Holding)'
        PROVE  /\ proc'[d].client # runtime'
               /\ \A e \in Coroutines \ {d} : proc'[e].client # proc'[d].client
    <3>1. d # c /\ proc'[d] = proc[d] /\ At(d, Holding) /\ proc[d].client \in Clients
      BY <2>1, <2>2 DEF At
    <3>2. /\ proc[d].client # runtime
          /\ \A e \in Coroutines \ {d} : proc[e].client # proc[d].client
      BY <3>1 DEF OwnInv, HeldAlone
    <3>3. proc'[c].client # proc[d].client
      BY <1>1, <3>1, <3>2 DEF QuietMove, Clients
    <3>. QED BY <1>1, <3>1, <3>2, <3>3 DEF QuietMove, Stays
  <2>3. ASSUME NEW d \in Coroutines, At(d, {"stopping"})'
        PROVE  proc'[d].client # runtime'
    BY <1>1, <2>3 DEF QuietMove, Stays, At, OwnInv, HeldAlone
  <2>4. ASSUME NEW d \in Coroutines, At(d, Rebuilding)'
        PROVE  proc'[d].client \in Clients
    <3>1. CASE d = c
      BY <1>1, <2>4, <3>1 DEF QuietMove, At
    <3>2. CASE d # c
      BY <1>1, <2>4, <3>2 DEF OwnInv, HeldAlone, At
    <3>. QED BY <3>1, <3>2
  <2>. QED BY <2>1, <2>2, <2>3, <2>4 DEF HeldAlone, At
<1>6. KeysHeld'
  <2>. SUFFICES ASSUME NEW d \in Coroutines
                PROVE  /\ proc'[d].key # 0 => At(d, {"connect", "login", "install"})'
                       /\ At(d, {"connect"})' => proc'[d].key # 0
                       /\ At(d, {"login", "install"})' /\ Up(proc[d].client)'
                             => d # c /\ client'[proc[d].client].key = proc[d].key
    BY <1>1 DEF KeysHeld
  <2>1. CASE d = c
    BY <1>1, <2>1 DEF QuietMove, At, Holding, Rebuilding
  <2>2. CASE d # c
    <3>1. proc'[d] = proc[d]
      BY <1>1, <2>2
    <3>2. proc[d].key # 0 => At(d, {"connect", "login", "install"})
      BY DEF OwnInv, KeysHeld
    <3>3. At(d, {"login", "install"}) => proc[d].client \in Clients
      BY DEF OwnInv, HeldAlone, At, Holding
    <3>. QED BY <1>3, <2>2, <3>1, <3>2, <3>3 DEF OwnInv, KeysHeld, At, QuietMove, Fading
  <2>. QED BY <2>1, <2>2
<1>7. Uncrossed'
  <2>. SUFFICES ASSUME ~crossed', NEW d \in Coroutines,
                       At(d, Reconnecting \cup Changing)'
                PROVE  /\ At(d, Reconnecting \cup {"revoked", "stopping", "forget"})' => ~Connected'
                       /\ At(d, {"connect"})' => proc'[d].key = session'
                       /\ At(d, {"connected"})' /\ Up(proc[d].client)' =>
                             client'[proc[d].client].key = session' /\ d # c
                       /\ At(d, {"login", "install"})' => d # c /\
                             \A j \in Clients : Up(j)' /\ j # proc[d].client =>
                                 client'[j].key # proc[d].key
                       /\ At(d, {"install"})' => d # c /\ session' = proc[d].key
    BY <1>1 DEF Uncrossed, At, Reconnecting, Changing
  <2>1. CASE d = c
    <3>1. m.pc \in Reconnecting \cup Changing /\ m.pc \notin Holding \cup {"stopping"}
      BY <1>1, <2>1 DEF At, QuietMove
    <3>3. m.pc = "connect" => proc'[c].key = session'
      BY <1>1, <2>1 DEF QuietMove, Stays
    <3>. QED BY <1>1, <1>4, <2>1, <3>1, <3>3 DEF At, QuietMove, Holding
  <2>2. CASE d # c
    <3>1. proc'[d] = proc[d] /\ At(d, Reconnecting \cup Changing)
      BY <1>1, <2>2 DEF At
    <3>2. ~crossed
      BY <1>2, <2>2, <3>1, NotCrossed
    <3>3. At(d, Holding) => proc[d].client \in Clients
      BY DEF OwnInv, HeldAlone, At
    <3>. QED BY <1>3, <1>4, <2>2, <3>1, <3>2, <3>3
          DEF OwnInv, Uncrossed, At, Holding, QuietMove, Stays, Fading
  <2>. QED BY <2>1, <2>2
<1>8. OrphansApart'
  <2>1. ASSUME NEW i \in Clients, Good(i)' PROVE Good(i)
    BY <1>1, <1>3, <2>1 DEF Good, Stops, At, QuietMove, Fading
  <2>2. ASSUME NEW i \in Clients, Orphan(i)' PROVE Orphan(i)
    BY <1>1, <2>1, <2>2 DEF Orphan, Held, Holds, At, QuietMove, Stays
  <2>. SUFFICES ASSUME NEW i \in Clients, Orphan(i)'
                PROVE  /\ session' # client'[i].key
                       /\ \A d \in Coroutines : proc'[d].key # client'[i].key
                       /\ \A j \in Clients \ {i} : Good(j)' => client'[j].key # client'[i].key
    BY DEF OrphansApart
  <2>3. Orphan(i) /\ client[i].key # 0 /\ client'[i].key = client[i].key
    BY <2>2 DEF Orphan, Good, Up, QuietMove, Fading
  <2>4. /\ session # client[i].key /\ \A d \in Coroutines : proc[d].key # client[i].key
        /\ \A j \in Clients \ {i} : Good(j) => client[j].key # client[i].key
    BY <2>3 DEF OwnInv, OrphansApart
  <2>. QED BY <1>1, <2>1, <2>3, <2>4 DEF QuietMove, Stays, Fading
<1>9. OwnAccount'
  <2>. SUFFICES ASSUME Connected', ~crossed', \A d \in Coroutines : ~At(d, Changing)'
                PROVE  client'[runtime'].key = session'
    BY DEF OwnAccount
  <2>1. Connected /\ ~At(c, Changing) /\ m.pc \notin Changing
    BY <1>1, <1>4 DEF QuietMove, At
  <2>2. ~crossed
    BY <1>2, <2>1, NotCrossed
  <2>3. \A d \in Coroutines : ~At(d, Changing)
    BY <1>1, <2>1 DEF At
  <2>4. runtime \in Clients
    BY <2>1 DEF Connected, BotType, TypeOK
  <2>. QED BY <2>1, <2>2, <2>3, <2>4 DEF OwnInv, OwnAccount, QuietMove, Stays, Fading
<1>. QED BY <1>2, <1>5, <1>6, <1>7, <1>8, <1>9 DEF OwnInv

-----------------------------------------------------------------------------
(* HeardOnce: what a step leaves of HeardInv.                              *)

\* Each client's lists are as they were, or emptied.
ListsKept ==
    \A i \in Clients : Up(i)' /\ ~client'[i].mixed =>
        \/ /\ Up(i) /\ ~client[i].mixed
           /\ client'[i].map = client[i].map /\ client'[i].sets = client[i].sets
        \/ Alone(i) /\ client'[i].map = Gone.map /\ client'[i].sets = 0

\* Nobody starts to rebuild or goes on with it.
LEMMA HeardStays ==
    ASSUME BotType, HeardInv, ListsKept,
           \A d \in Coroutines : At(d, Rebuilding)' => proc'[d] = proc[d]
    PROVE  HeardInv'
<1>. SUFFICES ASSUME NEW i \in Clients, Up(i)', ~client'[i].mixed
              PROVE  /\ Alone(i)' /\ \A d \in Coroutines : Rebuilds(d, i)' => Unheard(d, i)'
                     /\ client'[i].sets <= 1 /\ \A t \in Tasks : client'[i].map[t] <= 1
  BY DEF HeardInv
<1>1. Alone(i)
  BY DEF ListsKept, HeardInv
<1>2. \A d \in Coroutines : Rebuilds(d, i)' => Rebuilds(d, i) /\ proc'[d] = proc[d]
  BY DEF Rebuilds, At
<1>3. Alone(i)'
  BY <1>1, <1>2 DEF Alone
<1>4. CASE client'[i].map = Gone.map /\ client'[i].sets = 0
  <2>1. \A t \in Tasks : client'[i].map[t] = 0
    BY <1>4, FreshIs
  <2>2. \A d \in Coroutines : Rebuilds(d, i)' => proc'[d].todo \subseteq Tasks
    BY <1>2 DEF BotType, TypeOK
  <2>. QED BY <1>3, <1>4, <2>1, <2>2 DEF Unheard
<1>5. CASE /\ Up(i) /\ ~client[i].mixed
           /\ client'[i].map = client[i].map /\ client'[i].sets = client[i].sets
  BY <1>2, <1>3, <1>5 DEF HeardInv, Unheard, At
<1>. QED BY <1>4, <1>5 DEF ListsKept

\* Obtained: the client is emptied, and rebuilt by c alone or known to be mixed.
LEMMA HeardEmptied ==
    ASSUME BotType, HeardInv, NEW c \in Coroutines, NEW m \in ProcType, Go(c, m),
           NEW i \in Clients, m.pc = "rows", m.client = i,
           Up(i)' /\ ~client'[i].mixed =>
               /\ \A d \in Coroutines \ {c} : ~Rebuilds(d, i)
               /\ client'[i].map = Gone.map /\ client'[i].sets = 0,
           \A j \in Clients \ {i} : /\ client'[j].key = client[j].key
                                    /\ client'[j].mixed = client[j].mixed
                                    /\ client'[j].map = client[j].map
                                    /\ client'[j].sets = client[j].sets
    PROVE  HeardInv'
<1>1. /\ proc'[c] = m /\ \A d \in Coroutines \ {c} : proc'[d] = proc[d]
  BY MovesOn
<1>. SUFFICES ASSUME NEW j \in Clients, Up(j)', ~client'[j].mixed
              PROVE  /\ Alone(j)' /\ \A d \in Coroutines : Rebuilds(d, j)' => Unheard(d, j)'
                     /\ client'[j].sets <= 1 /\ \A t \in Tasks : client'[j].map[t] <= 1
  BY DEF HeardInv
<1>2. CASE j = i
  <2>1. /\ \A d \in Coroutines \ {c} : ~Rebuilds(d, i)'
        /\ client'[i].sets = 0 /\ \A t \in Tasks : client'[i].map[t] = 0
    BY <1>1, <1>2, FreshIs DEF Rebuilds, At
  <2>2. At(c, {"rows"})' /\ ~At(c, {"resolve"})'
    BY <1>1 DEF At
  <2>. QED BY <1>2, <2>1, <2>2 DEF Alone, Unheard
<1>3. CASE j # i
  <2>1. Up(j) /\ ~client[j].mixed
    BY <1>3 DEF Up
  <2>2. ~Rebuilds(c, j)'
    BY <1>1, <1>3 DEF Rebuilds
  <2>3. \A d \in Coroutines : Rebuilds(d, j)' => Rebuilds(d, j) /\ proc'[d] = proc[d]
    BY <1>1, <2>2 DEF Rebuilds, At
  <2>4. Alone(j)'
    BY <2>1, <2>3 DEF Alone, HeardInv
  <2>. QED BY <1>3, <2>1, <2>3, <2>4 DEF HeardInv, Unheard, At
<1>. QED BY <1>2, <1>3

\* The other clients' lists do not concern c, who goes on rebuilding i.
LEMMA HeardRebuilt ==
    ASSUME BotType, HeardInv, NEW c \in Coroutines, NEW m \in ProcType, Go(c, m),
           NEW i \in Clients, Rebuilds(c, i), m.pc \in Rebuilding => m.client = i,
           \A j \in Clients \ {i} : client'[j] = client[j],
           Up(i)' => Up(i) /\ client'[i].mixed = client[i].mixed,
           Up(i)' /\ ~client'[i].mixed =>
               /\ Rebuilds(c, i)' => Unheard(c, i)'
               /\ client'[i].sets <= 1 /\ \A t \in Tasks : client'[i].map[t] <= 1
    PROVE  HeardInv'
<1>1. /\ proc'[c] = m /\ \A d \in Coroutines \ {c} : proc'[d] = proc[d]
  BY MovesOn
<1>2. \A d \in Coroutines, j \in Clients : Rebuilds(d, j)' => Rebuilds(d, j)
  BY <1>1 DEF Rebuilds, At
<1>. SUFFICES ASSUME NEW j \in Clients, Up(j)', ~client'[j].mixed
              PROVE  /\ Alone(j)' /\ \A d \in Coroutines : Rebuilds(d, j)' => Unheard(d, j)'
                     /\ client'[j].sets <= 1 /\ \A t \in Tasks : client'[j].map[t] <= 1
  BY DEF HeardInv
<1>3. Up(j) /\ ~client[j].mixed
  BY DEF Up
<1>4. Alone(j)'
  BY <1>2, <1>3 DEF Alone, HeardInv
<1>5. CASE j = i
  <2>1. \A d \in Coroutines : Rebuilds(d, i)' => d = c
    BY <1>2, <1>3, <1>5 DEF HeardInv, Alone
  <2>. QED BY <1>4, <1>5, <2>1
<1>6. CASE j # i
  <2>1. \A d \in Coroutines : Rebuilds(d, j)' => d # c /\ proc'[d] = proc[d] /\ Rebuilds(d, j)
    BY <1>1, <1>2, <1>6 DEF Rebuilds
  <2>. QED BY <1>3, <1>4, <1>6, <2>1 DEF HeardInv, Unheard, At
<1>. QED BY <1>5, <1>6

-----------------------------------------------------------------------------
(* The actions that leave the clients alone.                               *)

UserInv == BotType /\ HeardInv /\ OwnInv

\* Without a crossing, who reconnects or stops finds nothing connected.
LEMMA NothingConnected ==
    ASSUME UserInv, NEW c \in Coroutines, NEW m \in ProcType, Go(c, m), ~crossed',
           At(c, Reconnecting \cup {"revoked", "stopping", "forget"})
    PROVE  ~crossed /\ ~Connected
<1>1. Calm(c, m)
  BY CalmMove DEF UserInv, OwnInv
<1>2. ~crossed
  BY <1>1, NotCrossed DEF At, Reconnecting
<1>. QED BY <1>2 DEF UserInv, OwnInv, Uncrossed

\* A step that neither rebuilds nor writes a client.
LEMMA PlainStep ==
    ASSUME UserInv, NEW c \in Coroutines, NEW m \in ProcType, Go(c, m),
           LockMoves(c, m), QuietMove(c, m), m.pc \notin Rebuilding, client' = client,
           on' \subseteq Tasks, known' \subseteq Tasks, valid' \subseteq Keys,
           trouble' \in 0 .. MaxTrouble
    PROVE  UserInv'
<1>1. BotType /\ HeardInv /\ OwnInv
  BY DEF UserInv
<1>2. /\ proc'[c] = m /\ \A d \in Coroutines \ {c} : proc'[d] = proc[d]
  BY <1>1, MovesOn
<1>3. OwnInv'
  BY <1>1, QuietKeeps
<1>4. TablesOK /\ ClientsOK(client)
  BY <1>1, TypeIs
<1>5. TablesOK' /\ ClientsOK(client')
  BY <1>4 DEF TablesOK, LockMoves, QuietMove, Stays
<1>6. BotType'
  BY <1>1, <1>5, TypeMoves
<1>7. ListsKept
  BY DEF ListsKept, Up
<1>8. \A d \in Coroutines : At(d, Rebuilding)' => proc'[d] = proc[d]
  BY <1>2 DEF At
<1>9. HeardInv'
  BY <1>1, <1>7, <1>8, HeardStays
<1>. QED BY <1>3, <1>6, <1>9 DEF UserInv

\* The parts of a step's bounds that a fault uses up.
LEMMA TroubleIs ==
    ASSUME BotType
    PROVE  /\ trouble \in 0 .. MaxTrouble
           /\ Happens => trouble' \in 0 .. MaxTrouble
  BY NumberAssumption DEF BotType, TypeOK, Happens

\* The client's keys stay where the clients stay.
LEMMA FadingNot ==
    ASSUME client' = client
    PROVE  Fading
  BY DEF Fading

\* Keys are remembered between reading them and connecting or logging in only.
LEMMA NoKey ==
    ASSUME UserInv, NEW c \in Coroutines, ~At(c, {"connect", "login", "install"})
    PROVE  proc[c].key = 0
  BY DEF UserInv, OwnInv, KeysHeld

\* Who finds no client connected takes the lock.
LEMMA TakeLockStep ==
    ASSUME UserInv, NEW c \in Coroutines, TakeLock(c)
    PROVE  UserInv'
<1>. PICK l : l = proc[c]
  OBVIOUS
<1>. DEFINE m == [l EXCEPT !.pc = "session"]
<1>1. l \in ProcType
  BY DEF UserInv, BotType
<1>2. m \in ProcType /\ m.pc = "session" /\ m.client = l.client /\ m.key = l.key
  BY <1>1 DEF ProcType, Steps
<1>3. Go(c, m) /\ l.pc = "lock" /\ lock = Nobody /\ lock' = c /\ ~Connected /\ client' = client
  BY DEF TakeLock, Entry, Goto, At
<1>. HIDE DEF m
<1>4. m.key = 0
  BY <1>2, <1>3, NoKey DEF At
<1>5. LockMoves(c, m)
  BY <1>2, <1>3 DEF LockMoves
<1>6. QuietMove(c, m)
  BY <1>2, <1>3, <1>4, FadingNot
     DEF QuietMove, Stays, TakeLock, tables, Holding, Rebuilding, At, Changing
<1>. QED
  BY <1>2, <1>3, <1>5, <1>6, PlainStep, TroubleIs
     DEF TakeLock, tables, Rebuilding, UserInv, BotType, TypeOK

\* A coroutine that is done, with the lock given back or kept as it is.
LEMMA ReturnStep ==
    ASSUME UserInv, NEW c \in Coroutines, Return(c), client' = client, Stays,
           lock' = lock \/ (lock = c /\ lock' = Nobody),
           ~At(c, Holding \cup {"stopping"}), At(c, {"stop"}) => ~Connected,
           on' \subseteq Tasks, known' \subseteq Tasks, valid' \subseteq Keys,
           trouble' \in 0 .. MaxTrouble
    PROVE  UserInv'
<1>1. Go(c, Idle) /\ Idle \in ProcType /\ Idle.pc = "idle" /\ Idle.client = 0 /\ Idle.key = 0
  BY IdleIs DEF Return
<1>2. LockMoves(c, Idle)
  BY <1>1 DEF LockMoves, Reconnecting
<1>3. At(c, Changing) /\ ~crossed' => ~Connected
  <2>1. At(c, Changing) => At(c, {"revoked", "forget"}) \/ At(c, {"stop"})
    BY DEF At, Changing, Holding
  <2>2. At(c, {"revoked", "forget"}) => At(c, Reconnecting \cup {"revoked", "stopping", "forget"})
    BY DEF At
  <2>. QED BY <1>1, <2>1, <2>2, NothingConnected
<1>4. QuietMove(c, Idle)
  BY <1>1, <1>3, FadingNot DEF QuietMove, Holding, Rebuilding, At, Reconnecting
<1>. QED BY <1>1, <1>2, <1>4, PlainStep DEF Rebuilding

\* The stored session is read, still with no client connected.
LEMMA ReadSessionStep ==
    ASSUME UserInv, NEW c \in Coroutines, ReadSession(c)
    PROVE  UserInv'
<1>. PICK l : l = proc[c]
  OBVIOUS
<1>1. l \in ProcType /\ l.pc = "session" /\ lock = c
  BY DEF UserInv, BotType, ReadSession, At, OwnInv, LockHeld, Reconnecting
<1>2. Stays /\ client' = client /\ on' \subseteq Tasks /\ known' \subseteq Tasks
      /\ valid' \subseteq Keys /\ trouble' \in 0 .. MaxTrouble
  BY TroubleIs DEF ReadSession, tables, UserInv, BotType, TypeOK, Stays
<1>3. CASE session = 0
  <2>1. Release(c) /\ Return(c)
    BY <1>3 DEF ReadSession
  <2>2. lock' = lock \/ (lock = c /\ lock' = Nobody)
    BY <2>1 DEF Release
  <2>3. ~At(c, Holding \cup {"stopping"}) /\ ~At(c, {"stop"})
    BY <1>1 DEF At, Holding
  <2>. QED BY <1>2, <2>1, <2>2, <2>3, ReturnStep
<1>4. CASE session # 0
  <2>. DEFINE m == [l EXCEPT !.pc = "connect", !.key = session]
  <2>1. m \in ProcType /\ m.pc = "connect" /\ m.client = l.client /\ m.key = session
    BY <1>1 DEF ProcType, Steps, UserInv, BotType, TypeOK
  <2>2. Go(c, m) /\ lock' = lock
    BY <1>4 DEF ReadSession
  <2>. HIDE DEF m
  <2>3. ~crossed' => ~Connected
    BY <1>1, <2>1, <2>2, NothingConnected DEF At, Reconnecting
  <2>4. LockMoves(c, m)
    BY <1>1, <2>1, <2>2 DEF LockMoves
  <2>5. QuietMove(c, m)
    BY <1>1, <1>2, <1>4, <2>1, <2>3, FadingNot DEF QuietMove, Holding, Rebuilding, At, Changing
  <2>. QED BY <1>2, <2>1, <2>2, <2>4, <2>5, PlainStep DEF Rebuilding
<1>. QED BY <1>3, <1>4

\* Whoever begins something else than a login holds nothing and remembers nothing.
LEMMA BeginStep ==
    ASSUME UserInv, NEW c \in Coroutines, NEW m \in ProcType, Go(c, m), At(c, {"idle"}),
           m.pc \in {"lock", "stop"}, m.client = 0, m.key = 0, c = Healer => m.pc = "lock",
           client' = client, Stays, lock' = lock,
           on' \subseteq Tasks, known' \subseteq Tasks, valid' \subseteq Keys, trouble' = trouble
    PROVE  UserInv'
<1>1. LockMoves(c, m)
  BY DEF LockMoves, Reconnecting
<1>2. QuietMove(c, m)
  BY FadingNot DEF QuietMove, Holding, Rebuilding, At, Changing, Reconnecting
<1>. QED BY <1>1, <1>2, PlainStep, TroubleIs DEF Rebuilding, UserInv

\* logout ends the session at Telegram before anything else.
LEMMA BeginLogoutStep ==
    ASSUME UserInv, NEW c \in Coroutines, BeginLogout(c)
    PROVE  UserInv'
<1>. DEFINE m == [Idle EXCEPT !.pc = "stop", !.next = "forget"]
<1>1. m \in ProcType /\ m.pc = "stop" /\ m.client = 0 /\ m.key = 0
  BY DEF Idle, ProcType, Steps
<1>2. Go(c, m)
  BY DEF BeginLogout
<1>3. valid' \subseteq Keys
  BY DEF BeginLogout, UserInv, BotType, TypeOK
<1>. HIDE DEF m
<1>. QED
  BY <1>1, <1>2, <1>3, BeginStep DEF BeginLogout, Stays, UserInv, BotType, TypeOK

\* A ban switches the tasks off before the client is stopped.
LEMMA BeginBanStep ==
    ASSUME UserInv, NEW c \in Coroutines, BeginBan(c)
    PROVE  UserInv'
<1>. DEFINE m == [Idle EXCEPT !.pc = "stop", !.next = "ban"]
<1>1. m \in ProcType /\ m.pc = "stop" /\ m.client = 0 /\ m.key = 0
  BY DEF Idle, ProcType, Steps
<1>2. Go(c, m)
  BY DEF BeginBan
<1>. HIDE DEF m
<1>. QED
  BY <1>1, <1>2, BeginStep DEF BeginBan, Stays, UserInv, BotType, TypeOK

\* Someone needs the client.
LEMMA BeginEnsureStep ==
    ASSUME UserInv, NEW c \in Coroutines, BeginEnsure(c)
    PROVE  UserInv'
<1>. DEFINE m == [Idle EXCEPT !.pc = "lock", !.next = "none"]
<1>1. m \in ProcType /\ m.pc = "lock" /\ m.client = 0 /\ m.key = 0
  BY DEF Idle, ProcType, Steps
<1>2. Go(c, m)
  BY DEF BeginEnsure
<1>. HIDE DEF m
<1>. QED
  BY <1>1, <1>2, BeginStep DEF BeginEnsure, Stays, tables, UserInv, BotType, TypeOK

\* A task is switched, and a reload follows.
LEMMA BeginSwitchStep ==
    ASSUME UserInv, NEW c \in Coroutines, NEW t \in Tasks, BeginSwitch(c, t)
    PROVE  UserInv'
<1>. DEFINE m == [Idle EXCEPT !.pc = "lock", !.next = "reload"]
<1>1. m \in ProcType /\ m.pc = "lock" /\ m.client = 0 /\ m.key = 0
  BY DEF Idle, ProcType, Steps
<1>2. Go(c, m)
  BY DEF BeginSwitch
<1>3. on' \subseteq Tasks
  BY DEF BeginSwitch, UserInv, BotType, TypeOK
<1>. HIDE DEF m
<1>. QED
  BY <1>1, <1>2, <1>3, BeginStep DEF BeginSwitch, Stays, UserInv, BotType, TypeOK

\* heal reloads a runtime that looks ill.
LEMMA HealStep ==
    ASSUME UserInv, Heal
    PROVE  UserInv'
<1>. DEFINE m == [Idle EXCEPT !.pc = "lock", !.next = "reload"]
<1>1. m \in ProcType /\ m.pc = "lock" /\ m.client = 0 /\ m.key = 0
  BY DEF Idle, ProcType, Steps
<1>2. Go(Healer, m) /\ Healer \in Coroutines
  BY DEF Heal, Coroutines
<1>. HIDE DEF m
<1>. QED
  BY <1>1, <1>2, BeginStep DEF Heal, Stays, tables, UserInv, BotType, TypeOK

-----------------------------------------------------------------------------
(* ensure_client's answer, and reload_user.                                *)

\* What is left of a client whose handlers are taken off.
LEMMA EmptiedIs ==
    ASSUME BotType, NEW c \in Coroutines, NEW i \in Clients
    PROVE  /\ Emptied(c, i) \in ClientType /\ Emptied(c, i).key = client[i].key
           /\ Emptied(c, i).key = 0 => Emptied(c, i) = Gone
           /\ Emptied(c, i).left = client[i].left
           /\ Emptied(c, i).map = Gone.map /\ Emptied(c, i).sets = 0
           /\ Up(i) /\ ~Emptied(c, i).mixed => \A d \in Coroutines \ {c} : ~Rebuilds(d, i)
<1>1. client[i] \in ClientType /\ (client[i].key = 0 => client[i] = Gone)
  BY TypeIs DEF ClientsOK
<1>2. CASE ~Up(i)
  BY <1>1, <1>2, FreshIs DEF Emptied, Up
<1>3. CASE Up(i)
  <2>. PICK l : l = client[i].left
    OBVIOUS
  <2>. PICK k : k = client[i].key
    OBVIOUS
  <2>. PICK b \in BOOLEAN : b = (\E d \in Coroutines \ {c} : At(d, Rebuilding) /\ proc[d].client = i)
    OBVIOUS
  <2>1. l \in BOOLEAN /\ k \in Keys \cup {0}
    BY <1>1 DEF ClientType
  <2>. PICK f : f = Fresh(k)
    OBVIOUS
  <2>2. f \in ClientType /\ f.key = k /\ f.map = Gone.map /\ f.sets = 0
    BY <2>1, FreshIs
  <2>. DEFINE r == [f EXCEPT !.left = l, !.mixed = b]
  <2>3. r \in ClientType /\ r.key = k /\ r.map = f.map /\ r.sets = f.sets
        /\ r.left = l /\ r.mixed = b
    BY <2>1, <2>2 DEF ClientType
  <2>4. Emptied(c, i) = r
    BY <1>3 DEF Emptied
  <2>. HIDE DEF r
  <2>. QED BY <1>3, <2>2, <2>3, <2>4 DEF Up, Rebuilds
<1>. QED BY <1>2, <1>3

\* With an answer, who only needed the client returns; a reload goes on with it emptied.
LEMMA ObtainedIs ==
    ASSUME UserInv, NEW c \in Coroutines, NEW i \in Clients, NEW f, ClientsOK(f),
           f[i] = client[i], Obtained(c, i, f)
    PROVE  \E m \in ProcType :
              /\ Go(c, m) /\ m.key = 0 /\ ClientsOK(client')
              /\ \A j \in Clients : client'[j].key = f[j].key /\ client'[j].left = f[j].left
              /\ \/ m.pc = "idle" /\ m.client = 0 /\ client' = f
                 \/ /\ m.pc = "rows" /\ m.client = i
                    /\ \A j \in Clients \ {i} : client'[j] = f[j]
                    /\ Up(i)' /\ ~client'[i].mixed =>
                          /\ \A d \in Coroutines \ {c} : ~Rebuilds(d, i)
                          /\ client'[i].map = Gone.map /\ client'[i].sets = 0
<1>1. CASE proc[c].next = "reload"
  <2>. DEFINE m == [Idle EXCEPT !.pc = "rows", !.client = i]
  <2>1. m \in ProcType /\ m.pc = "rows" /\ m.client = i /\ m.key = 0
    BY DEF Idle, ProcType, Steps
  <2>2. Go(c, m) /\ client' = [f EXCEPT ![i] = Emptied(c, i)]
    BY <1>1 DEF Obtained
  <2>. HIDE DEF m
  <2>. PICK r : r = Emptied(c, i)
    OBVIOUS
  <2>3. /\ r \in ClientType /\ r.key = client[i].key /\ (r.key = 0 => r = Gone)
        /\ r.left = client[i].left /\ r.map = Gone.map /\ r.sets = 0
        /\ Up(i) /\ ~r.mixed => \A d \in Coroutines \ {c} : ~Rebuilds(d, i)
    BY EmptiedIs DEF UserInv
  <2>4. client' = [f EXCEPT ![i] = r]
    BY <2>2
  <2>5. ClientsOK(client')
    BY <2>3, <2>4, OneWritten
  <2>6. client'[i] = r /\ \A j \in Clients \ {i} : client'[j] = f[j]
    BY <2>4 DEF ClientsOK
  <2>7. Up(i)' => Up(i)
    BY <2>3, <2>6 DEF Up
  <2>. QED BY <2>1, <2>2, <2>3, <2>5, <2>6, <2>7
<1>2. CASE proc[c].next # "reload"
  BY <1>2, IdleIs DEF Obtained, Return
<1>. QED BY <1>1, <1>2

\* The connected client is the answer; a reload empties it first.
LEMMA ReuseStep ==
    ASSUME UserInv, NEW c \in Coroutines, Reuse(c)
    PROVE  UserInv'
<1>1. BotType /\ HeardInv /\ OwnInv /\ TablesOK /\ ClientsOK(client)
  BY TypeIs DEF UserInv
<1>2. runtime \in Clients /\ At(c, {"lock"}) /\ lock' = lock /\ Stays
  BY DEF Reuse, Connected, UserInv, BotType, TypeOK, Stays, tables
<1>. PICK i \in Clients : i = runtime
  BY <1>2
<1>3. PICK m \in ProcType :
         /\ Go(c, m) /\ m.key = 0 /\ ClientsOK(client')
         /\ \A j \in Clients : client'[j].key = client[j].key /\ client'[j].left = client[j].left
         /\ \/ m.pc = "idle" /\ m.client = 0 /\ client' = client
            \/ /\ m.pc = "rows" /\ m.client = i
               /\ \A j \in Clients \ {i} : client'[j] = client[j]
               /\ Up(i)' /\ ~client'[i].mixed =>
                     /\ \A d \in Coroutines \ {c} : ~Rebuilds(d, i)
                     /\ client'[i].map = Gone.map /\ client'[i].sets = 0
  <2>1. Obtained(c, i, client)
    BY DEF Reuse
  <2>. QED BY <1>1, <1>2, <2>1, ObtainedIs
<1>4. LockMoves(c, m)
  BY <1>2, <1>3 DEF LockMoves, Reconnecting
<1>5. QuietMove(c, m)
  BY <1>2, <1>3 DEF QuietMove, Fading, Holding, Rebuilding, At, Changing, Reconnecting
<1>6. OwnInv'
  BY <1>1, <1>3, <1>4, <1>5, QuietKeeps
<1>7. BotType'
  <2>1. TablesOK'
    BY <1>1 DEF TablesOK, Reuse, tables
  <2>. QED BY <1>1, <1>3, <2>1, TypeMoves
<1>8. CASE m.pc = "rows"
  <2>1. HeardInv'
    BY <1>1, <1>2, <1>3, <1>8, HeardEmptied
  <2>. QED BY <1>6, <1>7, <2>1 DEF UserInv
<1>9. CASE m.pc = "idle"
  <2>1. client' = client
    BY <1>3, <1>9
  <2>2. proc'[c] = m /\ \A d \in Coroutines \ {c} : proc'[d] = proc[d]
    BY <1>1, <1>3, MovesOn
  <2>3. ListsKept /\ \A d \in Coroutines : At(d, Rebuilding)' => proc'[d] = proc[d]
    BY <1>9, <2>1, <2>2 DEF ListsKept, Up, At, Rebuilding
  <2>4. HeardInv'
    BY <1>1, <2>3, HeardStays
  <2>. QED BY <1>6, <1>7, <2>4 DEF UserInv
<1>. QED BY <1>3, <1>8, <1>9

\* A coroutine that rebuilds a client has one; what it writes leaves its key alone.
LEMMA RebuildStep ==
    ASSUME UserInv, NEW c \in Coroutines, NEW i \in Clients, Rebuilds(c, i),
           NEW m \in ProcType, Go(c, m), m.pc \in Rebuilding \cup {"idle"}, m.key = 0,
           m.client = IF m.pc = "idle" THEN 0 ELSE i,
           ClientsOK(client'), \A j \in Clients \ {i} : client'[j] = client[j],
           /\ client'[i].key = client[i].key /\ client'[i].left = client[i].left
           /\ client'[i].mixed = client[i].mixed,
           Up(i) /\ ~client[i].mixed =>
               /\ m.pc = "rows" => \A t \in Tasks : client'[i].map[t] = 0
               /\ m.pc = "resolve" => \A t \in m.todo : client'[i].map[t] = 0
               /\ m.pc \in Rebuilding => client'[i].sets = 0
               /\ client'[i].sets <= 1 /\ \A t \in Tasks : client'[i].map[t] <= 1,
           Stays, lock' = lock \/ (lock = c /\ lock' = Nobody), on' = on, valid' = valid,
           known' \subseteq Tasks, trouble' \in 0 .. MaxTrouble
    PROVE  UserInv'
<1>1. BotType /\ HeardInv /\ OwnInv /\ TablesOK
  BY TypeIs DEF UserInv
<1>2. proc'[c] = m /\ proc[c].client = i /\ At(c, Rebuilding)
  BY <1>1, MovesOn DEF Rebuilds
<1>3. LockMoves(c, m)
  BY DEF LockMoves, Rebuilding, Reconnecting
<1>4. QuietMove(c, m)
  BY <1>2 DEF QuietMove, Fading, Holding, At, Changing, Reconnecting, Rebuilding
<1>5. OwnInv'
  BY <1>1, <1>3, <1>4, QuietKeeps
<1>6. BotType'
  <2>1. TablesOK'
    BY <1>1 DEF TablesOK, Stays
  <2>. QED BY <1>1, <2>1, TypeMoves
<1>7. Rebuilds(c, i)' => Unheard(c, i)' \/ ~Up(i) \/ client[i].mixed
  BY <1>2 DEF Rebuilds, Unheard, At, Rebuilding
<1>8. Up(i)' => Up(i)
  BY DEF Up
<1>9. HeardInv'
  <2>1. m.pc \in Rebuilding => m.client = i
    BY DEF Rebuilding
  <2>. QED BY <1>1, <1>7, <1>8, <2>1, HeardRebuilt
<1>. QED BY <1>5, <1>6, <1>9 DEF UserInv

\* reload_user reads its tasks for the client it has emptied.
LEMMA ReadTasksStep ==
    ASSUME UserInv, NEW c \in Coroutines, ReadTasks(c)
    PROVE  UserInv'
<1>1. /\ client' = client /\ Stays /\ lock' = lock /\ on' = on /\ known' = known
      /\ valid' = valid /\ trouble' = trouble /\ At(c, {"rows"})
  BY DEF ReadTasks, tables, Stays
<1>2. on' \subseteq Tasks /\ known' \subseteq Tasks /\ valid' \subseteq Keys
      /\ trouble' \in 0 .. MaxTrouble
  BY <1>1 DEF UserInv, BotType, TypeOK
<1>3. CASE Active = {}
  <2>1. Return(c) /\ ~At(c, Holding \cup {"stopping"}) /\ ~At(c, {"stop"})
    BY <1>1, <1>3 DEF ReadTasks, At, Holding
  <2>. QED BY <1>1, <1>2, <2>1, ReturnStep
<1>4. CASE Active # {}
  <2>. PICK l : l = proc[c]
    OBVIOUS
  <2>1. l \in ProcType /\ l.pc = "rows" /\ l.client \in Clients /\ on \subseteq Tasks
    BY <1>1 DEF UserInv, BotType, TypeOK, OwnInv, HeldAlone, At, Rebuilding
  <2>. PICK i \in Clients : i = l.client
    BY <2>1
  <2>. DEFINE m == [l EXCEPT !.pc = "resolve", !.todo = on]
  <2>2. m \in ProcType /\ m.pc = "resolve" /\ m.client = i /\ m.key = l.key /\ m.todo = on
    BY <2>1 DEF ProcType, Steps
  <2>3. Go(c, m)
    BY <1>4 DEF ReadTasks, Active
  <2>. HIDE DEF m
  <2>4. Rebuilds(c, i) /\ l.key = 0
    BY <1>1, NoKey DEF Rebuilds, At, Rebuilding
  <2>5. Up(i) /\ ~client[i].mixed =>
           /\ client[i].sets = 0 /\ \A t \in Tasks : client[i].map[t] = 0
    BY <1>1, <2>4 DEF UserInv, HeardInv, Unheard
  <2>6. ClientsOK(client')
    BY <1>1, TypeIs DEF UserInv
  <2>7. Up(i) /\ ~client[i].mixed =>
           /\ m.pc = "rows" => \A t \in Tasks : client'[i].map[t] = 0
           /\ m.pc = "resolve" => \A t \in m.todo : client'[i].map[t] = 0
           /\ m.pc \in Rebuilding => client'[i].sets = 0
           /\ client'[i].sets <= 1 /\ \A t \in Tasks : client'[i].map[t] <= 1
    BY <1>1, <2>1, <2>2, <2>5
  <2>8. /\ m.pc \in Rebuilding \cup {"idle"} /\ m.key = 0
        /\ m.client = IF m.pc = "idle" THEN 0 ELSE i
    BY <2>2, <2>4 DEF Rebuilding
  <2>. QED BY <1>1, <1>2, <2>2, <2>3, <2>4, <2>6, <2>7, <2>8, RebuildStep
<1>. QED BY <1>3, <1>4

\* One task is dealt with: listed where it was not, or skipped.
LEMMA NextTaskStep ==
    ASSUME UserInv, NEW c \in Coroutines, At(c, {"resolve"}), NEW t \in proc[c].todo,
           NEW found \in BOOLEAN, NEW map \in [Tasks -> Nat],
           \A u \in Tasks : map[u] = client[proc[c].client].map[u]
                            \/ (u = t /\ map[u] = client[proc[c].client].map[u] + 1),
           Next1(c, t, found, map), Stays, lock' = lock, on' = on, valid' = valid,
           known' \subseteq Tasks, trouble' \in 0 .. MaxTrouble
    PROVE  UserInv'
<1>. PICK l : l = proc[c]
  OBVIOUS
<1>1. l \in ProcType /\ l.pc = "resolve" /\ l.client \in Clients /\ l.key = 0 /\ ClientsOK(client)
  BY NoKey, TypeIs DEF UserInv, BotType, OwnInv, HeldAlone, At, Rebuilding
<1>. PICK i \in Clients : i = l.client
  BY <1>1
<1>. PICK o : o = client[i]
  OBVIOUS
<1>2. o \in ClientType /\ (o.key = 0 => o = Gone) /\ Rebuilds(c, i)
  BY <1>1 DEF ClientsOK, Rebuilds, At, Rebuilding
<1>. DEFINE last == l.todo = {t}
<1>. PICK n : n = IF last /\ found THEN o.sets + 1 ELSE o.sets
  OBVIOUS
<1>3. n \in Nat /\ (n = o.sets \/ (last /\ n = o.sets + 1))
  BY <1>2 DEF ClientType
<1>. DEFINE r == [o EXCEPT !.map = map, !.sets = n]
<1>4. r \in ClientType /\ r.key = o.key /\ r.map = map /\ r.sets = n
      /\ r.mixed = o.mixed /\ r.left = o.left
  BY <1>2, <1>3 DEF ClientType
<1>5. client' = [client EXCEPT ![i] = IF Up(i) THEN r ELSE client[i]]
  BY DEF Next1, Write
<1>. HIDE DEF r
<1>6. CASE ~Up(i)
  <2>1. client' = client
    BY <1>5, <1>6, <1>1 DEF ClientsOK
  <2>. QED
    <3>1. \E m \in ProcType :
             /\ Go(c, m) /\ m.pc \in Rebuilding \cup {"idle"} /\ m.key = 0
             /\ m.client = IF m.pc = "idle" THEN 0 ELSE i
      <4>1. CASE last
        BY <4>1, IdleIs DEF Next1, Return
      <4>2. CASE ~last
        <5>. DEFINE m == [l EXCEPT !.todo = l.todo \ {t}, !.found = found]
        <5>1. m \in ProcType /\ m.pc = l.pc /\ m.client = l.client /\ m.key = l.key
          BY <1>1 DEF ProcType
        <5>2. Go(c, m)
          BY <4>2 DEF Next1
        <5>. HIDE DEF m
        <5>. QED BY <1>1, <5>1, <5>2 DEF Rebuilding
      <4>. QED BY <4>1, <4>2
    <3>. QED BY <1>1, <1>2, <1>6, <2>1, <3>1, RebuildStep
<1>7. CASE Up(i)
  <2>1. ClientsOK(client') /\ client'[i] = r /\ \A j \in Clients \ {i} : client'[j] = client[j]
    <3>1. client' = [client EXCEPT ![i] = r] /\ r.key # 0
      BY <1>4, <1>5, <1>7 DEF Up
    <3>. QED BY <1>1, <1>4, <3>1, OneWritten DEF ClientsOK
  <2>2. ASSUME ~o.mixed
        PROVE  /\ o.sets = 0 /\ \A u \in l.todo : o.map[u] = 0
               /\ \A u \in Tasks : o.map[u] <= 1
    BY <1>1, <1>2, <1>7, <2>2 DEF UserInv, HeardInv, Unheard, At
  <2>3. ASSUME ~o.mixed
        PROVE  n <= 1 /\ (~last => n = 0) /\ \A u \in Tasks : map[u] <= 1
    <3>1. l.todo \subseteq Tasks
      BY <1>1 DEF ProcType
    <3>2. o.map \in [Tasks -> Nat] /\ o.sets \in Nat
      BY <1>2 DEF ClientType
    <3>. QED BY <1>3, <2>2, <2>3, <3>1, <3>2
  <2>4. CASE last
    <3>1. Go(c, Idle) /\ Idle \in ProcType /\ Idle.pc = "idle" /\ Idle.client = 0 /\ Idle.key = 0
      BY <2>4, IdleIs DEF Next1, Return
    <3>2. Up(i) /\ ~client[i].mixed => client'[i].sets <= 1 /\ \A u \in Tasks : client'[i].map[u] <= 1
      BY <1>4, <2>1, <2>3
    <3>3. /\ client'[i].key = client[i].key /\ client'[i].left = client[i].left
          /\ client'[i].mixed = client[i].mixed
      BY <1>4, <2>1
    <3>. QED BY <1>2, <2>1, <3>1, <3>2, <3>3, RebuildStep DEF Rebuilding
  <2>5. CASE ~last
    <3>. DEFINE m == [l EXCEPT !.todo = l.todo \ {t}, !.found = found]
    <3>1. m \in ProcType /\ m.pc = "resolve" /\ m.client = i /\ m.key = 0 /\ m.todo = l.todo \ {t}
      BY <1>1 DEF ProcType
    <3>2. Go(c, m)
      BY <2>5 DEF Next1
    <3>. HIDE DEF m
    <3>3. ASSUME ~o.mixed PROVE \A u \in m.todo : map[u] = 0
      <4>1. m.todo \subseteq Tasks
        BY <3>1 DEF ProcType
      <4>2. \A u \in m.todo : map[u] = o.map[u] /\ o.map[u] = 0
        BY <1>1, <2>2, <3>1, <3>3, <4>1
      <4>. QED BY <4>2
    <3>4. Up(i) /\ ~client[i].mixed =>
             /\ m.pc = "rows" => \A u \in Tasks : client'[i].map[u] = 0
             /\ m.pc = "resolve" => \A u \in m.todo : client'[i].map[u] = 0
             /\ m.pc \in Rebuilding => client'[i].sets = 0
             /\ client'[i].sets <= 1 /\ \A u \in Tasks : client'[i].map[u] <= 1
      BY <1>4, <2>1, <2>3, <2>5, <3>1, <3>3
    <3>5. /\ client'[i].key = client[i].key /\ client'[i].left = client[i].left
          /\ client'[i].mixed = client[i].mixed
      BY <1>4, <2>1
    <3>6. m.pc \in Rebuilding \cup {"idle"} /\ m.client = IF m.pc = "idle" THEN 0 ELSE i
      BY <3>1 DEF Rebuilding
    <3>. QED BY <1>2, <2>1, <3>1, <3>2, <3>4, <3>5, <3>6, RebuildStep
  <2>. QED BY <2>4, <2>5
<1>. QED BY <1>6, <1>7

\* A reload that breaks off leaves in the client what it has put there.
LEMMA CutOff ==
    ASSUME UserInv, NEW c \in Coroutines, At(c, Rebuilding), BreaksOff(c), Return(c), Stays,
           lock' = lock \/ (lock = c /\ lock' = Nobody), on' = on, valid' = valid, known' = known,
           trouble' \in 0 .. MaxTrouble
    PROVE  UserInv'
<1>1. /\ proc[c].client \in Clients /\ ClientsOK(client) /\ HeardInv /\ known' \subseteq Tasks
  BY TypeIs DEF UserInv, BotType, TypeOK, OwnInv, HeldAlone, At, Rebuilding
<1>. PICK i \in Clients : i = proc[c].client
  BY <1>1
<1>. PICK o : o = client[i]
  OBVIOUS
<1>2. o \in ClientType /\ (o.key = 0 => o = Gone) /\ Rebuilds(c, i)
  BY <1>1 DEF ClientsOK, Rebuilds
<1>. DEFINE e == [o EXCEPT !.cut = TRUE]
<1>3. e \in ClientType /\ e.key = o.key /\ e.map = o.map /\ e.sets = o.sets
      /\ e.mixed = o.mixed /\ e.left = o.left
  BY <1>2 DEF ClientType
<1>4. client' = [client EXCEPT ![i] = IF Up(i) THEN e ELSE client[i]]
  BY DEF BreaksOff, Write
<1>. HIDE DEF e
<1>5. /\ ClientsOK(client') /\ \A j \in Clients \ {i} : client'[j] = client[j]
      /\ client'[i].key = o.key /\ client'[i].left = o.left /\ client'[i].mixed = o.mixed
      /\ client'[i].map = o.map /\ client'[i].sets = o.sets
  <2>1. CASE Up(i)
    <3>1. client' = [client EXCEPT ![i] = e] /\ e.key # 0
      BY <1>3, <1>4, <2>1 DEF Up
    <3>2. ClientsOK(client') /\ client'[i] = e
      BY <1>1, <1>3, <3>1, OneWritten DEF ClientsOK
    <3>. QED BY <1>3, <3>1, <3>2 DEF ClientsOK
  <2>2. CASE ~Up(i)
    <3>1. client' = client
      BY <1>1, <1>4, <2>2 DEF ClientsOK
    <3>. QED BY <1>1, <3>1
  <2>. QED BY <2>1, <2>2
<1>6. Go(c, Idle) /\ Idle \in ProcType /\ Idle.pc = "idle" /\ Idle.client = 0 /\ Idle.key = 0
  BY IdleIs DEF Return
<1>7. Up(i) /\ ~o.mixed => client'[i].sets <= 1 /\ \A t \in Tasks : client'[i].map[t] <= 1
  BY <1>1, <1>5 DEF HeardInv
<1>. QED BY <1>1, <1>2, <1>5, <1>6, <1>7, RebuildStep DEF Rebuilding

\* A task whose channel is nobody's without its member ends the reload.
LEMMA ReloadFailsStep ==
    ASSUME UserInv, NEW c \in Coroutines, ReloadFails(c)
    PROVE  UserInv'
<1>1. /\ At(c, Rebuilding) /\ BreaksOff(c) /\ Return(c) /\ Stays /\ lock' = lock
      /\ on' = on /\ known' = known /\ valid' = valid /\ trouble' \in 0 .. MaxTrouble
  BY TroubleIs DEF ReloadFails, tables, Stays, UserInv
<1>. QED BY <1>1, CutOff

\* A task is resolved and listed, or skipped.
LEMMA ResolveStep ==
    ASSUME UserInv, NEW c \in Coroutines, NEW t \in Tasks, Resolve(c, t) \/ ResolveFails(c, t)
    PROVE  UserInv'
<1>1. At(c, {"resolve"}) /\ t \in proc[c].todo /\ Stays /\ lock' = lock /\ on' = on /\ valid' = valid
  BY DEF Resolve, ResolveFails, tables, Stays
<1>2. known' \subseteq Tasks /\ trouble' \in 0 .. MaxTrouble
  BY TroubleIs DEF Resolve, ResolveFails, tables, UserInv, BotType, TypeOK
<1>. PICK old : old = client[proc[c].client].map
  OBVIOUS
<1>. PICK b : b = proc[c].found
  OBVIOUS
<1>3. old \in [Tasks -> Nat] /\ b \in BOOLEAN
  <2>1. proc[c].client \in Clients /\ proc[c] \in ProcType /\ ClientsOK(client)
    BY <1>1, TypeIs DEF UserInv, BotType, OwnInv, HeldAlone, At, Rebuilding
  <2>2. client[proc[c].client] \in ClientType
    BY <2>1 DEF ClientsOK
  <2>. QED BY <2>1, <2>2 DEF ClientType, ProcType
<1>4. ASSUME NEW f \in BOOLEAN, NEW map \in [Tasks -> Nat], Next1(c, t, f, map),
             \A u \in Tasks : map[u] = client[proc[c].client].map[u]
                              \/ (u = t /\ map[u] = client[proc[c].client].map[u] + 1)
      PROVE  UserInv'
  BY <1>1, <1>2, <1>4, NextTaskStep
<1>5. CASE Resolve(c, t)
  <2>. PICK map : map = [old EXCEPT ![t] = @ + 1]
    OBVIOUS
  <2>1. map \in [Tasks -> Nat] /\ \A u \in Tasks : map[u] = old[u] \/ (u = t /\ map[u] = old[u] + 1)
    BY <1>3
  <2>2. Next1(c, t, TRUE, map)
    BY <1>5 DEF Resolve
  <2>3. \A u \in Tasks : map[u] = client[proc[c].client].map[u]
                          \/ (u = t /\ map[u] = client[proc[c].client].map[u] + 1)
    BY <2>1
  <2>. PICK yes \in BOOLEAN : yes = TRUE
    OBVIOUS
  <2>4. Next1(c, t, yes, map)
    BY <2>2
  <2>. QED BY <1>4, <2>1, <2>3, <2>4
<1>6. CASE ResolveFails(c, t)
  <2>1. Next1(c, t, b, old)
    BY <1>6 DEF ResolveFails
  <2>. QED BY <1>3, <1>4, <2>1
<1>. QED BY <1>5, <1>6

-----------------------------------------------------------------------------
(* The steps that connect, replace or stop a client, or store a session:   *)
(* whoever takes one is apart from the others, or has crossed them.        *)

Untaken(i) == i \in Clients /\ i # runtime /\ \A d \in Coroutines : proc[d].client # i

HeldMove(c, m) ==
    /\ \/ runtime' \in {runtime, 0}
       \/ At(c, Holding) /\ runtime' = proc[c].client
    /\ m.client \in {0, runtime, proc[c].client} \/ Untaken(m.client)
    /\ m.pc \in Holding =>
          /\ runtime' = runtime
          /\ (At(c, Holding) /\ m.client = proc[c].client) \/ Untaken(m.client)
    /\ m.pc = "stopping" => m.client = runtime /\ runtime \in Clients /\ runtime' = 0
    /\ m.pc \in Rebuilding => m.client \in Clients

\* A client that is held is nobody else's: the runtime becomes one only with its holder.
LEMMA HeldKeeps ==
    ASSUME BotType, HeldAlone, NEW c \in Coroutines, NEW m \in ProcType, Go(c, m), HeldMove(c, m)
    PROVE  HeldAlone'
<1>1. /\ proc'[c] = m /\ \A d \in Coroutines \ {c} : proc'[d] = proc[d]
  BY MovesOn
<1>2. 0 \notin Clients
  BY DEF Clients
<1>. SUFFICES ASSUME NEW d \in Coroutines
              PROVE  /\ At(d, Holding)' =>
                           /\ proc'[d].client # runtime'
                           /\ \A e \in Coroutines \ {d} : proc'[e].client # proc'[d].client
                     /\ At(d, {"stopping"})' => proc'[d].client # runtime'
                     /\ At(d, Holding \cup {"stopping"} \cup Rebuilding)' =>
                           proc'[d].client \in Clients
  BY DEF HeldAlone
<1>3. CASE d = c
  <2>1. m.pc \in Holding =>
           /\ m.client \in Clients /\ m.client # runtime'
           /\ \A e \in Coroutines \ {c} : proc[e].client # m.client
    BY DEF HeldMove, Untaken, HeldAlone, At
  <2>. QED BY <1>1, <1>2, <1>3, <2>1 DEF HeldMove, At
<1>4. CASE d # c
  <2>1. proc'[d] = proc[d] /\ At(d, Holding)' = At(d, Holding)
        /\ At(d, {"stopping"})' = At(d, {"stopping"})
        /\ At(d, Holding \cup {"stopping"} \cup Rebuilding)' =
           At(d, Holding \cup {"stopping"} \cup Rebuilding)
    BY <1>1, <1>4 DEF At
  <2>2. At(d, Holding \cup {"stopping"} \cup Rebuilding) => proc[d].client \in Clients
    BY DEF HeldAlone
  <2>3. At(d, Holding \cup {"stopping"}) => proc[d].client # runtime'
    BY <1>2, <1>4, <2>2 DEF HeldMove, HeldAlone, At
  <2>4. At(d, Holding) => m.client # proc[d].client
    BY <1>2, <1>4, <2>2 DEF HeldMove, HeldAlone, At, Untaken
  <2>5. At(d, Holding) => \A e \in Coroutines \ {d} : proc[e].client # proc[d].client
    BY DEF HeldAlone
  <2>. QED BY <1>1, <1>4, <2>1, <2>2, <2>3, <2>4, <2>5 DEF At
<1>. QED BY <1>3, <1>4

KeyMove(c, m) ==
    /\ m.key # 0 => m.pc \in {"connect", "login", "install"}
    /\ m.pc = "connect" => m.key # 0
    /\ m.pc \in {"login", "install"} /\ Up(m.client)' => client'[m.client].key = m.key
    /\ \A i \in Clients : Up(i)' => Untaken(i) \/ (Up(i) /\ client'[i].key = client[i].key)

\* Who remembers a key has a client with it.
LEMMA KeyKeeps ==
    ASSUME BotType, HeldAlone, KeysHeld, NEW c \in Coroutines, NEW m \in ProcType, Go(c, m),
           KeyMove(c, m)
    PROVE  KeysHeld'
<1>1. /\ proc'[c] = m /\ \A d \in Coroutines \ {c} : proc'[d] = proc[d]
  BY MovesOn
<1>. SUFFICES ASSUME NEW d \in Coroutines
              PROVE  /\ proc'[d].key # 0 => At(d, {"connect", "login", "install"})'
                     /\ At(d, {"connect"})' => proc'[d].key # 0
                     /\ At(d, {"login", "install"})' /\ Up(proc[d].client)' =>
                           client'[proc'[d].client].key = proc'[d].key
  BY DEF KeysHeld
<1>2. CASE d = c
  BY <1>1, <1>2 DEF KeyMove, At, Up
<1>3. CASE d # c
  <2>1. proc'[d] = proc[d]
    BY <1>1, <1>3
  <2>2. At(d, {"login", "install"}) => proc[d].client \in Clients /\ ~Untaken(proc[d].client)
    BY DEF HeldAlone, At, Holding, Untaken
  <2>. QED BY <2>1, <2>2 DEF KeyMove, KeysHeld, At, Up
<1>. QED BY <1>2, <1>3

\* Without a crossing, who changes the account or reconnects is the only one.
LEMMA ApartFromOthers ==
    ASSUME BotType, OwnInv, NEW c \in Coroutines, NEW m \in ProcType, Go(c, m), ~crossed',
           At(c, Reconnecting \cup Changing) \/ m.pc \in Changing
    PROVE  \A d \in Coroutines \ {c} : ~At(d, Reconnecting \cup Changing)
<1>1. Calm(c, m)
  BY CalmMove DEF OwnInv
<1>2. CASE At(c, Changing) \/ m.pc \in Changing
  BY <1>1, <1>2 DEF Calm, At
<1>3. CASE At(c, Reconnecting)
  BY <1>1, <1>3 DEF Calm, At, OwnInv, LockHeld
<1>. QED BY <1>2, <1>3 DEF At

\* What c owes while nothing has crossed him.
OwnMove(c, m) ==
    ~crossed' =>
        /\ m.pc \in Reconnecting \cup {"revoked", "stopping", "forget"} => ~Connected'
        /\ m.pc = "connect" => m.key = session'
        /\ m.pc = "connected" /\ Up(m.client)' => client'[m.client].key = session'
        /\ m.pc \in {"login", "install"} =>
              \A j \in Clients : Up(j)' /\ j # m.client => client'[j].key # m.key
        /\ m.pc = "install" => session' = m.key
        /\ Connected' /\ m.pc \notin Changing => client'[runtime'].key = session'

\* Who changes the account or reconnects keeps the invariant, by its parts.
LEMMA ApartKeeps ==
    ASSUME BotType, OwnInv, NEW c \in Coroutines, NEW m \in ProcType, Go(c, m),
           At(c, Reconnecting \cup Changing) \/ m.pc \in Changing,
           LockMoves(c, m), HeldMove(c, m), KeyMove(c, m), OwnMove(c, m), OrphansApart'
    PROVE  OwnInv'
<1>1. /\ proc'[c] = m /\ \A d \in Coroutines \ {c} : proc'[d] = proc[d]
  BY MovesOn
<1>2. Crossing' /\ LockHeld' /\ HealerHeals' /\ HeldAlone' /\ KeysHeld'
  BY CalmMove, LockKeeps, HeldKeeps, KeyKeeps DEF OwnInv
<1>3. ~crossed' => \A d \in Coroutines \ {c} : ~At(d, Reconnecting \cup Changing)'
  <2>1. ~crossed' => \A d \in Coroutines \ {c} : ~At(d, Reconnecting \cup Changing)
    BY ApartFromOthers
  <2>. QED BY <1>1, <2>1 DEF At
<1>4. Uncrossed'
  <2>. SUFFICES ASSUME ~crossed', NEW d \in Coroutines
                PROVE  /\ At(d, Reconnecting \cup {"revoked", "stopping", "forget"})' => ~Connected'
                       /\ At(d, {"connect"})' => proc'[d].key = session'
                       /\ At(d, {"connected"})' /\ Up(proc[d].client)' =>
                             client'[proc'[d].client].key = session'
                       /\ At(d, {"login", "install"})' =>
                             \A j \in Clients : Up(j)' /\ j # proc'[d].client =>
                                client'[j].key # proc'[d].key
                       /\ At(d, {"install"})' => session' = proc'[d].key
    BY DEF Uncrossed
  <2>1. CASE d # c
    BY <1>3, <2>1 DEF At, Reconnecting, Changing
  <2>2. CASE d = c
    BY <1>1, <2>2 DEF OwnMove, At, Up
  <2>. QED BY <2>1, <2>2
<1>5. OwnAccount'
  BY <1>1 DEF OwnAccount, OwnMove, At
<1>. QED BY <1>2, <1>4, <1>5 DEF OwnInv

\* No client is orphaned, and the orphans' keys do not come back.
OrphanMove(c, m) ==
    /\ \A i \in Clients : Orphan(i)' =>
          /\ Orphan(i) /\ client'[i].key = client[i].key
          /\ session' # client[i].key /\ m.key # client[i].key
    /\ \A j \in Clients : Good(j)' =>
          \/ Good(j) /\ client'[j].key = client[j].key
          \/ \A i \in Clients \ {j} : Orphan(i) => client[i].key # client'[j].key

\* OrphansApart stays: no orphan is new, and no key of one comes back.
LEMMA OrphansKeep ==
    ASSUME BotType, OrphansApart, NEW c \in Coroutines, NEW m \in ProcType, Go(c, m),
           OrphanMove(c, m)
    PROVE  OrphansApart'
<1>1. /\ proc'[c] = m /\ \A d \in Coroutines \ {c} : proc'[d] = proc[d]
  BY MovesOn
<1>. SUFFICES ASSUME NEW i \in Clients, Orphan(i)'
              PROVE  /\ session' # client'[i].key
                     /\ \A d \in Coroutines : proc'[d].key # client'[i].key
                     /\ \A j \in Clients \ {i} : Good(j)' => client'[j].key # client'[i].key
  BY DEF OrphansApart
<1>2. /\ Orphan(i) /\ client'[i].key = client[i].key
      /\ session' # client[i].key /\ m.key # client[i].key
  BY DEF OrphanMove
<1>3. /\ \A d \in Coroutines : proc[d].key # client[i].key
      /\ \A j \in Clients \ {i} : Good(j) => client[j].key # client[i].key
  BY <1>2 DEF OrphansApart
<1>4. \A j \in Clients \ {i} : Good(j)' => client'[j].key # client'[i].key
  BY <1>2, <1>3 DEF OrphanMove
<1>. QED BY <1>1, <1>2, <1>3, <1>4

\* A step that rebuilds nothing keeps or empties each client's lists.
LEMMA HeardMoves ==
    ASSUME BotType, HeardInv, NEW c \in Coroutines, NEW m \in ProcType, Go(c, m),
           m.pc \notin Rebuilding, ListsKept
    PROVE  HeardInv'
<1>1. /\ proc'[c] = m /\ \A d \in Coroutines \ {c} : proc'[d] = proc[d]
  BY MovesOn
<1>2. \A d \in Coroutines : At(d, Rebuilding)' => proc'[d] = proc[d]
  BY <1>1 DEF At
<1>. QED BY <1>2, HeardStays

\* Where the clients stay, who holds and stops them decides about the orphans.
LEMMA OrphansStay ==
    ASSUME BotType, NEW c \in Coroutines, NEW m \in ProcType, Go(c, m),
           client' = client, runtime' = runtime,
           ~At(c, {"stopping"}) /\ m.pc # "stopping",
           At(c, Holding) => m.pc \in Holding /\ m.client = proc[c].client,
           \A i \in Clients : Orphan(i) => session' # client[i].key /\ m.key # client[i].key
    PROVE  OrphanMove(c, m)
<1>1. /\ proc'[c] = m /\ \A d \in Coroutines \ {c} : proc'[d] = proc[d]
  BY MovesOn
<1>2. \A i \in Clients : Good(i)' => Good(i)
  BY <1>1 DEF Good, Stops, At, Up
<1>3. \A i \in Clients : Held(i) => Held(i)'
  BY <1>1 DEF Held, Holds, At
<1>4. \A i \in Clients : Orphan(i)' => Orphan(i)
  BY <1>2, <1>3 DEF Orphan
<1>. QED BY <1>2, <1>4 DEF OrphanMove

\* The key of the login is stored: no other client has it.
LEMMA StoreSessionStep ==
    ASSUME UserInv, NEW c \in Coroutines, StoreSession(c)
    PROVE  UserInv'
<1>. PICK l : l = proc[c]
  OBVIOUS
<1>. DEFINE m == [l EXCEPT !.pc = "install"]
<1>1. l \in ProcType /\ l.pc = "login" /\ At(c, {"login"})
  BY DEF UserInv, BotType, StoreSession, At
<1>2. m \in ProcType /\ m.pc = "install" /\ m.client = l.client /\ m.key = l.key
  BY <1>1 DEF ProcType, Steps
<1>3. Go(c, m) /\ session' = l.key /\ client' = client /\ runtime' = runtime /\ lock' = lock
  BY DEF StoreSession, Goto
<1>. HIDE DEF m
<1>4. BotType /\ HeardInv /\ OwnInv /\ TablesOK /\ ClientsOK(client)
  BY TypeIs DEF UserInv
<1>5. TablesOK'
  <2>1. l.key \in Keys \cup {0}
    BY <1>1 DEF ProcType
  <2>. QED BY <1>3, <1>4, <2>1 DEF StoreSession, TablesOK
<1>6. BotType'
  BY <1>2, <1>3, <1>4, <1>5, TypeMoves
<1>7. ListsKept
  BY <1>3 DEF ListsKept, Up
<1>8. HeardInv'
  BY <1>2, <1>3, <1>4, <1>7, HeardMoves DEF Rebuilding
<1>9. LockMoves(c, m)
  BY <1>1, <1>2, <1>3, <1>4 DEF LockMoves, Reconnecting, OwnInv, HealerHeals, At
<1>10. HeldMove(c, m) /\ KeyMove(c, m)
  <2>1. At(c, {"login", "install"})
    BY <1>1 DEF At
  <2>. QED
    BY <1>1, <1>2, <1>3, <1>4, <2>1
       DEF HeldMove, KeyMove, Holding, Rebuilding, At, Up, OwnInv, KeysHeld
<1>11. OwnMove(c, m)
  <2>. SUFFICES ASSUME ~crossed'
                PROVE  \A j \in Clients : Up(j)' /\ j # m.client => client'[j].key # m.key
    BY <1>2, <1>3 DEF OwnMove, Reconnecting, Changing
  <2>1. Calm(c, m)
    BY <1>2, <1>3, <1>4, CalmMove DEF OwnInv
  <2>2. ~crossed
    BY <1>1, <1>2, <2>1, NotCrossed DEF At
  <2>3. \A j \in Clients : Up(j) /\ j # l.client => client[j].key # l.key
    BY <1>1, <1>4, <2>2 DEF OwnInv, Uncrossed, At
  <2>. QED BY <1>2, <1>3, <2>3 DEF Up
<1>12. OrphanMove(c, m)
  <2>1. \A i \in Clients : Orphan(i) => l.key # client[i].key
    BY <1>4 DEF OwnInv, OrphansApart
  <2>. QED BY <1>1, <1>2, <1>3, <1>4, <2>1, OrphansStay DEF At, Holding
<1>13. OrphansApart'
  BY <1>2, <1>3, <1>4, <1>12, OrphansKeep DEF OwnInv
<1>14. OwnInv'
  <2>1. At(c, Reconnecting \cup Changing)
    BY <1>1 DEF At, Changing
  <2>. QED BY <1>2, <1>3, <1>4, <1>9, <1>10, <1>11, <1>13, <2>1, ApartKeeps
<1>. QED BY <1>6, <1>8, <1>14 DEF UserInv

\* The session is forgotten when nothing is connected any more.
LEMMA ForgetSessionStep ==
    ASSUME UserInv, NEW c \in Coroutines, ForgetSession(c)
    PROVE  UserInv'
<1>1. Idle \in ProcType /\ Idle.pc = "idle" /\ Idle.client = 0 /\ Idle.key = 0
  BY IdleIs
<1>2. Go(c, Idle) /\ session' = 0 /\ client' = client /\ runtime' = runtime /\ At(c, {"forget"})
      /\ (lock' = lock \/ (lock = c /\ lock' = Nobody))
  BY DEF ForgetSession, Return, Release
<1>4. BotType /\ HeardInv /\ OwnInv /\ TablesOK /\ ClientsOK(client)
  BY TypeIs DEF UserInv
<1>5. TablesOK'
  BY <1>2, <1>4 DEF ForgetSession, TablesOK
<1>6. BotType'
  BY <1>1, <1>2, <1>4, <1>5, TypeMoves
<1>7. ListsKept
  BY <1>2 DEF ListsKept, Up
<1>8. HeardInv'
  BY <1>1, <1>2, <1>4, <1>7, HeardMoves DEF Rebuilding
<1>9. LockMoves(c, Idle)
  BY <1>1, <1>2 DEF LockMoves, Reconnecting
<1>10. HeldMove(c, Idle) /\ KeyMove(c, Idle)
  BY <1>1, <1>2 DEF HeldMove, KeyMove, Holding, Rebuilding, Up
<1>11. OwnMove(c, Idle)
  <2>. SUFFICES ASSUME ~crossed' PROVE ~Connected'
    BY <1>1 DEF OwnMove, Reconnecting, Changing
  <2>1. ~Connected
    BY <1>1, <1>2, NothingConnected DEF At
  <2>. QED BY <1>2, <2>1 DEF Connected, Up
<1>12. OrphanMove(c, Idle)
  <2>1. \A i \in Clients : Orphan(i) => client[i].key # 0
    BY DEF Orphan, Good, Up
  <2>. QED BY <1>1, <1>2, <1>4, <2>1, OrphansStay DEF At, Holding
<1>13. OrphansApart'
  BY <1>1, <1>2, <1>4, <1>12, OrphansKeep DEF OwnInv
<1>14. OwnInv'
  <2>1. At(c, Reconnecting \cup Changing)
    BY <1>2 DEF At, Changing
  <2>. QED BY <1>1, <1>2, <1>4, <1>9, <1>10, <1>11, <1>13, <2>1, ApartKeeps
<1>. QED BY <1>6, <1>8, <1>14 DEF UserInv

\* A client that nobody has is connected with key k, by c who holds it.
LEMMA NewClient ==
    ASSUME UserInv, NEW c \in Coroutines, NEW m \in ProcType, Go(c, m), NEW n \in Clients,
           ~Up(n), Untaken(n), NEW k \in Keys, client' = [client EXCEPT ![n] = Fresh(k)],
           m.pc \in Holding, m.client = n, m.key \in {0, k}, runtime' = runtime, session' = session,
           ~At(c, Holding \cup {"stopping"}),
           \A i \in Clients : Orphan(i) => client[i].key # k
    PROVE  /\ ClientsOK(client') /\ HeardInv' /\ OrphansApart'
           /\ \A i \in Clients \ {n} : client'[i] = client[i]
           /\ client'[n].key = k /\ Connected' = Connected
<1>. PICK f : f = Fresh(k)
  OBVIOUS
<1>1. f \in ClientType /\ f.key = k /\ k # 0 /\ f.map = Gone.map /\ f.sets = 0
  BY FreshIs DEF Keys
<1>2. BotType /\ HeardInv /\ OwnInv /\ TablesOK /\ ClientsOK(client)
  BY TypeIs DEF UserInv
<1>3. client' = [client EXCEPT ![n] = f]
  OBVIOUS
<1>4. ClientsOK(client') /\ client'[n] = f /\ \A i \in Clients \ {n} : client'[i] = client[i]
  BY <1>1, <1>2, <1>3, OneWritten DEF ClientsOK
<1>5. ListsKept
  <2>1. Alone(n)
    BY DEF Alone, Rebuilds, Untaken
  <2>. QED BY <1>1, <1>4, <2>1 DEF ListsKept, Up
<1>6. HeardInv'
  BY <1>2, <1>5, HeardMoves DEF Rebuilding, Holding
<1>7. Connected' = Connected
  BY <1>2, <1>4 DEF Connected, Up, Untaken, TablesOK
<1>8. /\ proc'[c] = m /\ \A d \in Coroutines \ {c} : proc'[d] = proc[d]
  BY <1>2, MovesOn
<1>9. OrphanMove(c, m)
  <2>1. ASSUME NEW i \in Clients, i # n, Good(i)' PROVE Good(i)
    BY <1>4, <1>8, <2>1 DEF Good, Stops, At, Up
  <2>2. Held(n)'
    BY <1>8 DEF Held, Holds, At
  <2>3. ASSUME NEW i \in Clients, Held(i) PROVE Held(i)'
    BY <1>8, <2>3 DEF Held, Holds, At
  <2>4. ASSUME NEW i \in Clients, Orphan(i)' PROVE i # n /\ Orphan(i)
    BY <2>1, <2>2, <2>3, <2>4 DEF Orphan
  <2>5. ASSUME NEW i \in Clients, Orphan(i) PROVE session # client[i].key /\ client[i].key \notin {0, k}
    BY <1>2, <2>5 DEF OwnInv, OrphansApart, Orphan, Good, Up
  <2>. QED BY <1>1, <1>4, <2>1, <2>4, <2>5 DEF OrphanMove
<1>10. OrphansApart'
  BY <1>2, <1>9, OrphansKeep DEF OwnInv
<1>. QED BY <1>1, <1>4, <1>6, <1>7, <1>10

\* A client is connected with the stored key, held by who has the lock.
LEMMA ConnectStep ==
    ASSUME UserInv, NEW c \in Coroutines, Connect(c)
    PROVE  UserInv'
<1>1. BotType /\ HeardInv /\ OwnInv /\ TablesOK /\ ClientsOK(client)
  BY TypeIs DEF UserInv
<1>. PICK n \in Clients : n = Newest
  BY <1>1, NewestUnused DEF Connect
<1>2. ~Up(n) /\ Untaken(n)
  BY <1>1, NewestUnused DEF Connect, Untaken
<1>. PICK l : l = proc[c]
  OBVIOUS
<1>3. l \in ProcType /\ l.pc = "connect" /\ At(c, {"connect"}) /\ l.key \in Keys
  BY <1>1 DEF BotType, TypeOK, Connect, At
<1>. PICK k \in Keys : k = l.key
  BY <1>3
<1>. DEFINE m == [l EXCEPT !.pc = "connected", !.client = n, !.key = 0]
<1>4. m \in ProcType /\ m.pc = "connected" /\ m.client = n /\ m.key = 0
  BY <1>3 DEF ProcType, Steps
<1>5. /\ Go(c, m) /\ client' = [client EXCEPT ![n] = Fresh(k)]
      /\ runtime' = runtime /\ session' = session /\ lock' = lock
  BY DEF Connect, tables
<1>. HIDE DEF m
<1>6. \A i \in Clients : Orphan(i) => client[i].key # k
  BY <1>1 DEF OwnInv, OrphansApart
<1>7. /\ ClientsOK(client') /\ HeardInv' /\ OrphansApart'
      /\ \A i \in Clients \ {n} : client'[i] = client[i]
      /\ client'[n].key = k /\ Connected' = Connected
  <2>1. m.pc \in Holding /\ m.key \in {0, k} /\ ~At(c, Holding \cup {"stopping"})
    BY <1>3, <1>4 DEF Holding, At
  <2>. QED BY <1>2, <1>4, <1>5, <1>6, <2>1, NewClient
<1>8. BotType'
  <2>1. TablesOK'
    BY <1>1 DEF TablesOK, Connect, tables
  <2>. QED BY <1>1, <1>4, <1>5, <1>7, <2>1, TypeMoves
<1>9. LockMoves(c, m)
  BY <1>1, <1>3, <1>4, <1>5 DEF LockMoves, OwnInv, LockHeld, At, Reconnecting
<1>10. HeldMove(c, m) /\ KeyMove(c, m)
  BY <1>2, <1>4, <1>5, <1>7 DEF HeldMove, KeyMove, Up, Rebuilding
<1>11. OwnMove(c, m)
  <2>. SUFFICES ASSUME ~crossed'
                PROVE  ~Connected' /\ client'[n].key = session'
    BY <1>4 DEF OwnMove
  <2>1. ~crossed /\ ~Connected
    BY <1>3, <1>4, <1>5, NothingConnected DEF At, Reconnecting
  <2>2. k = session
    BY <1>1, <1>3, <2>1 DEF OwnInv, Uncrossed
  <2>. QED BY <1>5, <1>7, <2>1, <2>2
<1>12. OwnInv'
  <2>1. At(c, Reconnecting \cup Changing)
    BY <1>3 DEF At, Reconnecting
  <2>. QED BY <1>1, <1>4, <1>5, <1>7, <1>9, <1>10, <1>11, <2>1, ApartKeeps
<1>. QED BY <1>7, <1>8, <1>12 DEF UserInv

\* Who does not get the client may leave one behind, connected with the key he read:
\* nobody holds it, and it is marked as left.
LEMMA LeftBehind ==
    ASSUME UserInv, NEW c \in Coroutines, At(c, {"connect"}), Remains(c),
           NEW m \in ProcType, Go(c, m), m.pc \in {"idle", "revoked"}, m.client = 0, m.key = 0,
           LockMoves(c, m), Stays, on' = on, known' = known, valid' = valid,
           trouble' \in 0 .. MaxTrouble
    PROVE  UserInv'
<1>1. BotType /\ HeardInv /\ OwnInv /\ TablesOK /\ ClientsOK(client)
  BY TypeIs DEF UserInv
<1>2. ~crossed' => ~Connected
  BY NothingConnected DEF At, Reconnecting
<1>3. CASE client' = client
  <2>1. QuietMove(c, m)
    BY <1>2, <1>3, FadingNot DEF QuietMove, Holding, Rebuilding, At, Changing
  <2>. QED BY <1>1, <1>3, <2>1, PlainStep DEF Rebuilding, TablesOK
<1>4. CASE client' # client
  <2>. PICK k : k = proc[c].key
    OBVIOUS
  <2>1. k \in Keys
    BY <1>1 DEF BotType, TypeOK, OwnInv, KeysHeld
  <2>2. Unused # {} /\ client' = [client EXCEPT ![Newest] = [Fresh(k) EXCEPT !.left = TRUE]]
    BY <1>4 DEF Remains, Room
  <2>. PICK n \in Clients : n = Newest
    BY <1>1, <2>2, NewestUnused
  <2>3. ~Up(n) /\ Untaken(n)
    BY <1>1, <2>2, NewestUnused DEF Untaken
  <2>. PICK f : f = Fresh(k)
    OBVIOUS
  <2>4. f \in ClientType /\ f.key = k /\ k # 0 /\ f.map = Gone.map /\ f.sets = 0
    BY <2>1, FreshIs DEF Keys
  <2>. DEFINE r == [f EXCEPT !.left = TRUE]
  <2>5. r \in ClientType /\ r.key = k /\ r.map = f.map /\ r.sets = f.sets /\ r.left = TRUE
    BY <2>4 DEF ClientType
  <2>6. client' = [client EXCEPT ![n] = r]
    BY <2>2
  <2>. HIDE DEF r
  <2>7. ClientsOK(client') /\ client'[n] = r /\ \A i \in Clients \ {n} : client'[i] = client[i]
    BY <1>1, <2>4, <2>5, <2>6, OneWritten DEF ClientsOK
  <2>8. BotType'
    <3>1. TablesOK'
      BY <1>1 DEF TablesOK, Stays, LockMoves
    <3>. QED BY <1>1, <2>7, <3>1, TypeMoves
  <2>9. HeardInv'
    <3>1. Alone(n)
      BY <2>3 DEF Alone, Rebuilds, Untaken
    <3>2. ListsKept
      BY <2>4, <2>5, <2>7, <3>1 DEF ListsKept, Up
    <3>. QED BY <1>1, <3>2, HeardMoves DEF Rebuilding
  <2>10. Connected' = Connected
    BY <1>1, <2>3, <2>7 DEF Connected, Up, Untaken, TablesOK, Stays
  <2>11. /\ proc'[c] = m /\ \A d \in Coroutines \ {c} : proc'[d] = proc[d]
    BY <1>1, MovesOn
  <2>12. OrphanMove(c, m)
    <3>1. ASSUME NEW i \in Clients, Good(i)' PROVE i # n /\ Good(i)
      BY <2>5, <2>7, <2>11, <3>1 DEF Good, Stops, At, Up
    <3>2. ASSUME NEW i \in Clients, Held(i) PROVE Held(i)'
      BY <2>11, <3>2 DEF Held, Holds, At, Holding
    <3>3. ASSUME NEW i \in Clients, Orphan(i)' PROVE i # n /\ Orphan(i)
      BY <3>1, <3>2, <3>3 DEF Orphan, Stays
    <3>4. ASSUME NEW i \in Clients, Orphan(i) PROVE session # client[i].key /\ client[i].key # 0
      BY <1>1, <3>4 DEF OwnInv, OrphansApart, Orphan, Good, Up
    <3>. QED BY <2>7, <3>1, <3>3, <3>4 DEF OrphanMove, Stays
  <2>13. OrphansApart'
    BY <1>1, <2>12, OrphansKeep DEF OwnInv
  <2>14. HeldMove(c, m) /\ KeyMove(c, m)
    BY <2>3, <2>7 DEF HeldMove, KeyMove, Up, Holding, Rebuilding, Stays
  <2>15. OwnMove(c, m)
    BY <1>2, <2>10 DEF OwnMove
  <2>16. At(c, Reconnecting \cup Changing)
    BY DEF At, Reconnecting
  <2>17. OwnInv'
    BY <1>1, <2>13, <2>14, <2>15, <2>16, ApartKeeps
  <2>. QED BY <2>8, <2>9, <2>17 DEF UserInv
<1>. QED BY <1>3, <1>4

\* A refused key leads to logout, still with no client connected.
LEMMA RefusedStep ==
    ASSUME UserInv, NEW c \in Coroutines, Refused(c)
    PROVE  UserInv'
<1>. DEFINE m == [Idle EXCEPT !.pc = "revoked", !.next = "forget"]
<1>1. m \in ProcType /\ m.pc = "revoked" /\ m.client = 0 /\ m.key = 0
  BY DEF Idle, ProcType, Steps
<1>2. /\ Go(c, m) /\ At(c, {"connect"}) /\ Remains(c) /\ lock' = lock
      /\ Stays /\ on' = on /\ known' = known /\ valid' = valid /\ trouble' = trouble
  BY DEF Refused, Stays, tables
<1>. HIDE DEF m
<1>3. LockMoves(c, m)
  BY <1>1, <1>2 DEF LockMoves, Reconnecting
<1>. QED BY <1>1, <1>2, <1>3, LeftBehind DEF UserInv, BotType, TypeOK

\* A connection that fails, or is cut off, gives the lock back.
LEMMA LetDown ==
    ASSUME UserInv, NEW c \in Coroutines, At(c, {"connect"}), Remains(c), Return(c), Release(c),
           Stays, on' = on, known' = known, valid' = valid, trouble' \in 0 .. MaxTrouble
    PROVE  UserInv'
<1>1. Go(c, Idle) /\ Idle \in ProcType /\ Idle.pc = "idle" /\ Idle.client = 0 /\ Idle.key = 0
  BY IdleIs DEF Return
<1>2. LockMoves(c, Idle)
  BY <1>1 DEF LockMoves, Reconnecting, Release
<1>. QED BY <1>1, <1>2, LeftBehind

\* ensure_client answers None after any other exception.
LEMMA ConnectFailsStep ==
    ASSUME UserInv, NEW c \in Coroutines, ConnectFails(c)
    PROVE  UserInv'
<1>1. /\ At(c, {"connect"}) /\ Remains(c) /\ Return(c) /\ Release(c) /\ Stays
      /\ on' = on /\ known' = known /\ valid' = valid /\ trouble' \in 0 .. MaxTrouble
  BY TroubleIs DEF ConnectFails, tables, Stays, UserInv
<1>. QED BY <1>1, LetDown

\* A login brings a key and a client of its own.
LEMMA BeginLoginStep ==
    ASSUME UserInv, NEW c \in Coroutines, BeginLogin(c)
    PROVE  UserInv'
<1>1. BotType /\ HeardInv /\ OwnInv /\ TablesOK /\ ClientsOK(client)
  BY TypeIs DEF UserInv
<1>. PICK n \in Clients : n = Newest
  BY <1>1, NewestUnused DEF BeginLogin, Room
<1>2. ~Up(n) /\ Untaken(n)
  BY <1>1, NewestUnused DEF BeginLogin, Room, Untaken
<1>. PICK k : k = CHOOSE x \in NewKeys : TRUE
  OBVIOUS
<1>3. k \in NewKeys
  BY DEF BeginLogin
<1>4. /\ k \in Keys /\ k # session /\ \A i \in Clients : client[i].key # k
  BY <1>3 DEF NewKeys
<1>. DEFINE m == [Idle EXCEPT !.pc = "login", !.client = n, !.key = k]
<1>5. m \in ProcType /\ m.pc = "login" /\ m.client = n /\ m.key = k
  BY <1>4 DEF Idle, ProcType, Steps
<1>6. /\ Go(c, m) /\ client' = [client EXCEPT ![n] = Fresh(k)] /\ At(c, {"idle"}) /\ c # Healer
      /\ runtime' = runtime /\ session' = session /\ lock' = lock /\ valid' = valid \cup {k}
  BY DEF BeginLogin
<1>. HIDE DEF m
<1>7. /\ ClientsOK(client') /\ HeardInv' /\ OrphansApart'
      /\ \A i \in Clients \ {n} : client'[i] = client[i]
      /\ client'[n].key = k /\ Connected' = Connected
  <2>1. m.pc \in Holding /\ m.key \in {0, k} /\ ~At(c, Holding \cup {"stopping"})
    BY <1>5, <1>6 DEF Holding, At
  <2>2. \A i \in Clients : Orphan(i) => client[i].key # k
    BY <1>4
  <2>. QED BY <1>2, <1>4, <1>5, <1>6, <2>1, <2>2, NewClient
<1>8. BotType'
  <2>1. TablesOK'
    BY <1>1, <1>4, <1>6 DEF TablesOK, BeginLogin
  <2>. QED BY <1>1, <1>5, <1>6, <1>7, <2>1, TypeMoves
<1>9. LockMoves(c, m)
  BY <1>5, <1>6 DEF LockMoves, Reconnecting
<1>10. HeldMove(c, m) /\ KeyMove(c, m)
  BY <1>2, <1>5, <1>6, <1>7 DEF HeldMove, KeyMove, Up, Rebuilding
<1>11. OwnMove(c, m)
  <2>1. \A j \in Clients : j # n => client'[j].key # k
    BY <1>4, <1>7
  <2>. QED BY <1>5, <2>1 DEF OwnMove, Reconnecting, Changing
<1>12. OwnInv'
  <2>1. m.pc \in Changing
    BY <1>5 DEF Changing
  <2>. QED BY <1>1, <1>5, <1>6, <1>7, <1>9, <1>10, <1>11, <2>1, ApartKeeps
<1>. QED BY <1>7, <1>8, <1>12 DEF UserInv

\* The client that is replaced keeps what it has; after a crossing it is left.
LEMMA AbandonedIs ==
    ASSUME BotType
    PROVE  /\ ClientsOK(Abandoned)
           /\ \A i \in Clients : /\ Abandoned[i].key = client[i].key
                                 /\ Abandoned[i].map = client[i].map
                                 /\ Abandoned[i].sets = client[i].sets
                                 /\ Abandoned[i].mixed = client[i].mixed
                                 /\ client[i].left => Abandoned[i].left
                                 /\ i # runtime => Abandoned[i] = client[i]
                                 /\ i = runtime /\ Up(i) /\ ~Abandoned[i].left => ~crossed
<1>1. ClientsOK(client) /\ crossed \in BOOLEAN
  BY TypeIs
<1>2. CASE ~Connected
  <2>1. \A i \in Clients : ~(i = runtime /\ Up(i))
    BY <1>2 DEF Connected, Clients
  <2>. QED BY <1>1, <1>2, <2>1 DEF Abandoned
<1>3. CASE Connected
  <2>. PICK r \in Clients : r = runtime
    BY <1>3 DEF Connected, BotType, TypeOK
  <2>. PICK o : o = client[r]
    OBVIOUS
  <2>1. o \in ClientType /\ o.key # 0 /\ o.left \in BOOLEAN
    BY <1>1, <1>3 DEF ClientsOK, ClientType, Connected, Up
  <2>. PICK b \in BOOLEAN : b = (o.left \/ crossed)
    OBVIOUS
  <2>. DEFINE s == [o EXCEPT !.left = b]
  <2>2. s \in ClientType /\ s.key = o.key /\ s.map = o.map /\ s.sets = o.sets
        /\ s.mixed = o.mixed /\ s.left = b
    BY <2>1 DEF ClientType
  <2>3. Abandoned = [client EXCEPT ![r] = s]
    BY <1>3 DEF Abandoned
  <2>. HIDE DEF s
  <2>4. ClientsOK(Abandoned) /\ Abandoned[r] = s /\ \A i \in Clients \ {r} : Abandoned[i] = client[i]
    BY <1>1, <2>1, <2>2, <2>3, OneWritten DEF ClientsOK
  <2>. QED BY <2>2, <2>4
<1>. QED BY <1>2, <1>3

\* The runtime becomes n, which c has held; the client in it is replaced.
LEMMA Replaced ==
    ASSUME UserInv, NEW c \in Coroutines, NEW m \in ProcType, Go(c, m), NEW n \in Clients,
           At(c, Holding), proc[c].client = n, m.pc \notin Holding \cup {"stopping"},
           runtime' = n, m.client \in {0, n}, m.key = 0, LockMoves(c, m),
           m.pc \in Rebuilding => m.client = n,
           m.pc \notin Reconnecting \cup Changing,
           \A i \in Clients : client'[i].key = client[i].key /\ (Abandoned[i].left => client'[i].left),
           ~crossed /\ Up(n) => client[n].key = session',
           \A i \in Clients : Orphan(i)' /\ Up(runtime) /\ i = runtime /\ ~crossed =>
               /\ session' # client[i].key
               /\ \A d \in Coroutines \ {c} : proc[d].key # client[i].key
               /\ \A j \in Clients \ {i} : Good(j)' => client[j].key # client[i].key,
           session' = session
    PROVE  OwnInv'
<1>1. /\ proc'[c] = m /\ \A d \in Coroutines \ {c} : proc'[d] = proc[d]
  BY MovesOn DEF UserInv
<1>2. BotType /\ HeardInv /\ OwnInv /\ TablesOK /\ ClientsOK(client)
  BY TypeIs DEF UserInv
<1>3. HeldMove(c, m) /\ KeyMove(c, m)
  BY DEF HeldMove, KeyMove, Up, Holding, Rebuilding, Reconnecting
<1>4. OwnMove(c, m)
  <2>. SUFFICES ASSUME ~crossed', Connected'
                PROVE  client'[runtime'].key = session'
    BY DEF OwnMove, Reconnecting, Changing
  <2>1. ~crossed
    <3>1. Calm(c, m)
      BY <1>2, CalmMove DEF OwnInv
    <3>. QED BY <3>1, NotCrossed
  <2>2. Up(n)
    BY DEF Connected, Up
  <2>. QED BY <2>1, <2>2
<1>5. OrphansApart'
  <2>1. ASSUME NEW i \in Clients PROVE client[i].left => Abandoned[i].left
    BY <1>2, AbandonedIs
  <2>2. ASSUME NEW i \in Clients, Good(i)' PROVE Good(i)
    BY <1>1, <2>1, <2>2 DEF Good, Stops, At, Up, Holding
  <2>3. ASSUME NEW i \in Clients, i # n, Held(i) PROVE Held(i)'
    BY <1>1, <2>3 DEF Held, Holds, At
  <2>. SUFFICES ASSUME NEW i \in Clients, Orphan(i)'
                PROVE  /\ session' # client[i].key
                       /\ \A d \in Coroutines : proc'[d].key # client[i].key
                       /\ \A j \in Clients \ {i} : Good(j)' => client[j].key # client[i].key
    BY DEF OrphansApart
  <2>4. i # n /\ Good(i) /\ ~Held(i) /\ client[i].key # 0
    BY <2>2, <2>3 DEF Orphan, Good, Up
  <2>5. CASE i # runtime
    <3>1. Orphan(i)
      BY <2>4, <2>5 DEF Orphan
    <3>. QED BY <1>1, <1>2, <2>2, <2>4, <3>1 DEF OwnInv, OrphansApart
  <2>6. CASE i = runtime
    <3>1. ~crossed
      BY <1>2, <2>6, AbandonedIs DEF Orphan, Good, Up
    <3>2. Up(runtime)
      BY <2>4, <2>6 DEF Good
    <3>. QED BY <1>1, <2>4, <2>6, <3>1, <3>2
  <2>. QED BY <2>5, <2>6
<1>6. At(c, Reconnecting \cup Changing)
  BY DEF At, Holding, Reconnecting, Changing
<1>. QED BY <1>2, <1>3, <1>4, <1>5, <1>6, ApartKeeps

\* The reconnected client becomes the runtime; only a crossed one was there.
LEMMA PublishStep ==
    ASSUME UserInv, NEW c \in Coroutines, Publish(c)
    PROVE  UserInv'
<1>1. BotType /\ HeardInv /\ OwnInv /\ TablesOK /\ ClientsOK(client)
  BY TypeIs DEF UserInv
<1>2. /\ At(c, {"connected"}) /\ At(c, Holding) /\ proc[c].client \in Clients
      /\ proc[c].client # runtime /\ lock = c
  BY <1>1 DEF Publish, At, Holding, OwnInv, HeldAlone, LockHeld, Reconnecting
<1>. PICK n \in Clients : n = proc[c].client
  BY <1>2
<1>. PICK f : f = Abandoned
  OBVIOUS
<1>3. /\ ClientsOK(f) /\ f[n] = client[n]
      /\ \A i \in Clients : /\ f[i].key = client[i].key /\ f[i].map = client[i].map
                            /\ f[i].sets = client[i].sets /\ f[i].mixed = client[i].mixed
  BY <1>1, <1>2, AbandonedIs
<1>4. /\ runtime' = n /\ session' = session /\ on' = on /\ known' = known /\ valid' = valid
      /\ trouble' = trouble /\ Release(c) /\ Obtained(c, n, f)
  BY DEF Publish, tables
<1>5. PICK m \in ProcType :
         /\ Go(c, m) /\ m.key = 0 /\ ClientsOK(client')
         /\ \A j \in Clients : client'[j].key = f[j].key /\ client'[j].left = f[j].left
         /\ \/ m.pc = "idle" /\ m.client = 0 /\ client' = f
            \/ /\ m.pc = "rows" /\ m.client = n
               /\ \A j \in Clients \ {n} : client'[j] = f[j]
               /\ Up(n)' /\ ~client'[n].mixed =>
                     /\ \A d \in Coroutines \ {c} : ~Rebuilds(d, n)
                     /\ client'[n].map = Gone.map /\ client'[n].sets = 0
  BY <1>3, <1>4, ObtainedIs
<1>6. lock' = Nobody /\ m.pc \in {"idle", "rows"}
  BY <1>2, <1>4, <1>5 DEF Release
<1>7. LockMoves(c, m)
  BY <1>2, <1>6 DEF LockMoves, Reconnecting
<1>8. BotType'
  <2>1. TablesOK'
    BY <1>1, <1>4, <1>6 DEF TablesOK
  <2>. QED BY <1>1, <1>5, <2>1, TypeMoves
<1>9. HeardInv'
  <2>1. CASE m.pc = "rows"
    <3>1. \A j \in Clients \ {n} : /\ client'[j].key = client[j].key
                                   /\ client'[j].mixed = client[j].mixed
                                   /\ client'[j].map = client[j].map
                                   /\ client'[j].sets = client[j].sets
      BY <1>3, <1>5, <2>1
    <3>. QED BY <1>1, <1>5, <2>1, <3>1, HeardEmptied
  <2>2. CASE m.pc = "idle"
    <3>1. client' = f
      BY <1>5, <2>2
    <3>2. ListsKept
      BY <1>3, <3>1 DEF ListsKept, Up
    <3>. QED BY <1>1, <1>5, <2>2, <3>2, HeardMoves DEF Rebuilding
  <2>. QED BY <1>6, <2>1, <2>2
<1>10. OwnInv'
  <2>1. ~crossed => ~Connected /\ (Up(n) => client[n].key = session')
    BY <1>1, <1>2, <1>4 DEF OwnInv, Uncrossed, At, Reconnecting
  <2>2. ASSUME NEW i \in Clients, Up(runtime), i = runtime PROVE crossed
    BY <2>1, <2>2 DEF Connected, Clients
  <2>3. \A i \in Clients : client'[i].key = client[i].key /\ (Abandoned[i].left => client'[i].left)
    BY <1>3, <1>5
  <2>4. m.pc \notin Holding \cup {"stopping"} /\ m.pc \notin Reconnecting \cup Changing
        /\ m.client \in {0, n} /\ (m.pc \in Rebuilding => m.client = n)
    BY <1>5, <1>6 DEF Holding, Reconnecting, Changing, Rebuilding
  <2>. QED BY <1>2, <1>4, <1>5, <1>7, <2>1, <2>2, <2>3, <2>4, Replaced
<1>. QED BY <1>8, <1>9, <1>10 DEF UserInv

\* The client of the login becomes the runtime; the key of the one that was
\* there is remembered by nobody, or the login has been crossed.
LEMMA InstallStep ==
    ASSUME UserInv, NEW c \in Coroutines, Install(c)
    PROVE  UserInv'
<1>1. BotType /\ HeardInv /\ OwnInv /\ TablesOK /\ ClientsOK(client)
  BY TypeIs DEF UserInv
<1>2. /\ At(c, {"install"}) /\ At(c, Holding) /\ proc[c].client \in Clients
      /\ proc[c].client # runtime
  BY <1>1 DEF Install, At, Holding, OwnInv, HeldAlone
<1>. PICK n \in Clients : n = proc[c].client
  BY <1>2
<1>. DEFINE m == [Idle EXCEPT !.pc = "lock", !.next = "reload"]
<1>3. m \in ProcType /\ m.pc = "lock" /\ m.client = 0 /\ m.key = 0
  BY DEF Idle, ProcType, Steps
<1>4. /\ Go(c, m) /\ runtime' = n /\ client' = Abandoned /\ session' = session /\ lock' = lock
      /\ on' = on /\ known' = known /\ valid' = valid /\ trouble' = trouble
  BY DEF Install, Installed, tables
<1>. HIDE DEF m
<1>5. LockMoves(c, m)
  BY <1>3, <1>4 DEF LockMoves, Reconnecting
<1>6. BotType'
  <2>1. TablesOK'
    BY <1>1, <1>4 DEF TablesOK
  <2>2. ClientsOK(client')
    BY <1>1, <1>4, AbandonedIs
  <2>. QED BY <1>1, <1>3, <1>4, <2>1, <2>2, TypeMoves
<1>7. ListsKept
  BY <1>1, <1>4, AbandonedIs DEF ListsKept, Up
<1>8. HeardInv'
  BY <1>1, <1>3, <1>4, <1>7, HeardMoves DEF Rebuilding
<1>9. ASSUME ~crossed, NEW i \in Clients, i = runtime, Orphan(i)'
      PROVE  /\ session' # client[i].key
             /\ \A d \in Coroutines \ {c} : proc[d].key # client[i].key
             /\ \A j \in Clients \ {i} : Good(j)' => client[j].key # client[i].key
  <2>1. /\ \A j \in Clients : client'[j].key = client[j].key
        /\ \A j \in Clients : client[j].left => client'[j].left
    BY <1>1, <1>4, AbandonedIs
  <2>2. /\ proc'[c] = m /\ \A d \in Coroutines \ {c} : proc'[d] = proc[d]
    BY <1>1, <1>3, <1>4, MovesOn
  <2>3. ASSUME NEW j \in Clients, Good(j)' PROVE Good(j)
    BY <1>2, <2>1, <2>2, <2>3 DEF Good, Stops, At, Up
  <2>4. \A d \in Coroutines \ {c} : ~At(d, Changing \cup Reconnecting)
    <3>1. At(c, Changing)
      BY <1>2 DEF At, Changing
    <3>. QED BY <1>1, <1>9, <3>1 DEF OwnInv, Crossing
  <2>5. session = proc[c].key /\ \A j \in Clients : Up(j) /\ j # n => client[j].key # session
    BY <1>1, <1>2, <1>9 DEF OwnInv, Uncrossed, At
  <2>6. Good(i) /\ i # n /\ client[i].key \notin {0, session}
    BY <1>2, <1>9, <2>3, <2>5 DEF Orphan, Good, Up
  <2>7. \A d \in Coroutines \ {c} : proc[d].key = 0 /\ ~At(d, Holding)
    BY <1>1, <2>4 DEF OwnInv, KeysHeld, At, Holding, Changing, Reconnecting
  <2>8. ASSUME NEW j \in Clients \ {i}, Good(j)' PROVE client[j].key # client[i].key
    <3>1. Good(j)
      BY <2>3, <2>8
    <3>2. CASE j = n
      BY <1>1, <1>2, <2>5, <2>6, <3>1, <3>2 DEF Good, OwnInv, KeysHeld, At
    <3>3. CASE j # n
      <4>1. Orphan(j)
        BY <1>9, <2>7, <2>8, <3>1, <3>3 DEF Orphan, Held, Holds
      <4>. QED BY <1>1, <2>6, <2>8, <4>1 DEF OwnInv, OrphansApart
    <3>. QED BY <3>2, <3>3
  <2>. QED BY <1>4, <2>6, <2>7, <2>8
<1>10. OwnInv'
  <2>1. ~crossed => (Up(n) => client[n].key = session')
    BY <1>1, <1>2, <1>4 DEF OwnInv, Uncrossed, KeysHeld, At
  <2>2. \A i \in Clients : client'[i].key = client[i].key /\ (Abandoned[i].left => client'[i].left)
    BY <1>1, <1>4, AbandonedIs
  <2>3. m.pc \notin Holding \cup {"stopping"} /\ m.pc \notin Reconnecting \cup Changing
        /\ m.pc \notin Rebuilding
    BY <1>3 DEF Holding, Reconnecting, Changing, Rebuilding
  <2>. QED BY <1>2, <1>3, <1>4, <1>5, <1>9, <2>1, <2>2, <2>3, Replaced
<1>. QED BY <1>6, <1>8, <1>10 DEF UserInv

\* After stop_user: the session is forgotten, or the coroutine is done.
LEMMA StoppedIs ==
    ASSUME NEW c \in Coroutines, Stopped(c)
    PROVE  \E m \in ProcType : /\ Go(c, m) /\ m.pc \in {"idle", "forget"}
                               /\ m.client = 0 /\ m.key = 0
<1>1. CASE proc[c].next = "forget"
  <2>. DEFINE m == [Idle EXCEPT !.pc = "forget"]
  <2>1. m \in ProcType /\ m.pc = "forget" /\ m.client = 0 /\ m.key = 0
    BY DEF Idle, ProcType, Steps
  <2>2. Go(c, m)
    BY <1>1 DEF Stopped
  <2>. HIDE DEF m
  <2>. QED BY <2>1, <2>2
<1>2. CASE proc[c].next # "forget"
  BY <1>2, IdleIs DEF Stopped, Return
<1>. QED BY <1>1, <1>2

\* The runtime is taken out, and its handlers off.
LEMMA StopStep ==
    ASSUME UserInv, NEW c \in Coroutines, Stop(c)
    PROVE  UserInv'
<1>1. BotType /\ HeardInv /\ OwnInv /\ TablesOK /\ ClientsOK(client)
  BY TypeIs DEF UserInv
<1>2. /\ session' = session /\ on' = on /\ known' = known /\ valid' = valid
      /\ trouble' = trouble /\ lock' = lock /\ At(c, {"stop", "revoked"})
  BY DEF Stop, tables
<1>3. CASE runtime = 0
  <2>1. PICK m \in ProcType : /\ Go(c, m) /\ m.pc \in {"idle", "forget"}
                              /\ m.client = 0 /\ m.key = 0
    BY <1>3, StoppedIs DEF Stop
  <2>2. client' = client /\ Stays /\ ~Connected
    BY <1>2, <1>3 DEF Stop, Stays, Connected
  <2>3. LockMoves(c, m)
    BY <1>2, <2>1 DEF LockMoves, Reconnecting
  <2>4. QuietMove(c, m)
    BY <1>2, <2>1, <2>2, FadingNot DEF QuietMove, Holding, Rebuilding, At
  <2>. QED BY <1>1, <1>2, <2>1, <2>2, <2>3, <2>4, PlainStep DEF Rebuilding, TablesOK
<1>4. CASE runtime # 0
  <2>. PICK r \in Clients : r = runtime
    BY <1>1, <1>4 DEF TablesOK
  <2>. PICK l : l = proc[c]
    OBVIOUS
  <2>. DEFINE m == [l EXCEPT !.pc = "stopping", !.client = r]
  <2>1. l \in ProcType /\ l.pc \in {"stop", "revoked"} /\ l.key = 0
    BY <1>1, <1>2, NoKey DEF BotType, At
  <2>2. m \in ProcType /\ m.pc = "stopping" /\ m.client = r /\ m.key = 0
    BY <2>1 DEF ProcType, Steps
  <2>3. Go(c, m) /\ runtime' = 0
    BY <1>4 DEF Stop, Popped
  <2>. HIDE DEF m
  <2>. PICK o : o = Abandoned[r]
    OBVIOUS
  <2>4. o \in ClientType /\ o.key = client[r].key /\ o.mixed = client[r].mixed
        /\ (client[r].left => o.left)
    BY <1>1, AbandonedIs DEF ClientsOK
  <2>. PICK g : g = Gone.map
    OBVIOUS
  <2>5. g \in [Tasks -> Nat]
    BY FreshIs DEF ClientType
  <2>. DEFINE e == [o EXCEPT !.map = g, !.sets = 0]
  <2>6. e \in ClientType /\ e.key = o.key /\ e.map = g /\ e.sets = 0
        /\ e.mixed = o.mixed /\ e.left = o.left
    BY <2>4, <2>5 DEF ClientType
  <2>7. client' = [client EXCEPT ![r] = IF Up(r) THEN e ELSE client[r]]
    BY <1>4 DEF Stop, Write
  <2>. HIDE DEF e
  <2>8. /\ ClientsOK(client') /\ \A j \in Clients \ {r} : client'[j] = client[j]
        /\ client'[r].key = client[r].key
        /\ Up(r)' => Up(r) /\ client'[r] = e
        /\ client[r].left => client'[r].left
    <3>1. CASE Up(r)
      <4>1. client' = [client EXCEPT ![r] = e] /\ e.key # 0
        BY <2>4, <2>6, <2>7, <3>1 DEF Up
      <4>. QED BY <1>1, <2>4, <2>6, <3>1, <4>1, OneWritten DEF ClientsOK
    <3>2. CASE ~Up(r)
      <4>1. client' = client
        BY <1>1, <2>7, <3>2 DEF ClientsOK
      <4>. QED BY <1>1, <3>2, <4>1 DEF Up
    <3>. QED BY <3>1, <3>2
  <2>9. BotType'
    <3>1. TablesOK'
      BY <1>1, <1>2, <2>3 DEF TablesOK
    <3>. QED BY <1>1, <2>2, <2>3, <2>8, <3>1, TypeMoves
  <2>10. ListsKept
    <3>1. ASSUME Up(r)', ~client'[r].mixed
          PROVE  Alone(r) /\ client'[r].map = Gone.map /\ client'[r].sets = 0
      BY <1>1, <2>4, <2>6, <2>8, <3>1 DEF HeardInv
    <3>. QED BY <2>8, <3>1 DEF ListsKept, Up
  <2>11. HeardInv'
    BY <1>1, <2>2, <2>3, <2>10, HeardMoves DEF Rebuilding
  <2>12. LockMoves(c, m)
    BY <1>2, <2>2 DEF LockMoves, Reconnecting
  <2>13. HeldMove(c, m) /\ KeyMove(c, m)
    BY <2>2, <2>3, <2>8 DEF HeldMove, KeyMove, Up, Holding, Rebuilding
  <2>14. OwnMove(c, m)
    BY <2>2, <2>3 DEF OwnMove, Connected, Reconnecting, Changing
  <2>15. OrphanMove(c, m)
    <3>1. /\ proc'[c] = m /\ \A d \in Coroutines \ {c} : proc'[d] = proc[d]
      BY <1>1, <2>2, <2>3, MovesOn
    <3>2. ASSUME NEW j \in Clients, Good(j)' PROVE Good(j) /\ j # r
      BY <2>1, <2>2, <2>8, <3>1, <3>2 DEF Good, Stops, At, Up
    <3>3. ASSUME NEW j \in Clients, Held(j) PROVE Held(j)'
      BY <2>1, <3>1, <3>3 DEF Held, Holds, At, Holding
    <3>4. ASSUME NEW j \in Clients, Orphan(j)' PROVE Orphan(j)
      BY <3>2, <3>3, <3>4 DEF Orphan
    <3>5. \A j \in Clients : Orphan(j) => session # client[j].key /\ client[j].key # 0
      BY <1>1 DEF OwnInv, OrphansApart, Orphan, Good, Up
    <3>. QED BY <1>2, <2>2, <2>8, <3>2, <3>4, <3>5 DEF OrphanMove
  <2>16. OrphansApart'
    BY <1>1, <2>2, <2>3, <2>15, OrphansKeep DEF OwnInv
  <2>17. OwnInv'
    <3>1. m.pc \in Changing
      BY <2>2 DEF Changing
    <3>. QED BY <1>1, <2>2, <2>3, <2>12, <2>13, <2>14, <2>16, <3>1, ApartKeeps
  <2>. QED BY <2>9, <2>11, <2>17 DEF UserInv
<1>. QED BY <1>3, <1>4

\* c lets go of the client he connected or stops: it is gone, or left behind.
LEMMA LetGo ==
    ASSUME UserInv, NEW c \in Coroutines, NEW m \in ProcType, Go(c, m),
           At(c, {"connected", "stopping"}), m.pc \in {"idle", "forget"}, m.client = 0, m.key = 0,
           NEW i \in Clients, proc[c].client = i, ClientsOK(client'),
           \A j \in Clients \ {i} : client'[j] = client[j],
           Up(i)' => /\ Up(i) /\ client'[i].key = client[i].key /\ client'[i].left
                     /\ client'[i].map = client[i].map /\ client'[i].sets = client[i].sets
                     /\ client'[i].mixed = client[i].mixed,
           Stays, lock' = lock \/ (lock = c /\ lock' = Nobody),
           on' = on, known' = known, valid' = valid, trouble' \in 0 .. MaxTrouble
    PROVE  UserInv'
<1>1. BotType /\ HeardInv /\ OwnInv /\ TablesOK /\ ClientsOK(client)
  BY TypeIs DEF UserInv
<1>2. BotType'
  <2>1. TablesOK'
    BY <1>1 DEF TablesOK, Stays
  <2>. QED BY <1>1, <2>1, TypeMoves
<1>3. ListsKept
  BY DEF ListsKept, Up
<1>4. HeardInv'
  BY <1>1, <1>3, HeardMoves DEF Rebuilding
<1>5. LockMoves(c, m)
  BY DEF LockMoves, Reconnecting
<1>6. HeldMove(c, m) /\ KeyMove(c, m)
  BY DEF HeldMove, KeyMove, Up, Holding, Rebuilding, Stays
<1>7. OwnMove(c, m)
  <2>. SUFFICES ASSUME ~crossed'
                PROVE  ~Connected'
    BY DEF OwnMove, Reconnecting
  <2>1. ~Connected
    BY NothingConnected DEF At, Reconnecting
  <2>. QED BY <1>1, <2>1 DEF Connected, Up, Stays, TablesOK
<1>8. OrphanMove(c, m)
  <2>1. /\ proc'[c] = m /\ \A d \in Coroutines \ {c} : proc'[d] = proc[d]
    BY <1>1, MovesOn
  <2>2. ASSUME NEW j \in Clients, Good(j)' PROVE Good(j) /\ j # i
    BY <2>1, <2>2 DEF Good, Stops, At, Up
  <2>3. ASSUME NEW j \in Clients \ {i}, Held(j) PROVE Held(j)'
    BY <2>1, <2>3 DEF Held, Holds, At
  <2>4. ASSUME NEW j \in Clients, Orphan(j)' PROVE Orphan(j) /\ j # i
    BY <2>2, <2>3, <2>4 DEF Orphan, Stays
  <2>5. \A j \in Clients : Orphan(j) => session # client[j].key /\ client[j].key # 0
    BY <1>1 DEF OwnInv, OrphansApart, Orphan, Good, Up
  <2>. QED BY <2>2, <2>4, <2>5 DEF OrphanMove, Stays
<1>9. OrphansApart'
  BY <1>1, <1>8, OrphansKeep DEF OwnInv
<1>10. OwnInv'
  <2>1. At(c, Reconnecting \cup Changing)
    BY DEF At, Reconnecting, Changing
  <2>. QED BY <1>1, <1>5, <1>6, <1>7, <1>9, <2>1, ApartKeeps
<1>. QED BY <1>2, <1>4, <1>10 DEF UserInv

\* The stopped client is disconnected.
LEMMA DisconnectStep ==
    ASSUME UserInv, NEW c \in Coroutines, Disconnect(c)
    PROVE  UserInv'
<1>1. BotType /\ OwnInv /\ ClientsOK(client)
  BY TypeIs DEF UserInv
<1>2. At(c, {"stopping"}) /\ At(c, {"connected", "stopping"})
  BY DEF Disconnect, At
<1>. PICK i \in Clients : i = proc[c].client
  BY <1>1, <1>2 DEF OwnInv, HeldAlone, At
<1>. PICK g : g = Gone
  OBVIOUS
<1>3. g \in ClientType /\ g.key = 0
  BY FreshIs
<1>4. client' = [client EXCEPT ![i] = g]
  BY DEF Disconnect
<1>5. ClientsOK(client') /\ client'[i] = g /\ \A j \in Clients \ {i} : client'[j] = client[j]
  BY <1>1, <1>3, <1>4, OneWritten DEF ClientsOK
<1>6. ~Up(i)'
  BY <1>3, <1>5 DEF Up
<1>7. PICK m \in ProcType : Go(c, m) /\ m.pc \in {"idle", "forget"} /\ m.client = 0 /\ m.key = 0
  BY StoppedIs DEF Disconnect
<1>8. /\ Stays /\ lock' = lock /\ on' = on /\ known' = known /\ valid' = valid
      /\ trouble' \in 0 .. MaxTrouble
  BY <1>1, TroubleIs DEF Disconnect, Stays, tables
<1>. QED BY <1>2, <1>5, <1>6, <1>7, <1>8, LetGo

\* The healer is cut off wherever it stands; a client it held is left behind.
LEMMA TimedOutStep ==
    ASSUME UserInv, TimedOut
    PROVE  UserInv'
<1>. PICK c \in Coroutines : c = Healer
  BY DEF Coroutines
<1>1. BotType /\ OwnInv /\ TablesOK /\ ClientsOK(client)
  BY TypeIs DEF UserInv
<1>2. /\ Return(c) /\ Release(c) /\ Stays /\ on' = on /\ known' = known /\ valid' = valid
      /\ trouble' \in 0 .. MaxTrouble
  BY <1>1, TroubleIs DEF TimedOut, Stays, tables
<1>3. lock' = lock \/ (lock = c /\ lock' = Nobody)
  BY <1>2 DEF Release
<1>4. Go(c, Idle) /\ Idle \in ProcType /\ Idle.pc = "idle" /\ Idle.client = 0 /\ Idle.key = 0
  BY <1>2, IdleIs DEF Return
<1>5. CASE At(c, {"connected", "stopping"})
  <2>. PICK i \in Clients : i = proc[c].client
    BY <1>1, <1>5 DEF OwnInv, HeldAlone, At, Holding
  <2>. PICK o : o = client[i]
    OBVIOUS
  <2>1. o \in ClientType /\ (o.key = 0 => o = Gone)
    BY <1>1 DEF ClientsOK
  <2>. DEFINE e == [o EXCEPT !.left = TRUE]
  <2>2. e \in ClientType /\ e.key = o.key /\ e.map = o.map /\ e.sets = o.sets
        /\ e.mixed = o.mixed /\ e.left = TRUE
    BY <2>1 DEF ClientType
  <2>3. client' = [client EXCEPT ![i] = IF Up(i) THEN e ELSE client[i]]
    BY <1>5 DEF TimedOut, Write
  <2>. HIDE DEF e
  <2>4. CASE Up(i)
    <3>1. client' = [client EXCEPT ![i] = e] /\ e.key # 0
      BY <2>2, <2>3, <2>4 DEF Up
    <3>2. ClientsOK(client') /\ client'[i] = e /\ \A j \in Clients \ {i} : client'[j] = client[j]
      BY <1>1, <2>2, <3>1, OneWritten DEF ClientsOK
    <3>3. Up(i)' => /\ Up(i) /\ client'[i].key = client[i].key /\ client'[i].left
                    /\ client'[i].map = client[i].map /\ client'[i].sets = client[i].sets
                    /\ client'[i].mixed = client[i].mixed
      BY <2>2, <2>4, <3>2
    <3>. QED BY <1>2, <1>3, <1>4, <1>5, <3>2, <3>3, LetGo
  <2>5. CASE ~Up(i)
    <3>1. client' = client
      BY <1>1, <2>3, <2>5 DEF ClientsOK
    <3>2. ~Up(i)' /\ ClientsOK(client') /\ \A j \in Clients \ {i} : client'[j] = client[j]
      BY <1>1, <2>5, <3>1 DEF Up
    <3>. QED BY <1>2, <1>3, <1>4, <1>5, <3>2, LetGo
  <2>. QED BY <2>4, <2>5
<1>6. CASE At(c, {"connect"})
  BY <1>2, <1>6, LetDown DEF TimedOut
<1>7. CASE At(c, Rebuilding)
  BY <1>2, <1>3, <1>7, CutOff DEF TimedOut
<1>8. CASE ~At(c, {"connect", "connected", "stopping"} \cup Rebuilding)
  <2>1. client' = client
    BY <1>8 DEF TimedOut
  <2>2. ~At(c, Holding \cup {"stopping"}) /\ ~At(c, {"stop"})
    BY <1>1, <1>8 DEF OwnInv, HealerHeals, At, Holding
  <2>. QED BY <1>1, <1>2, <1>3, <2>1, <2>2, ReturnStep DEF TablesOK
<1>. QED BY <1>5, <1>6, <1>7, <1>8 DEF At, Rebuilding

-----------------------------------------------------------------------------
(* The world.                                                              *)

\* Where nobody moves, a client may go.
LEMMA ConnectionLostStep ==
    ASSUME UserInv, NEW i \in Clients, ConnectionLost(i)
    PROVE  UserInv'
<1>1. BotType /\ HeardInv /\ OwnInv /\ TablesOK /\ ClientsOK(client)
      /\ proc \in [Coroutines -> ProcType] /\ crossed \in BOOLEAN
  BY TypeIs DEF UserInv
<1>. PICK g : g = Gone
  OBVIOUS
<1>2. g \in ClientType /\ g.key = 0
  BY FreshIs
<1>3. /\ client' = [client EXCEPT ![i] = g] /\ proc' = proc /\ crossed' = crossed /\ lock' = lock
      /\ runtime' = runtime /\ session' = session /\ on' = on /\ known' = known
      /\ valid' = valid /\ trouble' \in 0 .. MaxTrouble
  BY <1>1, TroubleIs DEF ConnectionLost, tables
<1>4. ClientsOK(client') /\ client'[i] = g /\ \A j \in Clients \ {i} : client'[j] = client[j]
  BY <1>1, <1>2, <1>3, OneWritten DEF ClientsOK
<1>5. \A j \in Clients : Up(j)' => Up(j) /\ client'[j] = client[j]
  BY <1>2, <1>4 DEF Up
<1>6. BotType'
  BY <1>1, <1>3, <1>4, TypeIs DEF TablesOK
<1>7. HeardInv'
  BY <1>1, <1>3, <1>5, HeardStays DEF ListsKept
<1>8. Connected' => Connected /\ client'[runtime] = client[runtime]
  BY <1>1, <1>3, <1>5 DEF Connected, TablesOK, Up
<1>9. HeldAlone' /\ LockHeld' /\ HealerHeals' /\ Crossing'
  BY <1>1, <1>3 DEF OwnInv, HeldAlone, LockHeld, HealerHeals, Crossing, At
<1>10. KeysHeld' /\ Uncrossed'
  <2>1. \A d \in Coroutines : At(d, Holding) => proc[d].client \in Clients
    BY <1>1 DEF OwnInv, HeldAlone, At
  <2>2. KeysHeld'
    BY <1>1, <1>3, <1>5, <2>1 DEF OwnInv, KeysHeld, At, Up, Holding
  <2>3. Uncrossed'
    BY <1>1, <1>3, <1>5, <1>8, <2>1 DEF OwnInv, Uncrossed, At, Up, Holding
  <2>. QED BY <2>2, <2>3
<1>11. OrphansApart'
  <2>1. ASSUME NEW j \in Clients, Good(j)' PROVE Good(j) /\ client'[j] = client[j]
    BY <1>3, <1>5, <2>1 DEF Good, Stops, At
  <2>2. ASSUME NEW j \in Clients, Orphan(j)' PROVE Orphan(j) /\ client'[j] = client[j]
    BY <1>3, <2>1, <2>2 DEF Orphan, Held, Holds, At
  <2>. QED BY <1>1, <1>3, <2>1, <2>2 DEF OwnInv, OrphansApart
<1>12. OwnAccount'
  BY <1>1, <1>3, <1>8 DEF OwnInv, OwnAccount, At
<1>. QED BY <1>6, <1>7, <1>9, <1>10, <1>11, <1>12 DEF UserInv, OwnInv

\* A key that Telegram ends changes nothing here yet.
LEMMA KeyRevokedStep ==
    ASSUME UserInv, (\E k \in Keys : KeyRevoked(k)) \/ UNCHANGED vars
    PROVE  UserInv'
<1>1. /\ client' = client /\ proc' = proc /\ crossed' = crossed /\ lock' = lock
      /\ runtime' = runtime /\ session' = session /\ on' = on /\ known' = known
  BY DEF KeyRevoked, vars
<1>2. BotType /\ TablesOK /\ ClientsOK(client)
      /\ proc \in [Coroutines -> ProcType] /\ crossed \in BOOLEAN
  BY TypeIs DEF UserInv
<1>3. valid' \subseteq Keys /\ trouble' \in 0 .. MaxTrouble
  BY <1>2, TroubleIs DEF KeyRevoked, vars, TablesOK
<1>4. BotType'
  BY <1>1, <1>2, <1>3, TypeIs DEF TablesOK
<1>5. ListsKept
  BY <1>1 DEF ListsKept, Up
<1>6. HeardInv'
  BY <1>1, <1>2, <1>5, HeardStays DEF UserInv
<1>7. OwnInv'
  <2>1. HeldAlone' /\ LockHeld' /\ HealerHeals' /\ Crossing' /\ KeysHeld'
    BY <1>1 DEF UserInv, OwnInv, HeldAlone, LockHeld, HealerHeals, Crossing, KeysHeld, At, Up
  <2>2. Uncrossed' /\ OwnAccount'
    BY <1>1 DEF UserInv, OwnInv, Uncrossed, OwnAccount, At, Up, Connected
  <2>3. OrphansApart'
    BY <1>1 DEF UserInv, OwnInv, OrphansApart, Orphan, Good, Stops, Held, Holds, At, Up
  <2>. QED BY <2>1, <2>2, <2>3 DEF OwnInv
<1>. QED BY <1>4, <1>6, <1>7 DEF UserInv

\* A process that starts again remembers the session and nothing else.
LEMMA RestartStep ==
    ASSUME UserInv, Restart
    PROVE  UserInv'
<1>1. BotType /\ TablesOK
  BY TypeIs DEF UserInv
<1>. DEFINE m == [Idle EXCEPT !.pc = "lock", !.next = "reload"]
<1>2. m \in ProcType /\ m.pc = "lock" /\ m.client = 0 /\ m.key = 0
  BY DEF Idle, ProcType, Steps
<1>3. proc' = [c \in Coroutines |-> IF c = Healer /\ session # 0 THEN m ELSE Idle]
  BY DEF Restart
<1>. HIDE DEF m
<1>4. /\ proc' \in [Coroutines -> ProcType]
      /\ \A c \in Coroutines :
            proc'[c].pc \in {"lock", "idle"} /\ proc'[c].client = 0 /\ proc'[c].key = 0
  BY <1>2, <1>3, IdleIs
<1>. PICK g : g = Gone
  OBVIOUS
<1>5. g \in ClientType /\ g.key = 0
  BY FreshIs
<1>6. /\ client' = [i \in Clients |-> g] /\ runtime' = 0 /\ lock' = Nobody /\ crossed' = FALSE
      /\ session' = session /\ on' = on /\ known' = known /\ valid' = valid
      /\ trouble' \in 0 .. MaxTrouble
  BY <1>1, TroubleIs DEF Restart, tables
<1>7. ClientsOK(client') /\ \A i \in Clients : ~Up(i)'
  BY <1>5, <1>6 DEF ClientsOK, Up
<1>8. BotType'
  BY <1>1, <1>4, <1>6, <1>7, TypeIs DEF TablesOK
<1>9. HeardInv'
  BY <1>7 DEF HeardInv
<1>10. ~Connected'
  BY <1>6 DEF Connected
<1>11. HeldAlone' /\ LockHeld' /\ HealerHeals' /\ Crossing' /\ KeysHeld'
  <2>1. \A c \in Coroutines : /\ ~At(c, Changing)' /\ ~At(c, Reconnecting)' /\ ~At(c, Holding)'
                              /\ ~At(c, {"stopping"})' /\ ~At(c, {"login", "install"})'
                              /\ ~At(c, {"connect"})'
                              /\ ~At(c, Holding \cup {"stopping"} \cup Rebuilding)'
    BY <1>4 DEF At, Changing, Reconnecting, Holding, Rebuilding
  <2>2. ~At(Healer, {"login", "install", "stop"})'
    BY <1>4 DEF At, Coroutines
  <2>. QED BY <1>4, <2>1, <2>2 DEF HeldAlone, LockHeld, HealerHeals, Crossing, KeysHeld
<1>12. Uncrossed'
  BY <1>4, <1>10 DEF Uncrossed, At
<1>13. OrphansApart' /\ OwnAccount'
  BY <1>7, <1>10 DEF OrphansApart, Orphan, Good, OwnAccount
<1>. QED BY <1>8, <1>9, <1>11, <1>12, <1>13 DEF UserInv, OwnInv

-----------------------------------------------------------------------------
(* The theorems.                                                           *)

\* At the start the customer has a session, and nothing is connected.
LEMMA UserInit == Init => UserInv
<1>. SUFFICES ASSUME Init PROVE UserInv
  OBVIOUS
<1>. PICK g : g = Gone
  OBVIOUS
<1>. PICK l : l = Idle
  OBVIOUS
<1>1. g \in ClientType /\ g.key = 0
  BY FreshIs
<1>2. l \in ProcType /\ l.pc = "idle" /\ l.client = 0 /\ l.key = 0
  BY IdleIs
<1>3. client = [i \in Clients |-> g] /\ proc = [c \in Coroutines |-> l]
  BY DEF Init
<1>4. ClientsOK(client) /\ \A i \in Clients : ~Up(i)
  BY <1>1, <1>3 DEF ClientsOK, Up
<1>5. /\ proc \in [Coroutines -> ProcType]
      /\ \A c \in Coroutines : proc[c].pc = "idle" /\ proc[c].client = 0 /\ proc[c].key = 0
  BY <1>2, <1>3
<1>6. BotType
  <2>1. 1 \in Keys /\ 0 \in 0 .. MaxTrouble
    BY NumberAssumption DEF Keys
  <2>2. session = 1 /\ valid = {1} /\ trouble = 0 /\ on = Tasks /\ known = {}
        /\ runtime = 0 /\ lock = Nobody /\ crossed = FALSE
    BY DEF Init
  <2>3. TablesOK /\ crossed \in BOOLEAN
    BY <2>1, <2>2 DEF TablesOK
  <2>. QED BY <1>4, <1>5, <2>3, TypeIs
<1>7. HeardInv
  BY <1>4 DEF HeardInv
<1>8. ~Connected
  BY DEF Init, Connected
<1>9. HeldAlone /\ LockHeld /\ HealerHeals /\ Crossing /\ KeysHeld
  <2>1. ~At(Healer, {"login", "install", "stop"})
    BY <1>5 DEF At, Coroutines
  <2>2. \A c \in Coroutines : /\ ~At(c, Changing) /\ ~At(c, Reconnecting) /\ ~At(c, Holding)
                              /\ ~At(c, {"stopping"}) /\ ~At(c, {"login", "install"})
                              /\ ~At(c, {"connect"})
                              /\ ~At(c, Holding \cup {"stopping"} \cup Rebuilding)
    BY <1>5 DEF At, Changing, Reconnecting, Holding, Rebuilding
  <2>. QED BY <1>5, <2>1, <2>2 DEF HeldAlone, LockHeld, HealerHeals, Crossing, KeysHeld
<1>10. Uncrossed
  BY <1>5, <1>8 DEF Uncrossed, At
<1>11. OrphansApart /\ OwnAccount
  BY <1>4, <1>8 DEF OrphansApart, Orphan, Good, OwnAccount
<1>. QED BY <1>6, <1>7, <1>9, <1>10, <1>11 DEF UserInv, OwnInv

\* Every step of Userbot keeps the invariant.
LEMMA UserStep == UserInv /\ [Next]_vars => UserInv'
<1>. SUFFICES ASSUME UserInv, [Next]_vars PROVE UserInv'
  OBVIOUS
<1>1. ASSUME NEW c \in Coroutines, Proceed(c) PROVE UserInv'
  <2>1. CASE Reuse(c) \/ TakeLock(c) \/ ReadSession(c)
    BY <2>1, ReuseStep, TakeLockStep, ReadSessionStep
  <2>2. CASE Connect(c) \/ Refused(c) \/ Publish(c)
    BY <2>2, ConnectStep, RefusedStep, PublishStep
  <2>3. CASE ReadTasks(c) \/ \E t \in Tasks : Resolve(c, t)
    BY <2>3, ReadTasksStep, ResolveStep
  <2>4. CASE StoreSession(c) \/ Install(c)
    BY <2>4, StoreSessionStep, InstallStep
  <2>5. CASE Stop(c) \/ Disconnect(c) \/ ForgetSession(c)
    BY <2>5, StopStep, DisconnectStep, ForgetSessionStep
  <2>. QED BY <1>1, <2>1, <2>2, <2>3, <2>4, <2>5 DEF Proceed
<1>2. ASSUME NEW c \in Coroutines, Fails(c) PROVE UserInv'
  BY <1>2, ConnectFailsStep, ReloadFailsStep, ResolveStep DEF Fails
<1>3. ASSUME NEW c \in Coroutines, Begin(c) PROVE UserInv'
  <2>1. CASE BeginEnsure(c) \/ BeginLogin(c) \/ BeginLogout(c)
    BY <2>1, BeginEnsureStep, BeginLoginStep, BeginLogoutStep
  <2>2. CASE BeginBan(c) \/ \E t \in Tasks : BeginSwitch(c, t)
    BY <2>2, BeginBanStep, BeginSwitchStep
  <2>. QED BY <1>3, <2>1, <2>2 DEF Begin
<1>4. CASE Heal \/ TimedOut \/ Restart
  BY <1>4, HealStep, TimedOutStep, RestartStep
<1>5. CASE \E i \in Clients : ConnectionLost(i)
  BY <1>5, ConnectionLostStep
<1>6. CASE (\E k \in Keys : KeyRevoked(k)) \/ UNCHANGED vars
  BY <1>6, KeyRevokedStep
<1>. QED BY <1>1, <1>2, <1>3, <1>4, <1>5, <1>6 DEF Next, Coroutines

\* Two clients with one key, neither left nor stopped: one was replaced, or the
\* holder of one has found nothing connected, or has logged in with a key of his own.
LEMMA PairApart ==
    ASSUME UserInv
    PROVE  OneClientPerKey
<1>1. BotType /\ OwnInv
  BY DEF UserInv
<1>. SUFFICES ASSUME NEW i \in Clients, NEW j \in Clients, i # j, Good(i), Good(j), ~crossed,
                     client[i].key = client[j].key
              PROVE  FALSE
  BY DEF OneClientPerKey, Good, Stops
<1>2. ~Orphan(i) /\ ~Orphan(j)
  BY <1>1 DEF OwnInv, OrphansApart
<1>3. ASSUME NEW a \in Clients, NEW b \in Clients, a # b, Good(a), Good(b), Held(b),
             client[a].key = client[b].key
      PROVE  \E c \in Coroutines : At(c, {"connected"}) /\ proc[c].client = b
  <2>1. PICK c \in Coroutines : At(c, Holding) /\ proc[c].client = b
    BY <1>3 DEF Held, Holds
  <2>2. ~At(c, {"login", "install"})
    BY <1>1, <1>3, <2>1 DEF OwnInv, Uncrossed, KeysHeld, Good
  <2>. QED BY <2>1, <2>2 DEF At, Holding
<1>4. ASSUME NEW a \in Clients, NEW b \in Clients, a # b, Good(a), Good(b), a = runtime, Held(b),
             client[a].key = client[b].key
      PROVE  FALSE
  <2>1. PICK c \in Coroutines : At(c, {"connected"})
    BY <1>3, <1>4
  <2>2. ~Connected
    BY <1>1, <2>1 DEF OwnInv, Uncrossed, At, Reconnecting
  <2>. QED BY <1>4, <2>2 DEF Connected, Good, Clients
<1>5. CASE Held(i) /\ Held(j)
  <2>1. PICK c \in Coroutines : At(c, {"connected"}) /\ proc[c].client = i
    BY <1>3, <1>5
  <2>2. PICK d \in Coroutines : At(d, {"connected"}) /\ proc[d].client = j
    BY <1>3, <1>5
  <2>3. lock = c /\ lock = d
    BY <1>1, <2>1, <2>2 DEF OwnInv, LockHeld, At, Reconnecting
  <2>. QED BY <2>1, <2>2, <2>3
<1>. QED BY <1>2, <1>4, <1>5 DEF Orphan

\* The runtime, the stored session, the lock and the clients of the coroutines
\* agree in every state.
THEOREM UserInvariant == Spec => []UserInv
BY UserInit, UserStep, PTL DEF Spec

\* Any number of reloads, from wherever, in any order, with faults, cancellations and
\* restarts: no task is listed twice and no client has two sets of handlers, unless
\* two reloads of one client overlap.
THEOREM HeardInAll == Spec => []HeardOnce
<1>1. UserInv => HeardOnce
  <2>. SUFFICES ASSUME UserInv, NEW i \in Clients, ~client[i].mixed
                PROVE  client[i].sets <= 1 /\ \A t \in Tasks : client[i].map[t] <= 1
    BY DEF HeardOnce
  <2>1. CASE Up(i)
    BY <2>1 DEF UserInv, HeardInv
  <2>2. CASE ~Up(i)
    <3>1. client[i] = Gone
      BY <2>2 DEF UserInv, BotType
    <3>. QED BY <3>1, FreshIs
  <2>. QED BY <2>1, <2>2
<1>. QED BY <1>1, UserInvariant, PTL

\* The client in use is of the stored account, and no other is connected with its key,
\* unless a login or logout has crossed a reconnection, or a cancellation or a
\* reconnection that failed after it had connected has left one.
THEOREM OwnClient == Spec => []OneOwnClient
<1>1. UserInv => OneOwnClient
  BY PairApart DEF UserInv, OwnInv, OneOwnClient
<1>. QED BY <1>1, UserInvariant, PTL
=============================================================================
