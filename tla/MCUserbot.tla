----------------------------- MODULE MCUserbot -----------------------------
(* An instance of Userbot for TLC in two parts: the logins and bans of a     *)
(* customer with one task, who does not switch it on again, and the switches *)
(* and bans of a customer with two who has logged in.                        *)
EXTENDS Userbot

CONSTANTS t1, t2, h1

VARIABLE part

bots == <<vars, part>>

\* The Init of Userbot for the tasks of the part.
BotInit ==
    /\ part \in {"logins", "tasks"}
    /\ on = IF part = "logins" THEN {t1} ELSE Tasks
    /\ known = {}
    /\ session = 1 /\ valid = {1}
    /\ client = [i \in Clients |-> Gone]
    /\ runtime = 0
    /\ lock = Nobody
    /\ proc = [c \in Coroutines |-> Idle]
    /\ crossed = FALSE
    /\ trouble = 0

\* The limits leave every step of a coroutine that has started, and of heal, as it is: no
\* fair action is cut short by them.
BotNext ==
    /\ Next
    /\ part = "logins" => on' \subseteq on
    /\ part = "tasks" => valid' \subseteq valid
    /\ UNCHANGED part

BotSpec == BotInit /\ [][BotNext]_bots /\ Scheduled
=============================================================================
