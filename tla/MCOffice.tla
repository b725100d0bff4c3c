------------------------------ MODULE MCOffice ------------------------------
(* An instance for TLC of components that share no state: TaskDesk, PlanStore, *)
(* CoinRate, RateLimit, TextPass, SendWays and Reminders.  part says which of *)
(* them a behaviour is about, so that their state spaces add up and do not    *)
(* multiply.                                                                  *)
EXTENDS TLC, TaskDesk, PlanStore, CoinRate, RateLimit, TextPass, SendWays, Reminders

CONSTANTS s1, s2, f1, p1, p1b, p2, n1, n2, r1

VARIABLE part

office == <<desk, store, money, rates, pass, ways, reminding, part>>

\* The customer's channels: p1b is another name of p1.
MCChatOf == [ref \in Refs \cup Places |-> IF ref = p1b THEN p1 ELSE ref]

\* One reseller has all the customers.
MCSellerOf == [c \in Sold |-> r1]

\* Posts of up to four pieces, in which letters and links do not run into each other.
Pieces == {"word", "emoji", "mention", "link", "config", "space", "break"}
Posted == {s \in SeqOf(Pieces, 4) :
             /\ s # <<>>
             /\ \A i \in 1 .. Len(s) - 1 :
                   /\ s[i] = "mention" => s[i + 1] \in {"space", "break", "emoji"}
                   /\ s[i] \in {"word", "config"} => s[i + 1] # "link"
                   /\ s[i] = "link" => s[i + 1] # "word"}

Plain == [rule |-> [on |-> FALSE, by |-> <<>>], strip |-> FALSE, signature |-> <<>>,
          rename |-> FALSE, links |-> FALSE, mentions |-> FALSE, emoji |-> FALSE,
          header |-> <<>>, footer |-> <<>>]

\* Settings in which every step of the pass does something.
Styled == {[Plain EXCEPT !.links = TRUE, !.emoji = TRUE, !.mentions = TRUE],
           [Plain EXCEPT !.links = TRUE, !.header = <<"emoji", "word">>],
           [Plain EXCEPT !.rule = [on |-> TRUE, by |-> <<"emoji", "emoji">>],
                         !.header = <<"emoji">>, !.footer = <<"mention">>],
           [Plain EXCEPT !.strip = TRUE, !.signature = <<"mention">>, !.rename = TRUE,
                         !.links = TRUE]}

\* Posts and settings: every shape under every setting that has a meaning for it.
Posting == [parts |-> <<"text">>, names |-> <<"a", "b">>, holder |-> 1, wanted |-> "none",
            emoji |-> FALSE, forward |-> FALSE, captionOnly |-> FALSE, watermark |-> FALSE,
            rewrite |-> FALSE, byTag |-> FALSE, tag |-> "tag", simple |-> FALSE]
Shapes == {<<"text">>, <<"photo">>, <<"photo", "photo">>, <<"document", "document">>,
           <<"photo", "document">>, <<"odd">>, <<"odd", "photo">>, <<"dice">>, <<"poll">>, <<"quiz">>}
Postings ==
    {o \in [parts : Shapes, names : {Posting.names}, holder : 0 .. 2, wanted : Captions,
            emoji : BOOLEAN, forward : BOOLEAN, captionOnly : BOOLEAN, watermark : BOOLEAN,
            rewrite : BOOLEAN, byTag : BOOLEAN, tag : {Posting.tag}, simple : BOOLEAN] :
       /\ o.holder \in DOMAIN o.parts \cup {0} /\ (o.wanted = "source" => o.holder # 0)
       /\ Head(o.parts) \in {"dice", "poll", "quiz"} => o.holder = 0
       /\ Head(o.parts) = "text" => o.holder = 1
       /\ o.rewrite => Head(o.parts) = "document" /\ ~o.forward
       /\ o.byTag => o.rewrite
       /\ o.watermark => Head(o.parts) = "photo"
       /\ o.emoji => o.wanted # "none"
       /\ o.simple => ~o.forward /\ ~o.rewrite}

\* One post of any kind; or two albums whose files have one name, as photos of one second do,
\* sent side by side by customers of either mode, as they are or watermarked; or two that are
\* rewritten, both under the customer's tag.
Album(simple, watermark) ==
    [Posting EXCEPT !.parts = <<"photo", "photo">>, !.names = <<"a", "a">>, !.wanted = "ours",
                    !.simple = simple, !.watermark = watermark]
Lists == [Posting EXCEPT !.parts = <<"document", "document">>, !.wanted = "ours",
                         !.rewrite = TRUE, !.byTag = TRUE]
Batch == {n1 :> o : o \in Postings} \cup
         {n1 :> Album(x, m) @@ n2 :> Album(y, m) : x \in BOOLEAN, y \in BOOLEAN, m \in BOOLEAN} \cup
         {n1 :> Lists @@ n2 :> Lists}

\* What a behaviour is not about stands at one point.
OfficeInit ==
    /\ DeskInit /\ StoreInit /\ RateInit /\ LimitInit /\ RemindInit
    /\ part \in {"desk", "plans", "money", "limits", "text", "send", "remind"}
    /\ part # "remind" => DOMAIN turn = {"reminders"}
    /\ part # "desk" => tasks = <<>>
    /\ part # "money" => ~auto /\ rate = [c \in Coins |-> 0]
    /\ IF part = "text" THEN PassInit
       ELSE text = <<>> /\ style = Plain /\ sent = Unsent
    /\ IF part = "send" THEN SendInit
       ELSE job = <<>> /\ try = <<>> /\ files = <<>> /\ chat = {} /\ trouble = 0 /\ mixed = {}

OfficeNext ==
    \/ part = "desk" /\ DeskNext
       /\ UNCHANGED <<store, money, rates, pass, ways, reminding, part>>
    \/ part = "plans" /\ StoreNext
       /\ UNCHANGED <<desk, money, rates, pass, ways, reminding, part>>
    \/ part = "money" /\ RateNext
       /\ UNCHANGED <<desk, store, rates, pass, ways, reminding, part>>
    \/ part = "limits" /\ LimitNext
       /\ UNCHANGED <<desk, store, money, pass, ways, reminding, part>>
    \/ part = "text" /\ PassNext
       /\ UNCHANGED <<desk, store, money, rates, ways, reminding, part>>
    \/ part = "send" /\ SendNext
       /\ UNCHANGED <<desk, store, money, rates, pass, reminding, part>>
    \/ part = "remind" /\ RemindNext
       /\ UNCHANGED <<desk, store, money, rates, pass, ways, part>>

OfficeSpec == OfficeInit /\ [][OfficeNext]_office

OfficeSymmetry == Permutations(Handlers)

\* The type invariants of the components whose types no theorem states.
OfficeTypeOK ==
    /\ DeskTypeOK /\ StoreTypeOK /\ RateTypeOK /\ LimitTypeOK /\ RemindTypeOK
    /\ part = "text" => PassTypeOK
    /\ part = "send" => SendTypeOK
=============================================================================
