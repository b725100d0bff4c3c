------------------------------ MODULE SendWays ------------------------------
(* How a post is brought to its destination: Copier._send and what it calls  *)
(* (services/copier.py, services/botsend.py, services/docedit.py,            *)
(* services/watermark.py), between the watermark unit Copier._deliver takes  *)
(* and the row it writes.  Every call of Telegram is a step: it may fail, or *)
(* arrive and be answered with an error, and a sending may be cancelled in   *)
(* it.  The files the sendings download lie in one directory.                *)
EXTENDS Integers, Sequences, FiniteSets, Functions, SequencesExt

CONSTANTS
    Sendings,   \* coroutines, each with one post and one destination
    Batches,    \* what some of them have to send: functions from sendings to orders
    MaxTries,   \* bound: how often a post is tried
    MaxTrouble  \* bound: failed calls and cancellations

VARIABLES
    job,     \* [sendings -> the post, the row it has, and what is known of its tries]
    try,     \* [sendings -> what the coroutine holds in this try]
    files,   \* the directory of downloads: [path -> what is in the file]
    chat,    \* the messages standing in the destinations
    trouble, \* failed calls and cancellations so far
    mixed    \* sendings that have another file in hand than the one they put there

ways == <<job, try, files, chat, trouble, mixed>>

-----------------------------------------------------------------------------
(* Orders: a post and the settings it is sent under.  An album has several   *)
(* parts, named for their files; holder is the part that has the source's    *)
(* caption (0: none), wanted what the transformations made of it.  byTag:    *)
(* a rewritten file is called after the customer's tag alone, as settings    *)
(* have it until they are changed, and not after its source.                 *)

Kinds == {"text", "photo", "document", "poll", "quiz", "odd", "dice"}
Opaque == {"odd", "dice"}       \* only Telegram's server can copy these
Captions == {"none", "source", "ours"}

Order == [parts : Seq(Kinds), names : Seq(STRING), holder : Nat, wanted : Captions,
          emoji : BOOLEAN, forward : BOOLEAN, captionOnly : BOOLEAN, watermark : BOOLEAN,
          rewrite : BOOLEAN, byTag : BOOLEAN, tag : STRING, simple : BOOLEAN]

\* A poll is a message of its own; a post without a caption has none to leave as it is.
IsOrder(o) ==
    /\ o \in Order /\ o.parts # <<>> /\ Len(o.names) >= Len(o.parts)
    /\ o.holder \in DOMAIN o.parts \cup {0} /\ (o.wanted = "source" => o.holder # 0)
    /\ Head(o.parts) = "poll" => Len(o.parts) = 1

ASSUME SendWaysAssumption ==
    /\ IsFiniteSet(Sendings)
    /\ MaxTries \in Nat \ {0} /\ MaxTrouble \in Nat
    /\ \A batch \in Batches : /\ batch = [s \in DOMAIN batch |-> batch[s]]
                              /\ \A s \in DOMAIN batch : s \in Sendings /\ IsOrder(batch[s])

\* What Telegram answers instead of doing it.  "permanent" stands for Unsendable too.
Errors == {"flood", "forbidden", "permanent", "transient", "fatal"}

Untried == [at |-> "reserve", way |-> "", part |-> 1, got |-> <<>>, src |-> <<>>, tagged |-> FALSE,
            ids |-> <<>>, error |-> "", plain |-> FALSE, unit |-> FALSE]

SendInit ==
    /\ \E batch \in Batches :
          /\ job = [s \in DOMAIN batch |-> [order |-> batch[s], tries |-> 1, made |-> 0, row |-> <<>>,
                                           slipped |-> FALSE, leaked |-> FALSE]]
          /\ try = [s \in DOMAIN batch |-> Untried]
    /\ files = <<>>
    /\ chat = {}
    /\ trouble = 0
    /\ mixed = {}

-----------------------------------------------------------------------------
(* Which way a post goes.                                                    *)

IsOpaque(o) == \E k \in DOMAIN o.parts : o.parts[k] \in Opaque

\* Copier._send_by_bot
BotWay(o) ==
    IF Head(o.parts) = "text" \/ o.captionOnly THEN "text"
    ELSE IF Head(o.parts) \in {"poll", "quiz"} \/ IsOpaque(o) THEN "refused" ELSE "bot"

\* Copier._send
WayOf(o, unit) ==
    LET first == Head(o.parts)
    IN  IF o.simple THEN BotWay(o)
        ELSE IF o.forward THEN "forward"
        ELSE IF first \in {"poll", "quiz"} /\ ~o.captionOnly
             THEN IF first = "quiz" THEN "refused" ELSE "poll"
        ELSE IF o.captionOnly \/ first = "text" THEN "text"
        ELSE IF IsOpaque(o) THEN "opaque"
        ELSE IF o.rewrite /\ first = "document" THEN "tag"
        ELSE IF unit /\ first = "photo" THEN "mark"
        ELSE "direct"

\* _forward_opaque decides about the caption before it forwards.
Original(o) == IF o.holder = 0 THEN "none" ELSE "source"
DropsCaptions(o) == o.holder # 0 /\ o.wanted # "source"
Signature(o) ==
    IF o.wanted # "ours" \/ (o.holder = 0 /\ \E k \in DOMAIN o.parts : o.parts[k] = "dice")
    THEN "none" ELSE "ours"

\* What each way makes in the chat: one message, or one for each part.
Message(s, k, text, body) ==
    [id |-> job[s].made + k, of |-> s, text |-> text, body |-> body]
Body(s, k, look) == [of |-> s, part |-> k, look |-> look]
Alone(s) == <<Message(s, 1, job[s].order.wanted, Body(s, 0, "text"))>>
Forwards(s, dropped) ==
    [k \in DOMAIN job[s].order.parts |->
        Message(s, k, IF k = job[s].order.holder /\ ~dropped THEN "source" ELSE "none",
                Body(s, k, "forwarded"))]
Media(s, bodies) ==
    [k \in DOMAIN bodies |->
        Message(s, k, IF k = 1 THEN job[s].order.wanted ELSE "none", bodies[k])]
References(s) == Media(s, [k \in DOMAIN job[s].order.parts |-> Body(s, k, "plain")])
Uploads(s) == Media(s, [k \in DOMAIN try[s].got |-> files[try[s].got[k]]])
Poll(s) == <<Message(s, 1, "none", Body(s, 1, "plain"))>>
Ids(messages) == [k \in DOMAIN messages |-> messages[k].id]

-----------------------------------------------------------------------------
(* Steps.  Becomes(s, t): what the coroutine holds from here on.             *)

Becomes(s, t) == try' = [try EXCEPT ![s] = t]
Raised(s, error) == [try[s] EXCEPT !.at = "caught", !.error = error]
Troubled == trouble < MaxTrouble /\ trouble' = trouble + 1
Named(s, messages) == [try[s] EXCEPT !.ids = Ids(messages), !.at = "remember"]

\* Messages were made, and whether it is known.
Made(s, n, unknown) ==
    LET j == job[s]
    IN  job' = [job EXCEPT ![s] = [j EXCEPT !.made = j.made + n, !.slipped = j.slipped \/ unknown]]

\* The directory with a file written, and without some.
Written(path, body) == [p \in DOMAIN files \cup {path} |-> IF p = path THEN body ELSE files[p]]
Unlinked(paths) == files' = Restrict(files, DOMAIN files \ paths)

\* Premium emojis travel with our own text, from an account of the customer.
NeedsPremium(s, messages) ==
    /\ job[s].order.emoji /\ ~job[s].order.simple /\ ~try[s].plain
    /\ \E m \in ToSet(messages) : m.text # "none" /\ m.body.look # "forwarded"

\* A call that puts messages into the chat: it is done, the text needs a premium
\* account, it is refused, or it arrives and only its answer is lost.
Call(s, messages, done, refusal) ==
    \/ /\ chat' = chat \cup ToSet(messages)
       /\ Becomes(s, done) /\ Made(s, Len(messages), FALSE)
       /\ UNCHANGED trouble
    \/ /\ NeedsPremium(s, messages)
       /\ Becomes(s, refusal["premium"])
       /\ UNCHANGED <<job, chat, trouble>>
    \/ /\ Troubled
       /\ \E error \in Errors : Becomes(s, refusal[error])
       /\ UNCHANGED <<job, chat>>
    \/ /\ Troubled
       /\ chat' = chat \cup ToSet(messages)
       /\ Becomes(s, refusal["transient"]) /\ Made(s, Len(messages), TRUE)

Raises(s) == [e \in Errors \cup {"premium"} |-> Raised(s, e)]

\* Copier._deliver takes a unit when the plan has one for every photo of the post.
Reserve(s) ==
    /\ try[s].at = "reserve"
    /\ \E unit \in BOOLEAN :
          LET o == job[s].order
          IN  /\ unit => o.watermark /\ ~o.captionOnly /\ "photo" \in ToSet(o.parts)
              /\ Becomes(s, [try[s] EXCEPT !.unit = unit, !.at = "send", !.way = WayOf(o, unit)])
    /\ UNCHANGED <<job, files, chat, trouble>>

Sends(s, way) == try[s].at = "send" /\ try[s].way = way
GoesTo(s, at) == [try[s] EXCEPT !.at = at]

\* An empty text is no message.
SendText(s) ==
    /\ Sends(s, "text")
    /\ IF job[s].order.wanted = "none"
       THEN Becomes(s, GoesTo(s, "remember")) /\ UNCHANGED <<job, chat, trouble>>
       ELSE Call(s, Alone(s), Named(s, Alone(s)), Raises(s))
    /\ UNCHANGED files

\* A quiz hides its answer; a bot of the simple mode cannot copy polls and opaque posts.
Unsendable(s) ==
    /\ Sends(s, "refused")
    /\ Becomes(s, Raised(s, "permanent"))
    /\ UNCHANGED <<job, files, chat, trouble>>

SendPoll(s) ==
    /\ Sends(s, "poll")
    /\ Call(s, Poll(s), Named(s, Poll(s)), Raises(s))
    /\ UNCHANGED files

\* A part of an album may not arrive; in the forward mode what arrived counts as sent.
Arrived(s, dropped, whole, short, unknown) ==
    LET all == Forwards(s, dropped)
    IN  \/ Call(s, all, whole, Raises(s))
        \/ \E some \in SUBSET DOMAIN all \ {DOMAIN all} :
              LET kept == Restrict(all, some)
              IN  /\ Troubled
                  /\ chat' = chat \cup ToSet(kept)
                  /\ Becomes(s, [short EXCEPT !.ids = Ids(kept)]) /\ Made(s, Len(all), unknown)

ForwardPost(s) ==
    /\ Sends(s, "forward")
    /\ Arrived(s, FALSE, Named(s, Forwards(s, FALSE)), GoesTo(s, "remember"), TRUE)
    /\ UNCHANGED files

\* Copier._forward_opaque: all parts, or none and another try.
ForwardOpaque(s) ==
    /\ Sends(s, "opaque")
    /\ LET o == job[s].order
           whole == Named(s, Forwards(s, DropsCaptions(o)))
       IN  Arrived(s, DropsCaptions(o),
                   IF Signature(o) = "none" THEN whole ELSE [whole EXCEPT !.at = "caption"],
                   [try[s] EXCEPT !.at = "undo", !.error = "transient"], FALSE)
    /\ UNCHANGED files

\* Copier._send: by reference; where that is refused the media is downloaded and sent again.
SendDirect(s) ==
    /\ Sends(s, "direct")
    /\ Call(s, References(s), Named(s, References(s)),
            [e \in Errors \cup {"premium"} |->
                IF e \in {"flood", "forbidden"} THEN Raised(s, e)
                ELSE [try[s] EXCEPT !.at = "fetch", !.way = "again", !.part = 1, !.got = <<>>]])
    /\ UNCHANGED files

\* _set_caption: without the emojis of premium accounts where this account has none.  Refused:
\* a post that lacks only the signature stays, one that lacks its caption is deleted.
SetCaption(s) ==
    /\ try[s].at = "caption"
    /\ LET o == job[s].order
           target == try[s].ids[IF o.holder = 0 THEN 1 ELSE o.holder]
           signed == {IF m.of = s /\ m.id = target THEN [m EXCEPT !.text = "ours"] ELSE m : m \in chat}
       IN  \/ /\ chat' = signed
              /\ Becomes(s, GoesTo(s, "remember"))
              /\ UNCHANGED trouble
           \/ /\ Troubled
              /\ chat' \in {chat, signed}
              /\ \E error \in IF chat' = chat THEN Errors ELSE {"transient"} :
                    Becomes(s, IF ~DropsCaptions(o) THEN GoesTo(s, "remember")
                               ELSE [try[s] EXCEPT
                                     !.at = "undo",
                                     !.error = IF error = "flood" THEN "transient" ELSE error])
    /\ UNCHANGED <<job, files>>

\* _delete_quietly: a refusal is only logged.
DeleteQuietly(s) ==
    /\ try[s].at = "undo"
    /\ Becomes(s, [try[s] EXCEPT !.at = "caught", !.ids = <<>>])
    /\ \/ /\ chat' = {m \in chat : m.of # s \/ m.id \notin ToSet(try[s].ids)}
          /\ UNCHANGED <<job, trouble>>
       \/ /\ Troubled
          /\ Made(s, 0, TRUE)
          /\ UNCHANGED chat
    /\ UNCHANGED files

-----------------------------------------------------------------------------
(* Downloads.  A path is a name and what makes it another one: Telethon      *)
(* numbers a download whose name is taken, while a watermarked or rewritten  *)
(* file is called after its source, or after the tag, and written over       *)
(* whatever has that name.                                                   *)

Numbered(name) == CHOOSE n \in 0 .. Cardinality(DOMAIN files) :
                     /\ <<"", name, n>> \notin DOMAIN files
                     /\ \A m \in 0 .. n - 1 : <<"", name, m>> \in DOMAIN files
Downloaded(name) == <<"", name, Numbered(name)>>
Marked(path) == <<"wm", path[2], path[3]>>          \* with_name(f"wm_{...}")
\* docedit.new_name, _unique_target; of files with one suffix
Tagged(path, o) == IF o.byTag THEN <<"tagged", o.tag, 0>> ELSE <<"tagged", path[2], path[3]>>

\* On to the next part, or all have been tried.
NextPart(s, got) ==
    IF try[s].part = Len(job[s].order.parts)
    THEN [try[s] EXCEPT !.at = "ready", !.got = got]
    ELSE [try[s] EXCEPT !.at = "fetch", !.got = got, !.part = @ + 1]

\* One part is downloaded.  A watermark is drawn at once, a file is rewritten in a thread; an
\* error discards what the loop has so far.
Fetch(s) ==
    /\ try[s].at = "fetch" \/ (try[s].at = "send" /\ try[s].way \in {"bot", "tag", "mark"})
    /\ LET t == try[s]
           path == Downloaded(job[s].order.names[t.part])
           own == Body(s, t.part, "plain")
       IN  \/ /\ t.way = "tag"
              /\ files' = Written(path, own)
              /\ Becomes(s, [t EXCEPT !.at = "rewrite", !.src = path])
              /\ UNCHANGED trouble
           \/ /\ t.way # "tag"
              /\ files' = Written(path, own)
              /\ Becomes(s, NextPart(s, Append(t.got, path)))
              /\ UNCHANGED trouble
           \/ /\ t.way = "mark"
              /\ files' = Written(Marked(path), [own EXCEPT !.look = "marked"])
              /\ Becomes(s, NextPart(s, Append(t.got, Marked(path))))
              /\ UNCHANGED trouble
           \/ /\ Troubled
              /\ Becomes(s, NextPart(s, t.got))
              /\ UNCHANGED files
           \/ /\ Troubled
              /\ \E error \in Errors : Becomes(s, [Raised(s, error) EXCEPT !.got = <<>>])
              /\ Unlinked(ToSet(t.got))
    /\ UNCHANGED <<job, chat>>

\* docedit.rewrite_file: the file with its new tag and name, or as it is.
Rewrite(s) ==
    /\ try[s].at = "rewrite"
    /\ LET t == try[s]
           new == Tagged(t.src, job[s].order)
           with == Written(new, Body(s, t.part, "tagged"))
       IN  \/ /\ files' = Restrict(with, DOMAIN with \ {t.src})
              /\ Becomes(s, [NextPart(s, Append(t.got, new)) EXCEPT !.src = <<>>, !.tagged = TRUE])
           \/ /\ Becomes(s, [NextPart(s, Append(t.got, t.src)) EXCEPT !.src = <<>>])
              /\ UNCHANGED files
    /\ UNCHANGED <<job, chat, trouble>>

\* For a mutant: what came is sent.
AnyCame(s) == try[s].got # <<>> /\ (try[s].way = "tag" => try[s].tagged)

\* An album is sent with all its files, and a rewritten one only when something changed.
Complete(s) ==
    Len(try[s].got) = Len(job[s].order.parts) /\ (try[s].way = "tag" => try[s].tagged)

\* send_file of what was downloaded; the files are discarded whatever becomes of it.
Upload(s) ==
    /\ try[s].at = "ready" /\ Complete(s)
    /\ LET dropped == [e \in Errors \cup {"premium"} |-> [Raised(s, e) EXCEPT !.got = <<>>]]
       IN  IF ToSet(try[s].got) \subseteq DOMAIN files
           THEN Call(s, Uploads(s), [Named(s, Uploads(s)) EXCEPT !.got = <<>>], dropped)
           ELSE Becomes(s, dropped["transient"]) /\ UNCHANGED <<job, chat, trouble>>
    /\ Unlinked(ToSet(try[s].got))

\* Not all of it came: the plain way for a file, the forward where nothing else is left.
Unfinished(s) ==
    /\ try[s].at = "ready" /\ ~Complete(s)
    /\ LET nothing == [try[s] EXCEPT !.got = <<>>]
       IN  Becomes(s, CASE try[s].way = "tag" -> [nothing EXCEPT !.at = "send", !.way = "direct"]
                        [] try[s].way = "again" -> [nothing EXCEPT !.at = "send", !.way = "opaque"]
                        [] OTHER -> [nothing EXCEPT !.at = "caught", !.error = "permanent"])
    /\ Unlinked(ToSet(try[s].got))
    /\ UNCHANGED <<job, chat, trouble>>

-----------------------------------------------------------------------------
(* The end of a try.                                                         *)

\* Copier._deliver: a row for what was sent; an empty answer gives the unit back.
Remember(s) ==
    /\ try[s].at = "remember"
    /\ job' = [job EXCEPT ![s].row = try[s].ids]
    /\ Becomes(s, [GoesTo(s, "rest") EXCEPT !.unit = @ /\ try[s].ids # <<>>])
    /\ UNCHANGED <<files, chat, trouble>>

\* Once more without premium emojis; otherwise the unit is given back.
Caught(s) ==
    /\ try[s].at = "caught"
    /\ IF try[s].error = "premium"
       THEN Becomes(s, [GoesTo(s, "send") EXCEPT !.plain = TRUE, !.part = 1, !.tagged = FALSE,
                                                 !.way = WayOf(job[s].order, try[s].unit)])
       ELSE Becomes(s, [GoesTo(s, "rest") EXCEPT !.unit = FALSE])
    /\ UNCHANGED <<job, files, chat, trouble>>

\* The retry queue, or the sweeper after a flood, a lost account or a cancellation.
Again(s) ==
    /\ try[s].at = "rest" /\ job[s].row = <<>>
    /\ try[s].error \in {"transient", "flood", "fatal", "cancelled"} /\ job[s].tries < MaxTries
    /\ job' = [job EXCEPT ![s].tries = @ + 1]
    /\ Becomes(s, Untried)
    /\ UNCHANGED <<files, chat, trouble>>

\* The call that is under way: whoever is cancelled in it does not know whether it arrives.
InFlight(s) ==
    LET o == job[s].order
    IN  CASE Sends(s, "text") /\ o.wanted # "none" -> {Alone(s)}
          [] Sends(s, "direct") -> {References(s)}
          [] Sends(s, "forward") -> {Forwards(s, FALSE)}
          [] Sends(s, "opaque") -> {Forwards(s, DropsCaptions(o))}
          [] Sends(s, "poll") -> {Poll(s)}
          [] try[s].at = "ready" /\ Complete(s) /\ ToSet(try[s].got) \subseteq DOMAIN files ->
                {Uploads(s)}
          [] OTHER -> {}

\* The handler is cancelled in an await: CancelledError passes every `except Exception` of the
\* way, so nothing is taken back; `except BaseException` and `finally` discard the files it
\* lists.
StopSending(s) ==
    /\ try[s].at \notin {"rest", "caught"}
    /\ Troubled
    /\ \E messages \in InFlight(s) \cup {<<>>} : LET j == job[s] IN
          /\ chat' = chat \cup ToSet(messages)
          /\ job' = [job EXCEPT ![s] = [j EXCEPT
                        !.made = j.made + Len(messages),
                        !.slipped = j.slipped \/ try[s].ids # <<>> \/ messages # <<>>,
                        !.leaked = j.leaked \/ try[s].at = "rewrite"]]
    /\ Becomes(s, [try[s] EXCEPT !.at = "rest", !.error = "cancelled", !.got = <<>>, !.src = <<>>])
    /\ Unlinked(ToSet(try[s].got))

SendStep(s) ==
    \/ Reserve(s) \/ SendText(s) \/ Unsendable(s) \/ SendPoll(s) \/ ForwardPost(s) \/ ForwardOpaque(s)
    \/ SendDirect(s) \/ SetCaption(s) \/ DeleteQuietly(s) \/ Fetch(s) \/ Rewrite(s) \/ Upload(s)
    \/ Unfinished(s) \/ Remember(s) \/ Caught(s) \/ Again(s) \/ StopSending(s)

\* What a coroutine has in hand, and whose file a step puts another in the place of: only the
\* watermarks and the rewritten files write over others, and nothing tells whoever has them.
HandOf(t) == ToSet(t.got) \cup {p \in {t.src} : t.at = "rewrite"}
WrittenOver == {s \in DOMAIN job : \E p \in HandOf(try[s]) \cap DOMAIN files' :
                   p \notin DOMAIN files \/ files'[p] # files[p]}
Empty == {"reserve", "send", "caught"}      \* nothing is in hand and nothing made of it
Mixing == mixed' = {s \in mixed \cup WrittenOver : try'[s].at \notin Empty}

SendNext == (\E s \in DOMAIN job : SendStep(s)) /\ Mixing

SendSpec == SendInit /\ [][SendNext]_ways

-----------------------------------------------------------------------------
Paths == {"", "wm", "tagged"} \X STRING \X Nat
Bodies == [of : Sendings, part : Nat, look : {"text", "plain", "forwarded", "marked", "tagged"}]
Messages == [id : Nat, of : Sendings, text : Captions, body : Bodies]

\* The type of the state.
SendTypeOK ==
    /\ DOMAIN try = DOMAIN job
    /\ \A s \in DOMAIN job :
          /\ s \in Sendings
          /\ try[s].at \in {"reserve", "send", "caption", "undo", "fetch", "rewrite", "ready",
                            "remember", "caught", "rest"}
          /\ try[s].way \in {"", "text", "refused", "bot", "forward", "poll", "opaque", "tag",
                             "mark", "direct", "again"}
          /\ try[s].error \in Errors \cup {"", "premium", "cancelled"}
          /\ job[s].tries \in 1 .. MaxTries
          /\ {try[s].plain, try[s].unit, try[s].tagged, job[s].slipped, job[s].leaked} \subseteq BOOLEAN
    /\ \A p \in DOMAIN files : p \in Paths /\ files[p] \in Bodies
    /\ chat \subseteq Messages
    /\ trouble \in 0 .. MaxTrouble
    /\ mixed \subseteq DOMAIN job

Standing(s) == {m \in chat : m.of = s}
AtRest(s) == try[s].at = "rest"

\* The post as it should stand: one message, or one for each part with that part's content, if
\* no other file was written in the place of one of its own; the caption once, as the settings
\* want it.  A signature that would not stay is no loss.
WholePost(s) ==
    LET o == job[s].order
        captions == {m \in Standing(s) : m.text # "none"}
        forwarded == o.forward /\ ~o.simple
        wanted == IF forwarded THEN Original(o) ELSE o.wanted
        textless == o.holder = 0 /\ \A m \in Standing(s) : m.body.look = "forwarded"
        poll == Head(o.parts) = "poll" /\ ~o.captionOnly
        parts == IF ~forwarded /\ (Head(o.parts) = "text" \/ o.captionOnly)
                 THEN {0} ELSE DOMAIN o.parts
    IN  /\ Cardinality(Standing(s)) = Cardinality(parts)
        /\ \/ s \in mixed
           \/ {m.body.part : m \in Standing(s)} = parts /\ \A m \in Standing(s) : m.body.of = s
        /\ \/ wanted = "none" /\ captions = {}
           \/ (poll \/ textless) /\ captions = {}
           \/ Cardinality(captions) = 1 /\ \A m \in captions : m.text = wanted

\* What stands in a destination is a post as a whole, the one its row names, or nothing: a way
\* that failed half-way, in any of its calls, left nothing standing ("never half",
\* copier.py:1850).  Excepted is what no code can know of: a message whose answer was lost or
\* whose deletion was refused, and a sending that was cancelled; and of the content, not of the
\* rest, what was written over a file in its hand.
WholeOrNone ==
    \A s \in DOMAIN job :
       AtRest(s) /\ ~job[s].slipped =>
          IF job[s].row = <<>> THEN Standing(s) = {}
          ELSE WholePost(s) /\ {m.id : m \in Standing(s)} = ToSet(job[s].row)

\* Where the transformations changed the caption, the source's own never shows, not even in between.
CaptionKept ==
    \A m \in chat : m.text = "source" =>
       LET o == job[m.of].order IN o.wanted = "source" \/ (o.forward /\ ~o.simple)

\* A sending that rests holds a watermark unit only for a post that went out (or was cancelled),
\* and no file of its own (unless cancelled while rewriting one).
NothingHeld ==
    /\ \A s \in DOMAIN job : AtRest(s) /\ try[s].unit => job[s].row # <<>> \/ try[s].error = "cancelled"
    /\ \A p \in DOMAIN files : ~AtRest(files[p].of) \/ job[files[p].of].leaked

SentWhole == WholeOrNone /\ CaptionKept /\ NothingHeld
=============================================================================
