------------------------------ MODULE TextPass ------------------------------
(* What becomes of a post's text and of its formatting                       *)
(* (services/transform.py, services/configs.py): the user's rules, the        *)
(* signature, the names of proxy configs, what is cleaned away, header and    *)
(* footer, and where every entity of the source stands in the result.  A      *)
(* text is a sequence of pieces; what one regular expression matches is a     *)
(* piece, and a run without a blank is what a greedy one eats.                *)
EXTENDS Integers, Sequences, FiniteSets, SequencesExt

CONSTANTS
    Texts,   \* bound: texts of posts
    Styles   \* bound: settings of tasks with their rules

(* Pieces: a word, an emoji, a mention, a link, a proxy config, one with the  *)
(* name rewritten, a space and a line break; k1 and k2 are the marks that     *)
(* stand in for configs while a text is cleaned.                              *)
Marks == <<"k1", "k2">>
Blank == {"space", "break"}

VARIABLES
    text,    \* the source text
    style,   \* the settings that apply
    sent     \* what is sent, or Unsent

pass == <<text, style, sent>>

Unsent == <<>>

PassInit ==
    /\ text \in Texts
    /\ style \in Styles
    /\ sent = Unsent

Matches(s, pieces) == {i \in DOMAIN s : s[i] \in pieces}

\* Where the run of pieces without a blank that holds i ends.
RunEnd(s, i) == Min({j \in i .. Len(s) : j = Len(s) \/ s[j + 1] \in Blank})

\* \b before a piece: what stands before it does not end in a letter.
AtBoundary(s, i) == i = 1 \/ s[i - 1] \notin {"word", "mention", "config", "renamed"}

\* The pieces at some indices, in their order.
KeepOnly(s, kept) == FlattenSeq([i \in DOMAIN s |-> IF i \in kept THEN <<s[i]>> ELSE <<>>])

\* URL_RE.sub: every link goes, with the run it begins.
RemoveLinks(s) ==
    LET begins == {i \in Matches(s, {"link"}) : AtBoundary(s, i)}
    IN  KeepOnly(s, {i \in DOMAIN s : ~\E j \in begins : j <= i /\ i <= RunEnd(s, j)})

\* MENTION_RE.sub and EMOJI_RE.sub.
RemoveMentions(s) ==
    KeepOnly(s, {i \in DOMAIN s : s[i] # "mention" \/ ~AtBoundary(s, i)})
RemoveEmoji(s) == SelectSeq(s, LAMBDA p : p # "emoji")

\* str.rstrip and str.strip.
RECURSIVE RStrip(_)
RStrip(s) == IF s # <<>> /\ Last(s) \in Blank THEN RStrip(Front(s)) ELSE s
RECURSIVE LStrip(_)
LStrip(s) == IF s # <<>> /\ Head(s) \in Blank THEN LStrip(Tail(s)) ELSE s
Strip(s) == LStrip(RStrip(s))

\* _apply_replacements: one rule replaces a word.
Replace(s, rule) ==
    FlattenSeq([i \in DOMAIN s |-> IF rule.on /\ s[i] = "word" THEN rule.by ELSE <<s[i]>>])

\* The last line, and the text before it.
LastBreak(s) == Cardinality({i \in DOMAIN s : \E j \in i .. Len(s) : s[j] = "break"})
LastLine(s) == SubSeq(s, LastBreak(s) + 1, Len(s))
Earlier(s) == SubSeq(s, 1, LastBreak(s) - 1)

\* _SIGNATURE_LINE_RE: one mention or link, and nothing that is a word.
IsSignature(line) ==
    /\ Cardinality(Matches(line, {"mention", "link"})) = 1
    /\ Matches(line, {"word", "config", "renamed"}) = {}

\* strip_signature: the blank lines at the end and one line of signature.
StripSignature(s) ==
    LET body == RStrip(s)
    IN  IF IsSignature(LastLine(body))
        THEN RStrip(Earlier(body)) ELSE body

Gap == <<"break", "break">>
Joined(parts) ==
    LET kept == SelectSeq(parts, LAMBDA part : part # <<>>)
    IN  FlattenSeq([i \in DOMAIN kept |-> IF i = 1 THEN kept[i] ELSE Gap \o kept[i]])

Signed(s) ==
    LET body == IF style.strip THEN StripSignature(s) ELSE s
    IN  Joined(<<body, style.signature>>)

\* LINK_RE: where configs begin; each takes its run.
Configs(s) ==
    LET begins == {i \in Matches(s, {"config", "renamed"}) : AtBoundary(s, i)}
    IN  {i \in begins : ~\E j \in begins : j < i /\ RunEnd(s, j) >= i}

\* rewrite_text: every config gets the name, at the end of its run.
Renamed(s) == [i \in DOMAIN s |-> IF i \in Configs(s) THEN "renamed" ELSE s[i]]

\* _shelter_configs: marks instead of configs, and the configs.
RECURSIVE SheltersFrom(_, _)
SheltersFrom(s, kept) ==
    IF Configs(s) = {} THEN [text |-> s, kept |-> kept]
    ELSE LET i == Min(Configs(s))
         IN  SheltersFrom(SubSeq(s, 1, i - 1) \o <<Marks[Len(kept) + 1]>>
                              \o SubSeq(s, RunEnd(s, i) + 1, Len(s)),
                          Append(kept, SubSeq(s, i, RunEnd(s, i))))
Unsheltered(s) == [text |-> s, kept |-> <<>>]
Sheltered(s) == SheltersFrom(s, <<>>)

\* _restore_configs.
Restored(s, kept) ==
    FlattenSeq([i \in DOMAIN s |->
        IF \E k \in DOMAIN kept : Marks[k] = s[i]
        THEN kept[CHOOSE k \in DOMAIN kept : Marks[k] = s[i]] ELSE <<s[i]>>])

Cleaned(s) ==
    LET links == IF style.links THEN RemoveLinks(s) ELSE s
        mentions == IF style.mentions THEN RemoveMentions(links) ELSE links
    IN  IF style.emoji THEN RemoveEmoji(mentions) ELSE mentions

\* tidy: no blanks at the ends of lines, and at most one empty line.
RECURSIVE Squeezed(_)
Squeezed(s) ==
    LET long == {i \in DOMAIN s : i + 2 \in DOMAIN s /\ \A j \in i .. i + 2 : s[j] = "break"}
    IN  IF long = {} THEN s
        ELSE LET i == Min(long) IN Squeezed(SubSeq(s, 1, i - 1) \o SubSeq(s, i + 1, Len(s)))
LineEnds(s) ==
    LET trailing(i) == \E j \in i .. Len(s) : /\ \A m \in i .. j : s[m] = "space"
                                              /\ (j = Len(s) \/ s[j + 1] = "break")
    IN  KeepOnly(s, {i \in DOMAIN s : ~trailing(i)})
Tidy(s) == Strip(LineEnds(Squeezed(s)))

\* What apply_transforms has made when it begins to clean.
Prepared(s) ==
    LET own == Signed(Replace(s, style.rule)) IN IF style.rename THEN Renamed(own) ELSE own

\* apply_transforms.
Transformed(s) ==
    LET sheltered == Sheltered(Prepared(s))
        body == Strip(Restored(Cleaned(sheltered.text), sheltered.kept))
    IN  Tidy(Joined(<<style.header, body, style.footer>>))

----------------------------------------------------------------------------
\* An entity is an offset and a length in UTF-16 units.
Chars(piece) == 1
Width(piece) == IF piece = "emoji" THEN 2 ELSE 1

RECURSIVE Units(_)
Units(s) == IF s = <<>> THEN 0 ELSE Width(Head(s)) + Units(Tail(s))

\* The units Telegram counts, whatever the code does.
RECURSIVE TrueUnits(_)
TrueUnits(s) == IF s = <<>> THEN 0 ELSE (IF Head(s) = "emoji" THEN 2 ELSE 1) + TrueUnits(Tail(s))

\* The entity of the pieces from i to j, and the pieces of an entity.
Spans(s) == {<<i, j>> \in (1 .. Len(s)) \X (1 .. Len(s)) : i <= j}
EntityOf(s, span) ==
    [offset |-> TrueUnits(SubSeq(s, 1, span[1] - 1)),
     length |-> TrueUnits(SubSeq(s, span[1], span[2]))]
Covers(s, e) == {SubSeq(s, i, j) : <<i, j>> \in {w \in Spans(s) : EntityOf(s, w) = e}}

\* _char_index: the piece that begins at an offset, or none.
CharAt(s, offset) == {i \in 1 .. Len(s) + 1 : Units(SubSeq(s, 1, i - 1)) = offset}

\* find_longest_match: the longest common run, the first of them in s, then in t.
Longest(s, t, a, b) ==
    LET common == {<<i, j, n>> \in (a[1] .. a[2]) \X (b[1] .. b[2]) \X (1 .. Len(s)) :
                      /\ i + n - 1 <= a[2] /\ j + n - 1 <= b[2]
                      /\ SubSeq(s, i, i + n - 1) = SubSeq(t, j, j + n - 1)}
        before(x, y) == \/ x[3] > y[3]
                        \/ x[3] = y[3] /\ x[1] < y[1]
                        \/ x[3] = y[3] /\ x[1] = y[1] /\ x[2] <= y[2]
    IN  {x \in common : \A y \in common : before(x, y)}

\* get_matching_blocks: the longest, and those to the left and to the right of it.
RECURSIVE Blocks(_, _, _, _)
Blocks(s, t, a, b) ==
    UNION {{x} \cup Blocks(s, t, <<a[1], x[1] - 1>>, <<b[1], x[2] - 1>>)
               \cup Blocks(s, t, <<x[1] + x[3], a[2]>>, <<x[2] + x[3], b[2]>>) :
           x \in Longest(s, t, a, b)}

\* Where a text begins in another: str.find.
Found(s, t) == {i \in 1 .. Len(t) - Len(s) + 1 : SubSeq(t, i, i + Len(s) - 1) = s}

\* remap_entities of one entity: moved, or nothing.
Moved(s, t, e) ==
    IF Found(s, t) # {}
    THEN {[e EXCEPT !.offset = @ + Units(SubSeq(t, 1, Min(Found(s, t)) - 1))]}
    ELSE {[offset |-> Units(SubSeq(t, 1, x[2] + i - x[1] - 1)),
           length |-> Units(SubSeq(t, x[2] + i - x[1], x[2] + j - x[1] - 1))] :
          <<x, i, j>> \in {<<x, i, j>> \in Blocks(s, t, <<1, Len(s)>>, <<1, Len(t)>>)
                                           \X CharAt(s, e.offset) \X CharAt(s, e.offset + e.length) :
                              x[1] <= i /\ j <= x[1] + x[3]}}

\* A post with every possible formatting is published.
Publish ==
    /\ sent = Unsent
    /\ LET result == Transformed(text)
       IN  sent' = <<[text |-> result,
                      entities |-> [w \in Spans(text) |-> Moved(text, result, EntityOf(text, w))]]>>
    /\ UNCHANGED <<text, style>>

PassNext == Publish

PassSpec == PassInit /\ [][PassNext]_pass

----------------------------------------------------------------------------
\* The types of the variables.
PassTypeOK == text \in Texts /\ style \in Styles /\ Len(sent) <= 1

\* Formatting stays with its words: whatever was replaced, removed or added, an entity
\* that is kept covers in the result exactly what it covered in the source, counted in
\* Telegram's units, and no entity becomes two.
EntitiesTrue ==
    \A w \in IF sent = Unsent THEN {} ELSE Spans(text) :
        LET moved == sent[1].entities[w]
        IN  /\ Cardinality(moved) <= 1
            /\ \A e \in moved : SubSeq(text, w[1], w[2]) \in Covers(sent[1].text, e)

\* Cleaning never eats a proxy config: each one that begins a line or follows a blank
\* arrives whole, whichever of links, mentions and emoji are removed.
ConfigsKept ==
    \A i \in IF sent = Unsent THEN {} ELSE Configs(Prepared(text)) :
        LET s == Prepared(text)
        IN  (i = 1 \/ s[i - 1] \in Blank) => Found(SubSeq(s, i, RunEnd(s, i)), sent[1].text) # {}

\* Both: formatting stays with what it was put on, and no config is eaten.
TextTrue == EntitiesTrue /\ ConfigsKept
=============================================================================
