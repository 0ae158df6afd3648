------------------------------- MODULE Filters -------------------------------
(***************************************************************************)
(* The filter and search language of collection definitions: the attribute *)
(* table, the parser of a `filters:` or `plex_search` block, the client-   *)
(* side evaluation of a filter during a pass (with the batched tag read,   *)
(* the facts read, the vocabulary check and the one moment of judgement)   *)
(* and the translation of a search into a Plex query.                      *)
(*                                                                         *)
(* An item's value of an attribute is a set: its tags, or at most one      *)
(* number, moment or text; {} is a missing value.  A tag is <<base, form>>:*)
(* two tags fold to the same word exactly when their bases agree (letter   *)
(* case for most rows, region and case for the language rows).  A text is  *)
(* a sequence of letters.  A moment is day * Parts + part of the day, part *)
(* 0 being midnight.                                                       *)
(***************************************************************************)
EXTENDS Integers, Sequences, FiniteSets, SequencesExt

CONSTANTS
    Items,      \* the items a builder resolved
    Libtype,    \* "movie" or "show"
    Written,    \* the definitions an operator may write (see Load)
    Libraries,  \* the library contents: functions Items -> attribute -> value
    Parts,      \* parts of a day a moment tells apart
    MsPerMin,   \* milliseconds in a minute, scaled down
    Start,      \* the moment the pass begins
    MaxClock    \* bound on the clock

VARIABLES
    defn,       \* the definition being run: [kind, op, block, sorts, level]
    stage,      \* load | resolved | tagged | facted | checked | judging | done | refused
    tree,       \* the parsed (and later pruned) tree
    lib,        \* what Plex and the facts table hold now
    moved,      \* the library changed since the pass began
    vocab,      \* the vocabulary memo: attribute -> [read |-> unread | failed | read, words]
    tags,       \* the enrichment memo: answered items -> attribute -> value
    facts,      \* the facts memo, likewise
    clock,
    moment,     \* the instant the whole collection is judged at
    kept,       \* item -> unjudged | in | out
    query       \* the rendered search, a sequence of tokens [tok, ...]

vars == <<defn, stage, tree, lib, moved, vocab, tags, facts, clock, moment, kept, query>>

----------------------------------------------------------------------------
(* The attribute table: name, type, source tier, library kinds it is        *)
(* searchable on, and whether `filters:` may name it.                       *)

Both == {"movie", "show"}
ListedRows == {
    <<"genre", "tag", "tier2-batched", Both, TRUE>>, <<"year", "int", "listing", Both, TRUE>>,
    <<"resolution", "tag", "listing", Both, TRUE>>, <<"audience_rating", "float", "listing", Both, TRUE>>,
    <<"critic_rating", "float", "listing", Both, TRUE>>, <<"content_rating", "tag", "listing", Both, TRUE>>,
    <<"audio_language", "tag", "tier2-batched", Both, TRUE>>, <<"subtitle_language", "tag", "tier2-batched", Both, TRUE>>,
    <<"label", "tag", "tier2-batched", Both, TRUE>>}
DatedRows == {
    <<"added", "date", "listing", Both, TRUE>>, <<"release", "date", "listing", Both, TRUE>>,
    <<"duration", "duration", "listing", {"movie"}, TRUE>>, <<"studio", "str", "listing", Both, TRUE>>,
    <<"network", "tag", "tier2-deferred", {"show"}, TRUE>>, <<"collection", "tag", "tier2-batched", Both, TRUE>>}
PlayedRows == {
    <<"plays", "int", "listing", Both, TRUE>>, <<"last_played", "date", "listing", Both, TRUE>>,
    <<"unplayed", "bool", "search-only", {"movie"}, FALSE>>, <<"progress", "bool", "search-only", {"movie"}, FALSE>>,
    <<"decade", "int", "search-only", {"movie"}, FALSE>>, <<"country", "tag", "unprobed", Both, TRUE>>}
PeopleRows == {
    <<"actor", "tag", "unprobed", Both, TRUE>>, <<"director", "tag", "unprobed", {"movie"}, TRUE>>,
    <<"writer", "tag", "unprobed", {"movie"}, TRUE>>, <<"producer", "tag", "unprobed", {"movie"}, TRUE>>,
    <<"user_rating", "float", "listing", Both, TRUE>>, <<"title", "str", "unprobed", Both, TRUE>>,
    <<"edition", "str", "unprobed", Both, TRUE>>}
FlagRows == {
    <<"hdr", "bool", "search-only", Both, FALSE>>, <<"dovi", "bool", "search-only", Both, FALSE>>,
    <<"trash", "bool", "search-only", Both, FALSE>>, <<"duplicate", "bool", "search-only", {"movie"}, FALSE>>,
    <<"unmatched", "bool", "search-only", Both, FALSE>>, <<"versions", "int", "listing", {}, TRUE>>,
    <<"aspect", "float", "listing", {}, TRUE>>}
ShowFactsRows == {
    <<"tmdb_status", "tag", "facts", {}, TRUE>>, <<"last_episode_aired", "date", "facts", {}, TRUE>>}
SeasonRows == {<<a, "tag", "search-only", {"show"}, FALSE>> :
                 a \in {"season_collection", "season_label", "episode_collection", "episode_label", "episode_actor"}}
EpisodeRows ==
    {<<"episode_title", "str", "search-only", {"show"}, FALSE>>} \cup
    {<<a, "date", "search-only", {"show"}, FALSE>> : a \in {"episode_added", "episode_air_date", "episode_last_played"}} \cup
    {<<a, "float", "search-only", {"show"}, FALSE>> :
       a \in {"episode_user_rating", "episode_critic_rating", "episode_audience_rating"}} \cup
    {<<a, "int", "search-only", {"show"}, FALSE>> : a \in {"episode_plays", "episode_year"}}
EpisodeFlagRows ==
    {<<a, "bool", "search-only", {"show"}, FALSE>> :
       a \in {"episode_unplayed", "episode_duplicate", "episode_progress", "episode_unmatched",
              "show_unmatched", "unplayed_episodes"}} \cup
    {<<"folder_location", "tag", "search-only", Both, FALSE>>}
FactsRows == {
    <<"common_sense_rating", "tag", "facts", {}, TRUE>>, <<"imdb_rating", "float", "facts", {}, TRUE>>,
    <<"tmdb_rating", "float", "facts", {}, TRUE>>}

Table == ListedRows \cup DatedRows \cup PlayedRows \cup PeopleRows \cup FlagRows \cup ShowFactsRows
           \cup SeasonRows \cup EpisodeRows \cup EpisodeFlagRows \cup FactsRows
Names == {r[1] : r \in Table}
Row(a) == CHOOSE r \in Table : r[1] = a
Type(a) == Row(a)[2]
Source(a) == Row(a)[3]
SearchKinds(a) == Row(a)[4]
Filterable(a) == Row(a)[5]

Ranges == {"gt", "gte", "lt", "lte"}
Counts == {"count_gt", "count_gte", "count_lt", "count_lte"}
TextOps == {"contains", "not", "is", "isnot", "begins", "ends", "regex"}
DateOps == {"eq", "not", "before", "after", "from", "to"}

OperatorsByType == [
    tag |-> {"eq", "not", "regex"} \cup Counts, str |-> TextOps, int |-> {"eq", "not"} \cup Ranges,
    float |-> {"eq", "not"} \cup Ranges, duration |-> {"eq", "not"} \cup Ranges, date |-> DateOps, bool |-> {"eq"}]
SearchOperatorsByType == [
    tag |-> {"eq", "not", "regex"}, str |-> TextOps, int |-> {"eq", "not"} \cup Ranges,
    float |-> Ranges \cup {"rated"}, duration |-> Ranges, date |-> DateOps, bool |-> {"eq"}]
SearchExcluded(a) ==
    CASE a = "resolution" -> {"not"}
      [] a \in {"plays", "episode_plays"} -> {"eq", "not"}
      [] a = "decade" -> {"not"} \cup Ranges
      [] OTHER -> {}
DefaultOperator(t) == IF t = "str" THEN "contains" ELSE "eq"
Operators(a, searching) == IF searching THEN SearchOperatorsByType[Type(a)] \ SearchExcluded(a)
                                        ELSE OperatorsByType[Type(a)]
FactsFilterRows == {"common_sense_rating", "imdb_rating", "tmdb_rating"}
MomentRows == {"added", "last_played", "episode_added", "episode_last_played"}
LanguageRows == {"audio_language", "subtitle_language"}
MissingExcludes == {"int", "float", "date", "duration"}
Negatives == {"not", "isnot"}

----------------------------------------------------------------------------
(* Parsing.  A written block is a sequence of entries, a written key        *)
(* [k |-> "key", attr, mod, vals] ("" is no modifier) or a nested           *)
(* [k |-> "nest", op, shape, blocks] whose shape is a map (one block) or a  *)
(* list.  A written value is <<kind, v>>.                                   *)

Refusal == [k |-> "refusal"]
Refused(n) == n.k = "refusal"

\* _as_text .. _as_days: which written kinds a type takes under an operator.
Takes(a, op, kind, searching) ==
    LET t == Type(a) IN
    CASE op = "regex" -> kind = "pattern"
      [] op = "rated" \/ t = "bool" -> kind = "flag"
      [] op \in Counts -> kind = "number"
      [] op \notin {"regex", "rated"} \cup Counts /\ t \in {"tag", "str"} -> kind \in {"word", "number"}
      [] t = "int" -> kind = "number" \/ (a = "year" /\ kind = "current_year")
      [] t \in {"float", "duration"} /\ op # "rated" -> kind = "number"
      [] t = "date" /\ op \in {"eq", "not"} -> kind = "number" \/ (searching /\ kind = "window")
      [] t = "date" /\ op \notin {"eq", "not"} -> kind \in {"day", "today"}

\* _split_key: the operator a key means, or a refusal.
SplitKey(a, mod, searching) ==
    LET ops == Operators(a, searching)
        default == DefaultOperator(Type(a))
    IN  IF \/ a \notin Names
           \/ searching /\ (Source(a) = "facts" \/ SearchKinds(a) = {})
           \/ ~searching /\ ~Filterable(a)
        THEN "refused"
        ELSE IF mod = "" THEN IF default \in ops THEN default ELSE "refused"
        ELSE IF mod \in ops /\ mod # default THEN mod ELSE "refused"

ParsePredicate(e, searching) ==
    LET op == SplitKey(e.attr, e.mod, searching) IN
    IF op = "refused" \/ e.vals = <<>> \/ \E v \in ToSet(e.vals) : ~Takes(e.attr, op, v[1], searching)
    THEN Refusal
    ELSE [k |-> "pred", attr |-> e.attr, op |-> op, vals |-> e.vals]

Group(op, kids, inline) ==
    IF \E n \in ToSet(kids) : Refused(n) THEN Refusal
    ELSE [k |-> "group", op |-> op, kids |-> kids, inline |-> inline]

RECURSIVE ParseBlock(_, _, _)
ParseNested(e, parentOp, searching) ==
    IF e.shape = "map" THEN ParseBlock(e.blocks[1], e.op, searching)
    ELSE IF e.blocks = <<>> THEN Refusal
    ELSE Group(IF searching THEN parentOp ELSE e.op,
               [i \in DOMAIN e.blocks |-> ParseBlock(e.blocks[i], IF searching THEN e.op ELSE "all", searching)],
               searching)
ParseBlock(block, op, searching) ==
    IF block = <<>> THEN Refusal
    ELSE Group(op, [i \in DOMAIN block |->
                      IF block[i].k = "key" THEN ParsePredicate(block[i], searching)
                                            ELSE ParseNested(block[i], op, searching)], FALSE)

RECURSIVE Predicates(_)
Predicates(n) == IF n.k = "pred" THEN {n} ELSE UNION {Predicates(c) : c \in ToSet(n.kids)}

\* The two reads a tree may need before it can be evaluated.
BatchedAttributes(n) == {p.attr : p \in {q \in Predicates(n) : Source(q.attr) = "tier2-batched"}}
FactsAttributes(n) == {p.attr : p \in Predicates(n)} \cap FactsFilterRows

\* _filters_must_parse_and_be_readable: what a filter of a definition may read.
Readable(n) == \A p \in Predicates(n) :
    \/ Source(p.attr) \in {"listing", "tier2-batched"}
    \/ Source(p.attr) = "facts" /\ p.attr \in FactsFilterRows

----------------------------------------------------------------------------
(* Evaluation.                                                              *)

Word(v) == v[2]
Fold(t) == t[1]
SameWord(s, t) == Fold(s) = Fold(t)
Within(s, t) == \E i \in 0..(Len(s) - Len(t)) : SubSeq(s, i + 1, i + Len(t)) = t
Day(m) == m \div Parts
Midnight(d) == d * Parts
YearOf(m) == Day(m)         \* one day per year is enough to tell current_year apart

\* _as_minutes and _duration_minutes: an item's milliseconds against minutes.
Compare(op, x, y) ==
    CASE op \in {"eq", "count_eq"} -> x = y
      [] op \in {"gt", "count_gt"} -> x > y
      [] op \in {"gte", "count_gte"} -> x >= y
      [] op \in {"lt", "count_lt"} -> x < y
      [] op \in {"lte", "count_lte"} -> x <= y
Target(a, v, now) ==
    CASE v[1] = "current_year" -> YearOf(now) - v[2]
      [] v[1] = "number" /\ Type(a) = "duration" -> v[2] * MsPerMin
      [] v[1] = "number" /\ Type(a) # "duration" -> v[2]

DateMatches(a, op, when, v, now) ==
    LET bound == IF v[1] = "today" THEN now ELSE Midnight(v[2]) IN
    CASE op = "eq" -> when >= now - v[2] * Parts
      [] op = "before" -> when < bound
      [] op = "after" -> when > bound
      [] op = "from" -> when >= bound
      [] op = "to" /\ a \in MomentRows -> when < Midnight(Day(bound) + 1)
      [] op = "to" /\ a \notin MomentRows -> when <= bound

TextMatches(op, text, v) ==
    CASE op = "regex" -> text \in v[2]
      [] op = "contains" -> Within(text, v[2])
      [] op = "is" -> text = v[2]
      [] op = "begins" -> IsPrefix(v[2], text)
      [] op = "ends" -> IsSuffix(v[2], text)

\* _matches_one: one written value of a positive operator.
MatchesOne(a, op, have, v, now) ==
    CASE Type(a) = "tag" -> \E t \in have : IF op = "regex" THEN t \in v[2] ELSE SameWord(t, Word(v))
      [] Type(a) = "str" -> \E t \in have : TextMatches(op, t, v)
      [] Type(a) = "date" -> \E w \in have : DateMatches(a, op, w, v, now)
      [] Type(a) \in {"int", "float", "duration"} -> \E x \in have : Compare(op, x, Target(a, v, now))

Positive(a, op) == CASE op = "not" -> DefaultOperator(Type(a)) [] op = "isnot" -> "is" [] OTHER -> op

\* _matches: the missing-value rules, any-of, and negation of any-of.
Missing(p) ==
    CASE p.attr \in FactsFilterRows -> FALSE
      [] p.attr \notin FactsFilterRows /\ p.op \in Counts -> \E v \in ToSet(p.vals) : Compare(p.op, 0, v[2])
      [] p.attr = "year" /\ p.op \in {"eq", "not"} -> p.op = "not"
      [] p.attr \notin {"year"} \cup FactsFilterRows /\ p.op \notin Counts /\ Type(p.attr) \notin MissingExcludes ->
           p.op \in Negatives
      [] OTHER -> FALSE
Matches(p, view, now) ==
    LET have == view[p.attr]
        any == \E v \in ToSet(p.vals) : MatchesOne(p.attr, Positive(p.attr, p.op), have, v, now)
    IN  IF have = {} THEN Missing(p)
        ELSE IF p.op \in Counts THEN \E v \in ToSet(p.vals) : Compare(p.op, Cardinality(have), v[2])
        ELSE any = (p.op \notin Negatives)

Combine(op, truths) == IF op = "any" THEN TRUE \in truths ELSE FALSE \notin truths

RECURSIVE Evaluate(_, _, _)
Evaluate(n, view, now) ==
    IF n.k = "pred" THEN Matches(n, view, now)
    ELSE Combine(n.op, {Evaluate(c, view, now) : c \in ToSet(n.kids)})

----------------------------------------------------------------------------
(* The vocabulary check of a filter's tag values.                           *)

MatchesNothing == [k |-> "group", op |-> "any", kids |-> <<>>, inline |-> FALSE]
VocabularyChecked(p) == Type(p.attr) = "tag" /\ p.op \in {"eq", "not"}
Checkable(p) == VocabularyChecked(p) /\ Libtype \in SearchKinds(p.attr)

\* LibraryTagResolver.known
Known(voc, v) == \E t \in voc : SameWord(t, Word(v))
Unknown(p, v) == vocab[p.attr].read = "read" /\ ~Known(vocab[p.attr].words, v)

RECURSIVE WithoutValues(_)
WithoutValues(n) ==
    IF n.k = "group" THEN [n EXCEPT !.kids = [i \in DOMAIN n.kids |-> WithoutValues(n.kids[i])]]
    ELSE IF ~Checkable(n) THEN n
    ELSE LET rest == SelectSeq(n.vals, LAMBDA v : ~Unknown(n, v))
         IN  IF rest = <<>> THEN MatchesNothing ELSE [n EXCEPT !.vals = rest]

----------------------------------------------------------------------------
(* The search: a query is a sequence of push, pop, and, or tokens and of    *)
(* terms [attr, wire, v].                                                   *)

Token(t) == [tok |-> t]
Joins == {"and", "or"}

Wire(t, op) ==
    CASE t \in {"tag", "int"} /\ op = "not" -> "!"
      [] t = "str" /\ op = "not" -> "!"
      [] op = "is" -> "="
      [] op = "isnot" -> "!="
      [] op = "begins" -> "<"
      [] op = "ends" -> ">"
      [] op \in {"gt", "after"} -> ">>"
      [] op \in {"gte", "from"} -> ">"
      [] op \in {"lt", "before"} -> "<<"
      [] op \in {"lte", "to"} -> "<"
      [] t = "date" /\ op = "eq" -> ">>"
      [] t = "date" /\ op = "not" -> "<<"
      [] OTHER -> ""

\* LibraryTagResolver.__call__ and _language_keys: the keys a written value is.
TagKeys(a, voc, v) ==
    LET same == {t \in voc : SameWord(t, Word(v))} IN
    IF a \notin LanguageRows THEN IF same = {} THEN {} ELSE {CHOOSE t \in same : TRUE}
    ELSE IF Word(v)[2] # "" THEN same \cap {Word(v)} ELSE same

\* _arguments: the terms of one written value, in the vocabulary's order.
Arguments(p, v, voc, now) ==
    LET t == Type(p.attr)
        Term(w, x) == [tok |-> "term", attr |-> p.attr, wire |-> w, v |-> x]
        Keys(ks) == SetToSeq({Term(Wire(t, p.op), <<"key", k>>) : k \in ks})
    IN  CASE t = "date" /\ p.op \in {"eq", "not"} -> <<Term(Wire(t, p.op), <<"ago", v[2]>>)>>
          [] p.op = "rated" -> <<Term(IF v[2] THEN "!" ELSE "", <<"number", -1>>)>>
          [] t = "bool" -> <<Term(IF v[2] THEN "" ELSE "!", <<"number", 1>>)>>
          [] t = "date" /\ p.op = "to" /\ p.attr \in MomentRows ->
               <<Term("<<", <<"day", (IF v[1] = "today" THEN Day(now) ELSE v[2]) + 1>>)>>
          [] t = "date" /\ p.op \in {"before", "after", "from"} \cup (IF p.attr \in MomentRows THEN {} ELSE {"to"}) ->
               <<Term(Wire(t, p.op), <<"day", IF v[1] = "today" THEN Day(now) ELSE v[2]>>)>>
          [] p.op = "regex" -> Keys({k \in voc : k \in v[2]})
          [] t = "tag" /\ p.op \in {"eq", "not"} -> Keys(TagKeys(p.attr, voc, v))
          [] t = "str" /\ p.op # "regex" -> <<Term(Wire(t, p.op), <<"text", v[2]>>)>>
          [] t \in {"int", "float", "duration"} /\ p.op # "rated" ->
               <<Term(Wire(t, p.op), <<"number", Target(p.attr, v, now)>>)>>

Conjunction(op) == IF op = "all" THEN "and" ELSE "or"
Join(op, pieces) ==
    FoldLeft(LAMBDA out, piece : IF piece = <<>> THEN out
                                 ELSE out \o (IF out = <<>> THEN <<>> ELSE <<Token(Conjunction(op))>>) \o piece,
             <<>>, pieces)

RenderPredicate(p, blockOp, vocs, now) ==
    Join(blockOp, FoldLeft(LAMBDA out, v : out \o [i \in DOMAIN Arguments(p, v, vocs[p.attr], now) |->
                                                     <<Arguments(p, v, vocs[p.attr], now)[i]>>],
                           <<>>, p.vals))

RECURSIVE RenderGroup(_, _, _)
RenderGroup(g, vocs, now) ==
    Join(g.op, [i \in DOMAIN g.kids |->
        LET c == g.kids[i] IN
        IF c.k = "pred" THEN RenderPredicate(c, g.op, vocs, now)
        ELSE IF c.inline THEN RenderGroup(c, vocs, now)
        ELSE <<Token("push")>> \o RenderGroup(c, vocs, now) \o <<Token("pop")>>])

\* What keeps a search from being sent: a value with no key in this library,
\* an attribute this kind of library does not answer.
Unanswerable(n, vocs) == \E p \in Predicates(n) :
    \/ Libtype \notin SearchKinds(p.attr)
    \/ Type(p.attr) = "tag" /\ \E v \in ToSet(p.vals) : Arguments(p, v, vocs[p.attr], 0) = <<>>
    \/ p.op = "regex" /\ \E v \in ToSet(p.vals) : Arguments(p, v, vocs[p.attr], 0) = <<>>

BuildSearchUrl(n, vocs, now) ==
    LET body == RenderGroup(n, vocs, now) IN
    IF n.op = "all" THEN body ELSE <<Token("push")>> \o body \o <<Token("pop")>>

----------------------------------------------------------------------------
(* Sorts: which sort names each search level has.                           *)

BaseSorts == {"title", "year", "release", "critic_rating", "audience_rating", "user_rating", "content_rating",
              "added", "viewed", "random"}
MovieSorts == BaseSorts \cup {"duration", "progress", "plays", "resolution", "bitrate"}
ShowSorts == BaseSorts \cup {"episode_release", "unplayed", "episode_added"}
SeasonSorts == {"season", "show", "user_rating", "added", "random"}
EpisodeSorts == BaseSorts \cup {"show", "episode_release", "duration", "progress", "plays", "resolution", "bitrate"}
SortTypes == [movie |-> MovieSorts, show |-> ShowSorts, season |-> SeasonSorts, episode |-> EpisodeSorts]
DefaultSort(level) == IF level = "season" THEN "season" ELSE "title"
KnownSortNames == UNION {SortTypes[l] : l \in DOMAIN SortTypes}
SearchType == IF defn.level = "item" THEN Libtype ELSE defn.level
\* require_sort_for_libtype, then sort_argument: {} is its KeyError.
SortsOffered == ToSet(defn.sorts) \subseteq SortTypes[SearchType]
SortArgument ==
    LET names == IF defn.sorts = <<>> THEN {DefaultSort(SearchType)} ELSE ToSet(defn.sorts)
    IN  IF names \subseteq SortTypes[SearchType] THEN names ELSE {}

----------------------------------------------------------------------------
TagAttributes == {a \in Names : Type(a) = "tag"}
Unjudged == [i \in Items |-> "unjudged"]
NoVocabulary == [a \in TagAttributes \cup {"studio"} |-> [read |-> "unread", words |-> {}]]

\* The vocabulary Plex answers for an attribute: every value some item carries.
VocabularyOf(a) == UNION {lib[i][a] : i \in Items}

Init ==
    /\ defn \in Written
    /\ stage = "load"
    /\ tree = Refusal
    /\ lib \in Libraries
    /\ moved = FALSE
    /\ vocab = NoVocabulary
    /\ tags = <<>>
    /\ facts = <<>>
    /\ clock = Start
    /\ moment = 0
    /\ kept = Unjudged
    /\ query = <<>>

\* The definition is read: a filter must parse and be readable, a search must
\* parse and name sorts that exist somewhere.
Load ==
    LET parsed == ParseBlock(defn.block, defn.op, defn.kind = "search")
        good == /\ ~Refused(parsed)
                /\ defn.kind = "filters" => Readable(parsed)
                /\ defn.kind = "search" => ToSet(defn.sorts) \subseteq KnownSortNames
    IN  /\ stage = "load"
        /\ tree' = IF good THEN parsed ELSE Refusal
        /\ stage' = IF good THEN "resolved" ELSE "refused"
        /\ UNCHANGED <<defn, lib, moved, vocab, tags, facts, clock, moment, kept, query>>

\* The batched metadata read: whole, or the definition is refused this pass.
EnsureTags ==
    /\ stage = "resolved" /\ defn.kind = "filters"
    /\ \/ /\ BatchedAttributes(tree) # {}
          /\ \E answered \in SUBSET Items :
               /\ tags' = [i \in answered |-> lib[i]]
               /\ stage' = IF answered = Items THEN "tagged" ELSE "refused"
       \/ BatchedAttributes(tree) # {} /\ stage' = "refused" /\ UNCHANGED tags
       \/ BatchedAttributes(tree) = {} /\ stage' = "tagged" /\ UNCHANGED tags
    /\ UNCHANGED <<defn, tree, lib, moved, vocab, facts, clock, moment, kept, query>>

EnsureFacts ==
    /\ stage = "tagged"
    /\ \/ FactsAttributes(tree) # {} /\ stage' = "refused" /\ UNCHANGED facts
       \/ /\ stage' = "facted"
          /\ facts' = IF FactsAttributes(tree) = {} THEN facts ELSE [i \in Items |-> lib[i]]
    /\ UNCHANGED <<defn, tree, lib, moved, vocab, tags, clock, moment, kept, query>>

\* One attribute's vocabulary is asked for and memoised, its failure too.
ReadVocabulary(a) ==
    /\ stage = "facted"
    /\ vocab[a].read = "unread"
    /\ \E p \in Predicates(tree) : p.attr = a /\ Checkable(p)
    /\ \E answer \in {[read |-> "read", words |-> VocabularyOf(a)], [read |-> "failed", words |-> {}]} :
          vocab' = [vocab EXCEPT ![a] = answer]
    /\ UNCHANGED <<defn, stage, tree, lib, moved, tags, facts, clock, moment, kept, query>>

\* _known_tag_values returns: the tree is pruned and the moment is taken.
KnownTagValues ==
    /\ stage = "facted"
    /\ \A p \in Predicates(tree) : Checkable(p) => vocab[p.attr].read # "unread"
    /\ tree' = WithoutValues(tree)
    /\ moment' = clock
    /\ stage' = "judging"
    /\ UNCHANGED <<defn, lib, moved, vocab, tags, facts, clock, kept, query>>

\* PlexItemView.get: the listing's own values, the enrichment, the facts.
Unloaded(a) ==
    CASE Source(a) = "listing" -> FALSE
      [] Source(a) = "tier2-batched" -> tags = <<>>
      [] Source(a) = "facts" -> a \notin FactsFilterRows \/ facts = <<>>
      [] OTHER -> TRUE
View(i) == [a \in {b \in DOMAIN lib[i] : ~Unloaded(b)} |->
    CASE Source(a) = "tier2-batched" -> tags[i][a]
      [] Source(a) = "facts" -> facts[i][a]
      [] Source(a) = "listing" -> lib[i][a]]
Raises == \E p \in Predicates(tree) : Unloaded(p.attr)
Verdict(b) == IF b THEN "in" ELSE "out"
JudgementNow(i) == Verdict(Evaluate(tree, View(i), clock))
Judgement(i) == Verdict(Evaluate(tree, View(i), moment))

\* _passing judges the items one after the other; an exception fails them all.
Judge(i) ==
    /\ stage = "judging"
    /\ kept[i] = "unjudged"
    /\ IF Raises THEN stage' = "failed" /\ UNCHANGED kept
       ELSE kept' = [kept EXCEPT ![i] = Judgement(i)] /\ UNCHANGED stage
    /\ UNCHANGED <<defn, tree, lib, moved, vocab, tags, facts, clock, moment, query>>

Done ==
    /\ stage = "judging"
    /\ \A i \in Items : kept[i] # "unjudged"
    /\ stage' = "done"
    /\ UNCHANGED <<defn, tree, lib, moved, vocab, tags, facts, clock, moment, kept, query>>

\* PlexSearchBuilder.build: the sorts are checked first, then the query is
\* rendered against the vocabulary Plex answers, at one moment.
Search ==
    /\ stage = "resolved" /\ defn.kind = "search"
    /\ LET vocs == [a \in DOMAIN lib[CHOOSE i \in Items : TRUE] |-> VocabularyOf(a)]
           sent == /\ defn.level # "item" => Libtype = "show"
                   /\ SortsOffered
                   /\ ~Unanswerable(tree, vocs)
       IN  \/ /\ sent
              /\ query' = BuildSearchUrl(tree, vocs, clock)
              /\ moment' = clock
              /\ vocab' = [a \in DOMAIN vocab |-> IF a \in DOMAIN vocs THEN [read |-> "read", words |-> vocs[a]] ELSE vocab[a]]
              /\ stage' = IF SortArgument = {} THEN "failed" ELSE "searched"
           \/ ~sent /\ stage' = "refused" /\ UNCHANGED <<query, moment, vocab>>
    /\ UNCHANGED <<defn, tree, lib, moved, tags, facts, clock, kept>>

\* Items are retagged and facts are gathered while a pass runs.
LibraryMoves ==
    /\ stage \in {"resolved", "tagged", "facted"} /\ defn.kind = "filters"
    /\ ~moved
    /\ lib' \in Libraries \ {lib}
    /\ \A i \in Items : \A a \in DOMAIN lib[i] : Source(a) = "listing" => lib'[i][a] = lib[i][a]
    /\ moved' = TRUE
    /\ UNCHANGED <<defn, stage, tree, vocab, tags, facts, clock, moment, kept, query>>

Tick ==
    /\ stage \in {"judging"}
    /\ clock < MaxClock
    /\ clock' = clock + 1
    /\ UNCHANGED <<defn, stage, tree, lib, moved, vocab, tags, facts, moment, kept, query>>

Next ==
    \/ Load \/ EnsureTags \/ EnsureFacts \/ KnownTagValues \/ Done \/ Search \/ LibraryMoves \/ Tick
    \/ \E a \in TagAttributes : ReadVocabulary(a)
    \/ \E i \in Items : Judge(i)

Spec == Init /\ [][Next]_vars

----------------------------------------------------------------------------
(* What Plex answers (external): terms joined by and/or inside push/pop     *)
(* scopes, read from left to right.                                         *)

TermHolds(t, x) ==
    LET have == x[t.attr]
        negated == t.wire \in {"!", "!="}
        Num(y, z) == CASE t.wire \in {"", "!"} -> y = z [] t.wire = ">>" -> y > z [] t.wire = ">" -> y >= z
                       [] t.wire = "<<" -> y < z [] t.wire = "<" -> y <= z
        Txt(y, z) == CASE t.wire \in {"", "!"} -> Within(y, z) [] t.wire \in {"=", "!="} -> y = z
                       [] t.wire = "<" -> IsPrefix(z, y) [] t.wire = ">" -> IsSuffix(z, y)
    IN  CASE t.v = <<"number", -1>> -> (have = {}) = (t.wire = "")
          [] t.v[1] = "key" -> (t.v[2] \in have) = ~negated
          [] t.v[1] = "text" -> (\E y \in have : Txt(y, t.v[2])) = ~negated
          [] t.v[1] = "ago" -> \E y \in have : Num(y, moment - t.v[2] * Parts)
          [] t.v[1] = "day" -> \E y \in have : Num(y, Midnight(t.v[2]))
          [] t.v[1] = "number" /\ t.v[2] # -1 -> (\E y \in have : Num(y, t.v[2])) = ~negated

\* A scope is [val |-> its value so far, conj |-> the pending conjunction].
PlexAnswers(q, x) ==
    LET Meet(f, b) == CASE f.conj = "none" -> [val |-> b, conj |-> "none"]
                        [] f.conj = "and" -> [val |-> f.val /\ b, conj |-> "none"]
                        [] f.conj = "or" -> [val |-> f.val \/ b, conj |-> "none"]
        Fresh == [val |-> TRUE, conj |-> "none"]
        Step(st, t) ==
            CASE t.tok \in Joins -> [st EXCEPT ![Len(st)].conj = t.tok]
              [] t.tok = "push" -> Append(st, Fresh)
              [] t.tok = "pop" -> Append(SubSeq(st, 1, Len(st) - 2), Meet(st[Len(st) - 1], st[Len(st)].val))
              [] OTHER -> [st EXCEPT ![Len(st)] = Meet(@, TermHolds(t, x))]
    IN  FoldLeft(Step, <<Fresh>>, q)[1].val

----------------------------------------------------------------------------
(* What a written block means, read off the page.                           *)

Judged == stage \in {"judging", "done"}
Searched == stage = "searched"

RECURSIVE FilterMeans(_, _, _, _)
FilterMeans(block, op, i, now) ==
    Combine(op, {LET e == block[n] IN
        CASE e.k = "key" -> Matches(ParsePredicate(e, FALSE), View(i), now)
          [] e.k = "nest" /\ e.shape = "map" -> FilterMeans(e.blocks[1], e.op, i, now)
          [] e.k = "nest" /\ e.shape = "list" ->
               Combine(e.op, {FilterMeans(e.blocks[m], "all", i, now) : m \in DOMAIN e.blocks}) : n \in DOMAIN block})

\* One written value of a searched key against an item.
LeafMeans(p, v, x) ==
    LET have == x[p.attr]
        day == IF v[1] = "today" THEN <<"day", Day(moment)>> ELSE v
    IN  CASE p.op = "rated" \/ Type(p.attr) = "bool" -> (have # {}) = v[2]
          [] Type(p.attr) = "date" /\ p.op = "eq" -> \E w \in have : w > moment - v[2] * Parts
          [] Type(p.attr) = "date" /\ p.op = "not" -> \E w \in have : w < moment - v[2] * Parts
          [] p.op \notin {"rated", "eq", "not"} /\ Type(p.attr) = "date" -> MatchesOne(p.attr, p.op, have, day, moment)
          [] p.op # "rated" /\ Type(p.attr) \notin {"date", "bool"} ->
               MatchesOne(p.attr, Positive(p.attr, p.op), have, v, moment) = (p.op \notin Negatives)
KeysOf(p, v) == IF p.op = "regex" THEN v[2] \cap vocab[p.attr].words ELSE TagKeys(p.attr, vocab[p.attr].words, v)
KeyMeans(p, v, x) ==
    IF Type(p.attr) = "tag" THEN {(key \in x[p.attr]) = (p.op # "not") : key \in KeysOf(p, v)}
    ELSE {LeafMeans(p, v, x)}

RECURSIVE SearchMeans(_, _, _)
SearchMeans(block, op, x) ==
    Combine(op, UNION {LET e == block[n] IN
        CASE e.k = "key" -> LET p == ParsePredicate(e, TRUE) IN
                            {Combine(op, UNION {KeyMeans(p, v, x) : v \in ToSet(p.vals)})}
          [] e.k = "nest" /\ e.shape = "map" -> {SearchMeans(e.blocks[1], e.op, x)}
          [] e.k = "nest" /\ e.shape = "list" -> {SearchMeans(e.blocks[m], e.op, x) : m \in DOMAIN e.blocks}
        : n \in DOMAIN block})

----------------------------------------------------------------------------
(* Properties.                                                              *)

\* A run has the shape the engine gives it.
TypeOK ==
    /\ stage \in {"load", "resolved", "tagged", "facted", "judging", "done", "refused", "failed", "searched"}
    /\ \A i \in Items : kept[i] \in {"unjudged", "in", "out"}
    /\ moment \in 0..MaxClock
    /\ stage \in {"judging", "done", "searched"} => ~Refused(tree)

\* _passing's "evaluation is total by construction", and build_search_url's
\* gate: a filter that loaded and whose reads were answered never raises on an
\* item, and a search that passed its checks never raises while it is rendered.
EvaluationIsTotal == stage # "failed"

\* _known_tag_values: dropping the values this library does not use "leaves the
\* membership either identical or narrower".  While the library stands still,
\* whoever is kept is kept by the block as it was written, and unless some key
\* lost every value, everyone the block keeps is kept.
KeptAsWritten ==
    Judged /\ ~moved => \A i \in Items : kept[i] # "unjudged" => \E t \in 0..clock :
        \/ (kept[i] = "in") = FilterMeans(defn.block, defn.op, i, t)
        \/ kept[i] = "out" /\ \E p \in Predicates(ParseBlock(defn.block, defn.op, FALSE)) :
                                Checkable(p) /\ \A v \in ToSet(p.vals) : Unknown(p, v)

\* _passing's "one moment for the whole collection": the members are the ones a
\* single instant of the pass would have chosen, however long judging took.
OneMoment ==
    stage = "done" => \E t \in 0..clock : \A i \in Items : kept[i] = Verdict(Evaluate(tree, View(i), t))

\* _render_group: within one push/pop scope the terms are joined by one
\* conjunction only, so no reading of and/or precedence can change the answer.
OneConjunctionPerScope ==
    Searched => \A i, j \in DOMAIN query :
        LET depth(n) == Cardinality({m \in 1..n : query[m].tok = "push"}) - Cardinality({m \in 1..n : query[m].tok = "pop"})
        IN  i < j /\ query[i].tok \in Joins /\ query[j].tok \in Joins /\ depth(i) = depth(j)
              /\ (\A m \in i..j : depth(m) >= depth(i))
            => query[i] = query[j]

\* build_search_url: Plex's answer to the query is the set of items the written
\* search means, item for item.  An absolute date bound is read the way a
\* filter reads it, so the two halves of the language keep the same days.
SearchAsWritten ==
    Searched => \A i \in Items : PlexAnswers(query, lib[i]) = SearchMeans(defn.block, defn.op, lib[i])

\* An evaluation reads only what it fetched, keeps the items the filter means, at one
\* moment, and a search asks Plex for what it says.
Safety ==
    /\ TypeOK
    /\ EvaluationIsTotal
    /\ KeptAsWritten
    /\ OneMoment
    /\ OneConjunctionPerScope
    /\ SearchAsWritten
=============================================================================
