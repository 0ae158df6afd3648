------------------------------ MODULE MCMedia -------------------------------
(* What Plex is given to show: the filters and searches of a builder's     *)
(* definition, a collection's members, the collections themselves and the  *)
(* playlists, each by itself. The first part has two items and blocks of   *)
(* up to two levels.                                                       *)
EXTENDS Filters

CONSTANTS Nothing, Gone

VARIABLE part   \* which of the components runs in this behaviour
VARIABLES
    c_plex, c_rows, c_events, c_config, c_source, c_pass, c_ops, c_shielded, c_quiet,
    c_deleted, c_passes, c_requests, c_edits
VARIABLES
    m_history, m_cache, m_collection, m_hash, m_told, m_run, m_build, m_builds, m_faults,
    m_edits
VARIABLES p_config, p_source, p_lists, p_rows, p_pass, p_op, p_keys, p_budget, p_ghost

-----------------------------------------------------------------------------
(* A list, a divider that may share its title, a family and a smart filter. *)
ColDef(t, shape) == [title |-> t, shape |-> shape, label |-> Nothing, units |-> <<>>]
ColGroup == [title |-> "g", shape |-> "family", label |-> "fam", units |-> <<"f">>]
ColConfigs == {<<ColDef("d", "list"), ColGroup, ColDef("sep", "separator")>>,
               <<ColDef("d", "smart"), ColDef("d", "separator")>>}
ColIds == {"c1", "c2", "c3"}

Col == INSTANCE Collections WITH
    plex <- c_plex, rows <- c_rows, events <- c_events, config <- c_config,
    source <- c_source, pass <- c_pass, ops <- c_ops, shielded <- c_shielded,
    quiet <- c_quiet, deleted <- c_deleted, passes <- c_passes, requests <- c_requests,
    edits <- c_edits, Titles <- {"d", "f", "g", "sep", "x"}, Ids <- ColIds, None <- Nothing,
    Own <- "own", Prior <- "prior", Protect <- "protect", Configs <- ColConfigs,
    Adopt <- TRUE, DeleteUnconfigured <- TRUE, MaxDeletes <- 2, LocalPosters <- {},
    Versions <- {1}, Flaps <- FALSE, BlankTitles <- {"x"}, DeleteTitles <- {"d"},
    ForeignTitles <- {"x"}, Moving <- {"d", "g"}, MaxPasses <- 2, MaxOps <- 1, MaxEdits <- 1

\* No collection is deleted without its audit row, across failures and rollbacks.
CollectionsSafety == part = "collections" => Col!Safety

\* A pass leaves protected and just built collections alone, settles only what holds
\* its source, writes nothing when quiet and nothing in a dry run.
CollectionsSteps == Col!Steps

-----------------------------------------------------------------------------
(* Six ids, two of which name one item, one unowned and one of the other   *)
(* media type, in pages of two, at most two pages.                         *)
MemOwnerOf == [a1 |-> "A", a2 |-> "A", b |-> "B", c |-> "C", u |-> Nothing, o |-> "B"]
MemDef(kind, filtered, restricted, limit, mode) ==
    [kind |-> kind, filtered |-> filtered, restricted |-> restricted, limit |-> limit,
     mode |-> mode, push |-> TRUE]
MemDefinitions ==
    {MemDef("tmdb", FALSE, FALSE, Nothing, "sync"), MemDef("imdb", TRUE, FALSE, 1, "sync"),
     MemDef("tracearr", FALSE, TRUE, Nothing, "append"),
     MemDef("mdblist", FALSE, FALSE, Nothing, "sync"), MemDef("award", FALSE, FALSE, 2, "sync")}
MemLists == {<<"a1", "a2", "b", "c">>, <<"u", "o", "c", "a2", "b">>, <<"b", "o">>, <<>>}

Mem == INSTANCE Membership WITH
    history <- m_history, cache <- m_cache, collection <- m_collection, hash <- m_hash,
    told <- m_told, run <- m_run, build <- m_build, builds <- m_builds, faults <- m_faults,
    edits <- m_edits, Ids <- {"a1", "a2", "b", "c", "u", "o"}, Items <- {"A", "B", "C"},
    None <- Nothing, OwnerOf <- MemOwnerOf, OtherMedia <- {"o"}, Rejected <- {"A"},
    Unheld <- {"C"}, Pushable <- {"a2", "b", "c"}, Lists <- MemLists,
    Definitions <- MemDefinitions, PageSize <- 2, MaxPages <- 2, MaxMoves <- 1,
    MaxBuilds <- 2, MaxFaults <- 1, MaxEdits <- 1

\* A member set is what a served list means, and a spent budget is never cached.
MembershipSafety == part = "membership" => Mem!Safety

\* A failed source changes no member, a collection in use is never emptied on the way,
\* a settled one holds what was built, and a spent budget ends the pass's asking.
MembershipSteps == Mem!Steps

-----------------------------------------------------------------------------
(* One preset and one operator definition that is copied to one user. *)
Running == [presets |-> {"p"}, defs |-> {"d"},
            sync |-> [t \in {"p", "d"} |-> IF t = "d" THEN {"u"} ELSE {}],
            apply |-> TRUE, userApply |-> TRUE, sweep |-> TRUE, mode |-> "sync"]
PlaConfigs == {Running, [Running EXCEPT !.defs = {}, !.presets = {}],
               [Running EXCEPT !.apply = FALSE, !.mode = "append"],
               [Running EXCEPT !.mode = "append", !.sync = [t \in {"p", "d"} |-> {}]]}
PlaSources == {<<>>, <<1, 2>>, <<2, 3>>}

Pla == INSTANCE Playlists WITH
    config <- p_config, source <- p_source, lists <- p_lists, rows <- p_rows,
    pass <- p_pass, op <- p_op, keys <- p_keys, budget <- p_budget, ghost <- p_ghost,
    Titles <- {"p", "d"}, Presets <- {"p"}, Users <- {"u"}, Sources <- PlaSources,
    Configs <- PlaConfigs, MaxDeletes <- 2, MaxUsers <- 1, MaxUserWrites <- 1, Events <- 3

\* Somebody else's playlist is never touched, no title is made twice, a row's hash is
\* true, the caps hold and the sweep spares what the pass wants.
PlaylistsSafety == part = "playlists" => Pla!Safety

-----------------------------------------------------------------------------
\* An evaluation reads only what it fetched, keeps the items the filter means, at one
\* moment, and a search asks Plex for what it says.
FiltersSafety == part = "filters" => Safety

-----------------------------------------------------------------------------
c_vars ==
    <<c_plex, c_rows, c_events, c_config, c_source, c_pass, c_ops, c_shielded, c_quiet,
      c_deleted, c_passes, c_requests, c_edits>>
m_vars ==
    <<m_history, m_cache, m_collection, m_hash, m_told, m_run, m_build, m_builds, m_faults,
      m_edits>>
p_vars ==
    <<p_config, p_source, p_lists, p_rows, p_pass, p_op, p_keys, p_budget, p_ghost>>

\* A filter without keys, which is what the other parts leave in its place.
AtRest == [kind |-> "filters", op |-> "all", block |-> <<>>, sorts |-> <<>>, level |-> "item"]

\* One component takes any of its initial states, the others rest in one of theirs.
MediaInit ==
    /\ part \in {"filters", "collections", "membership", "playlists"}
    /\ Init /\ (part # "filters" => defn = AtRest) /\ (part # "filters" => lib = CHOOSE l \in Libraries : TRUE)
    /\ Col!Init /\ (part # "collections" => c_config = CHOOSE k \in ColConfigs : TRUE) /\ (part # "collections" => c_plex = [i \in ColIds |-> Nothing])
    /\ Mem!Init /\ (part # "membership" => m_history = <<<<>>>>)
    /\ Pla!Init /\ (part # "playlists" => p_config = Running /\ p_source = [t \in {"p", "d"} |-> <<1, 2>>])

MediaNext ==
    \/ part = "filters" /\ Next /\ UNCHANGED <<part, c_vars, m_vars, p_vars>>
    \/ part = "collections" /\ Col!Next /\ UNCHANGED <<part, vars, m_vars, p_vars>>
    \/ part = "membership" /\ Mem!Next /\ UNCHANGED <<part, vars, c_vars, p_vars>>
    \/ part = "playlists" /\ Pla!Next /\ UNCHANGED <<part, vars, c_vars, m_vars>>

MediaSpec == MediaInit /\ [][MediaNext]_<<part, vars, c_vars, m_vars, p_vars>>

MCItems == {"i1", "i2"}
H == <<"horror", "">>
C == <<"comedy", "">>
P == <<"pt", "">>
B == <<"pt", "BR">>
w(t) == <<"word", t>>
n(x) == <<"number", x>>
key(a, m, vs) == [k |-> "key", attr |-> a, mod |-> m, vals |-> vs]
nest(o, sh, bs) == [k |-> "nest", op |-> o, shape |-> sh, blocks |-> bs]

\* Keys a filter may hold: each rule of _matches at least once.
FilterKeys == {
    key("genre", "", <<w(H), w(C)>>), key("genre", "not", <<w(H), w(C)>>), key("genre", "count_lt", <<n(1)>>),
    key("genre", "regex", <<<<"pattern", {H}>>>>), key("audio_language", "not", <<w(P)>>),
    key("year", "not", <<<<"current_year", 1>>>>), key("imdb_rating", "not", <<n(1)>>),
    key("added", "", <<n(1)>>), key("added", "to", <<<<"today", 0>>>>), key("studio", "not", <<w(<<1>>)>>)}
MoreFilterKeys == {
    key("genre", "", <<w(<<"horrror", "">>)>>), key("genre", "not", <<w(<<"horrror", "">>)>>),
    key("added", "before", <<<<"today", 0>>>>), key("added", "from", <<<<"day", 1>>>>), key("release", "to", <<<<"day", 1>>>>),
    key("duration", "gte", <<n(1)>>), key("duration", "not", <<n(1)>>), key("studio", "begins", <<w(<<1>>)>>),
    key("studio", "ends", <<w(<<1>>)>>), key("studio", "isnot", <<w(<<1>>)>>), key("studio", "regex", <<<<"pattern", {<<1>>}>>>>),
    key("year", "", <<n(1)>>), key("year", "lt", <<n(1)>>), key("imdb_rating", "gt", <<n(0)>>), key("genre", "eq", <<w(H)>>),
    key("network", "", <<w(H)>>), key("tmdb_status", "", <<w(H)>>), key("actor", "", <<w(H)>>), key("hdr", "", <<<<"flag", TRUE>>>>),
    key("unheard_of", "", <<w(H)>>), key("genre", "", <<>>), key("year", "", <<w(H)>>), key("duration", "rated", <<<<"flag", TRUE>>>>),
    key("audio_language", "", <<w(B)>>), key("release", "after", <<<<"day", 0>>>>)}
SearchKeys == {
    key("genre", "", <<w(H), w(C)>>), key("genre", "not", <<w(H)>>), key("audio_language", "", <<w(P)>>),
    key("year", "gt", <<n(0)>>), key("studio", "", <<w(<<1>>)>>), key("added", "", <<n(1)>>)}
MoreSearchKeys == {
    key("added", o, <<d>>) : o \in {"before", "after", "from", "to"}, d \in {<<"day", 1>>, <<"today", 0>>}} \cup {
    key("release", o, <<d>>) : o \in {"before", "after", "from", "to"}, d \in {<<"day", 1>>, <<"today", 0>>}} \cup {
    key("genre", "regex", <<<<"pattern", {H, C}>>>>), key("audio_language", "", <<w(B)>>), key("audio_language", "not", <<w(P)>>),
    key("audience_rating", "rated", <<<<"flag", TRUE>>>>), key("audience_rating", "rated", <<<<"flag", FALSE>>>>),
    key("audience_rating", "", <<n(1)>>), key("duration", "lt", <<n(1)>>), key("duration", "", <<n(1)>>), key("imdb_rating", "gt", <<n(1)>>),
    key("versions", "gt", <<n(1)>>), key("year", "not", <<<<"current_year", 0>>>>), key("year", "lte", <<n(1)>>), key("resolution", "not", <<w(H)>>),
    key("studio", "not", <<w(<<1>>)>>), key("studio", "is", <<w(<<1>>)>>), key("studio", "isnot", <<w(<<1>>)>>),
    key("studio", "begins", <<w(<<1>>)>>), key("studio", "ends", <<w(<<1>>)>>), key("added", "not", <<n(1)>>),
    key("trash", "", <<<<"flag", TRUE>>>>)}

Pairs(K) == {<<a, b>> : a \in K, b \in K}
\* Nested blocks take their inner keys from the smaller set S.
Blocks(K, S) ==
    {<<a>> : a \in K} \cup Pairs(K)
    \cup {<<a, nest(o, "map", <<<<b, c>>>>)>> : a \in K, b \in S, c \in S, o \in {"any", "all"}}
    \cup {<<a, nest(o, "list", <<<<b, c>>, <<a>>>>)>> : a \in K, b \in S, c \in S, o \in {"any", "all"}}
    \cup {<<nest(o, "list", <<>>)>> : o \in {"any", "all"}} \cup {<<>>}
InnerFilterKeys == {key("genre", "not", <<w(H), w(C)>>), key("imdb_rating", "not", <<n(1)>>), key("added", "", <<n(1)>>)}
InnerSearchKeys == {key("genre", "not", <<w(H)>>), key("year", "gt", <<n(0)>>), key("added", "", <<n(1)>>)}

defs(kind, bs, sorts, levels) == {[kind |-> kind, op |-> o, block |-> b, sorts |-> s, level |-> l] :
                                    o \in IF kind = "filters" THEN {"all"} ELSE {"any", "all"}, b \in bs, s \in sorts, l \in levels}
MCWritten ==
    defs("filters", Blocks(FilterKeys, InnerFilterKeys) \cup {<<a>> : a \in MoreFilterKeys}, {<<>>}, {"item"}) \cup
    defs("search", Blocks(SearchKeys, InnerSearchKeys) \cup {<<a>> : a \in MoreSearchKeys}, {<<>>}, {"item"}) \cup
    defs("search", {<<key("year", "gt", <<n(0)>>)>>}, {<<"title">>, <<"plays">>, <<"season">>, <<"unheard_of">>}, {"item", "season"})

Blank == [genre |-> {}, audio_language |-> {}, year |-> {}, imdb_rating |-> {}, added |-> {}, release |-> {},
         studio |-> {}, duration |-> {}, audience_rating |-> {}, network |-> {}, tmdb_status |-> {}, actor |-> {},
         resolution |-> {}, trash |-> {}, hdr |-> {}]
One == [Blank EXCEPT !.genre = {H, C}, !.audio_language = {B}, !.year = {1}, !.imdb_rating = {1}, !.added = {1}, !.release = {2},
                    !.studio = {<<1, 2>>}, !.duration = {2}, !.audience_rating = {1}, !.trash = {1}]
Two == [Blank EXCEPT !.genre = {<<"horror", "x">>}, !.audio_language = {P}, !.year = {0}, !.imdb_rating = {2}, !.added = {3}, !.release = {0},
                    !.studio = {<<2, 1>>}, !.duration = {3}]
MCLibraries == {
    [i1 |-> One, i2 |-> Two], [i1 |-> One, i2 |-> [Blank EXCEPT !.added = {1}]], [i1 |-> [One EXCEPT !.genre = {}], i2 |-> Two],
    [i1 |-> [One EXCEPT !.genre = {C}], i2 |-> [Two EXCEPT !.imdb_rating = {}]]}
=============================================================================
