----------------------------- MODULE MCPictures -----------------------------
(* The pictures: the action center over a library's render rows, and one    *)
(* asset that passes, requests and the outside work on, each by itself.     *)
(* Items 1 and 2 are copies of one film in two libraries, under one dedupe  *)
(* key; item 3 is a film of its own.                                        *)
EXTENDS ActionCenter, Artwork, TLC

CONSTANTS w1, w2

VARIABLE part   \* which of the components runs in this behaviour

-----------------------------------------------------------------------------
(* A poster with logos, a season that falls back to its show, a title card *)
(* with Plex's own frame, from two providers.                              *)
ArtProviders == <<"A", "B">>

ArtCatalogue ==
    [u \in {"p1", "p2", "s1", "l1", "l2", "l3", "l4"} |->
        [lang |-> IF u = "l3" THEN "fi" ELSE IF u = "p2" THEN "none" ELSE "en", textless |-> u = "p2",
         claimsText |-> u = "p1", score |-> IF u = "l1" THEN 9 ELSE 5, big |-> u = "l1"]]

Usual == [ver |-> 1, enabled |-> TRUE, offline |-> FALSE, order |-> <<"xx", "en">>, logoOrder |-> <<"en", "fi">>,
          useLogo |-> TRUE, logoTextFallback |-> TRUE, skipLocalText |-> FALSE, skipWithText |-> FALSE]

ArtConfigs == <<Usual,
               [Usual EXCEPT !.ver = 2, !.skipWithText = TRUE, !.skipLocalText = TRUE, !.logoTextFallback = FALSE],
               [Usual EXCEPT !.ver = 3, !.order = <<"xx">>, !.useLogo = FALSE],
               [Usual EXCEPT !.ver = 4, !.offline = TRUE],
               [Usual EXCEPT !.ver = 5, !.enabled = FALSE]>>

Offered(a, b) == [A |-> a, B |-> b]

Serving(first, second, third) ==
    [p1 |-> first, p2 |-> "b2", s1 |-> "b3", l1 |-> "x", l2 |-> second, l3 |-> third, l4 |-> "refused"]

OffersOf == {Offered({"p1"}, {"p2"}), Offered({}, {})}
ShowOf == {Offered({}, {"s1"}), Offered({}, {})}
LogosOf == {Offered({"l1", "l2"}, {"l3", "l4"}), Offered({"l2"}, {})}
ServedOf == {Serving("b1", "k2", "k3"), Serving("refused", "down", "refused")}

Start0 == [offers |-> Offered({"p1"}, {}), show |-> Offered({}, {"s1"}), logos |-> Offered({"l2"}, {}),
           served |-> Serving("b1", "k2", "k3"), down |-> {}, title |-> "short", overlay |-> "o1", frame |-> "f1"]

ArtFirstWorlds == {Start0, [Start0 EXCEPT !.logos = Offered({"l1", "l2"}, {"l3", "l4"}), !.served = Serving("b1", "refused", "k3")]}

\* Every world one may come to.
ArtWorlds ==
    [offers : OffersOf \cup {Start0.offers}, show : ShowOf, logos : LogosOf,
     served : ServedOf \cup {Serving("b1", "refused", "k3")}, down : {{}, {"A"}},
     title : {"short", "long", "tba"}, overlay : {"o1", "o2"}, frame : {"none", "f1"}]

\* One thing changes at a time, and only what the art kind looks at.
OneChange(k, v) ==
    {[v EXCEPT !.offers = o] : o \in OffersOf} \cup {[v EXCEPT !.overlay = o] : o \in {"o2"}}
    \cup {[v EXCEPT !.title = t] : t \in {"short", "long"} \cup (IF k = "title_card" THEN {"tba"} ELSE {})}
    \cup CASE k = "poster" -> {[v EXCEPT !.logos = o] : o \in LogosOf} \cup {[v EXCEPT !.served = s] : s \in ServedOf}
           [] k = "season_poster" -> {[v EXCEPT !.show = o] : o \in ShowOf}
           [] OTHER -> {[v EXCEPT !.frame = f] : f \in {"none", "f1"}} \cup {[v EXCEPT !.down = d] : d \in {{}, {"A"}}}

\* The logos matter to posters only; an override that is there from the start
\* is tried on a row without history that is no poster.
ArtInit ==
    /\ ArtworkInit
    /\ world.logos["B"] = {} \/ kind = "poster"
    /\ mount.base = None \/ (~render.adopted /\ kind # "poster" /\ world = Start0)

ArtWorkers == {w1, w2}

Symmetry == Permutations({w1, w2})

-----------------------------------------------------------------------------
ActRows == {1, 2, 3}
ActItem == <<1, 2, 3>>
ActKind == <<"poster", "background", "background">>
ActLibrary == <<"Movies", "Anime", "Movies">>
ActKey == <<1, 1, 2>>
ActWaiting == {{3}}
ActOld == [lang |-> "", textless |-> FALSE, prov |-> "", size |-> 0]
ActArts == {[lang |-> "en", textless |-> TRUE, prov |-> "tmdb", size |-> 40],
            [lang |-> "en", textless |-> FALSE, prov |-> "tvdb", size |-> 20]}
Orders(p, b) == [poster |-> p, background |-> b]
ActFirst ==
    [order |-> Orders(<<"xx", "en">>, <<>>), provider |-> "tmdb", floor |-> 20,
     override |-> [Movies |-> Orders(<<"en">>, <<>>), Anime |-> Orders(<<>>, <<"en">>)],
     excluded |-> {}]
ActConfigs ==
    {ActFirst,
     [order |-> Orders(<<>>, <<"xx">>), provider |-> "tvdb", floor |-> 10,
      override |-> [Movies |-> Orders(<<>>, <<>>), Anime |-> Orders(<<>>, <<>>)],
      excluded |-> {"Anime"}]}

\* One component takes any of its initial states, the others rest in one of theirs.
\* The film of its own has been rendered, and its job waits.
PicturesInit ==
    /\ part \in {"action center", "artwork"}
    /\ Init /\ row[3].fp /\ (part # "action center" => config = ActFirst /\ \A r \in Rows : row[r].fp)
    /\ ArtInit /\ (part # "artwork" => kind = "poster" /\ world = Start0 /\ ~render.adopted)

PicturesNext ==
    \/ part = "action center" /\ Next /\ UNCHANGED <<part, artworkVars>>
    \/ part = "artwork" /\ ArtworkNext /\ UNCHANGED <<part, vars>>

PicturesSpec == PicturesInit /\ [][PicturesNext]_<<part, vars, artworkVars>>
=============================================================================
