------------------------------- MODULE Artwork -------------------------------
(***************************************************************************)
(* One artifact of one item, from the provider ladder to the asset tree:   *)
(* render/pipeline.py render_artifact, render/artwork_fetch.py,            *)
(* providers/ladder.py, and the three requests that change its source      *)
(* (api/candidates.py, api/manual.py, api/routes.py clear_manual_override  *)
(* and reprocess_item).                                                    *)
(*                                                                         *)
(* A pass holds the item's and the render's database rows from its first   *)
(* upsert to its commit (`locked'), so a second worker on the same item    *)
(* and a request that clears the fingerprint wait for it.  Files are not   *)
(* under that lock: the override mount, the asset and its staging copy     *)
(* move between any two steps.                                             *)
(*                                                                         *)
(* Bytes are their digest.  A picture is the record of what was drawn into *)
(* it; a fingerprint is the record of the inputs that are hashed.          *)
(***************************************************************************)
EXTENDS Naturals, Sequences, FiniteSets

CONSTANTS
    Workers,        \* pool workers
    Requests,       \* operator requests in flight
    Providers,      \* the ladder: a sequence of provider names
    Catalogue,      \* [url -> [lang, textless, claimsText, score, big]]
    ArtworkConfigs, \* a sequence of artwork configurations
    Worlds,         \* what the outside may look like
    FirstWorlds,    \* and what it may look like at first
    Turns(_, _),    \* what it may turn into, seen by an art kind
    Uploads,        \* base images an operator may install
    PickedLogos,    \* logos an operator may pick
    ArtworkEvents   \* bound: requests, outside changes and crashes together

VARIABLES
    kind,       \* the art kind, fixed for a behaviour
    world,      \* providers, what URLs serve, title, overlay file, Plex frame
    cfg,        \* index of the configuration a new pass is given
    mount,      \* the manual override and the picked logos
    render,     \* the renders row
    locked,     \* the worker whose transaction holds the row, or "free"
    asset,      \* the target file
    backup,     \* its one previous generation
    staging,    \* .<name>.tmp beside it
    pass,       \* each worker's pass
    press,      \* each request
    queued,     \* a process_item job is pending
    budget,     \* events left
    ghost       \* history used by the properties only

artworkVars == <<kind, world, cfg, mount, render, locked, asset, backup, staging, pass, press, queued, budget, ghost>>

Kinds == {"poster", "season_poster", "title_card"}
LogoSuffixes == <<".png", ".webp">>
None == "none"
TopScore == 9

ASSUME ArtworkWorkersAssumption == "free" \notin Workers

\* An absent picture is version 0; languages are listed by preference.
ASSUME ArtworkConfigsAssumption ==
    /\ 1 \in DOMAIN ArtworkConfigs
    /\ \A i \in DOMAIN ArtworkConfigs :
          /\ ArtworkConfigs[i].ver # 0
          /\ ArtworkConfigs[i].order \in Seq(STRING) /\ ArtworkConfigs[i].logoOrder \in Seq(STRING)

\* The URLs a season's show is offered under, and those of anything's own.
ShowUrls == UNION {UNION {v.show[Providers[i]] : i \in DOMAIN Providers} : v \in Worlds}
OwnUrls == UNION {UNION {v.offers[Providers[i]] : i \in DOMAIN Providers} : v \in Worlds}
LogoUrls == UNION {UNION {v.logos[Providers[i]] : i \in DOMAIN Providers} : v \in Worlds}

\* A URL is one picture's: a show's is not also offered as a season's own.
\* What is served has bytes.
ASSUME ArtworkUrlsAssumption ==
    /\ DOMAIN Providers \subseteq Nat
    /\ ShowUrls \cap (OwnUrls \cup {None, "manual", "plex"}) = {}
    /\ None \notin LogoUrls
    /\ \A u \in ShowUrls \cup OwnUrls \cup LogoUrls : Catalogue[u].score \in 0..TopScore
    /\ \A v \in Worlds, u \in LogoUrls : v.served[u] # None

ASSUME ArtworkRequestsAssumption == None \notin Requests \cup Uploads

ASSUME ArtworkWorldsAssumption ==
    /\ FirstWorlds \subseteq Worlds
    /\ \A k \in Kinds, v \in Worlds : Turns(k, v) \subseteq Worlds

-----------------------------------------------------------------------------
(* The provider ladder.                                                     *)

Unranked == 99

Position(x, seq) == CHOOSE i \in DOMAIN seq : seq[i] = x

Listed(x, seq) == \E i \in DOMAIN seq : seq[i] = x

LanguageRank(url, order) ==
    LET c == Catalogue[url] IN
    IF c.textless /\ Listed("xx", order) THEN Position("xx", order)
    ELSE IF Listed(c.lang, order) THEN Position(c.lang, order)
    ELSE Unranked

\* rank_key: language, then textlessness, then the provider's score.
Before(u, v, order) ==
    LET k(w) == <<LanguageRank(w, order), IF Catalogue[w].textless THEN 0 ELSE 1, TopScore - Catalogue[w].score>>
        a == k(u)
        b == k(v)
    IN  \/ a[1] < b[1]
        \/ a[1] = b[1] /\ a[2] < b[2]
        \/ a[1] = b[1] /\ a[2] = b[2] /\ a[3] < b[3]

Usable(urls, order) == {u \in urls : LanguageRank(u, order) # Unranked}

BestCandidate(urls, order) ==
    CHOOSE u \in Usable(urls, order) : \A v \in Usable(urls, order) \ {u} : ~Before(v, u, order)

PrefersTextless(order) == order # <<>> /\ order[1] = "xx"
TextlessOnly(order) == order = <<"xx">>

\* The walk over the providers: one that fails is passed over, a candidate
\* with text is parked while textless art is preferred.
SelectArtwork(offers, down, order, excluded) ==
    LET answers == {i \in DOMAIN Providers :
                       /\ Providers[i] \notin down
                       /\ Usable(offers[Providers[i]] \ excluded, order) # {}}
        best(i) == BestCandidate(offers[Providers[i]] \ excluded, order)
        first(S) == CHOOSE i \in S : \A j \in S : i <= j
        taken == {i \in answers : ~PrefersTextless(order) \/ Catalogue[best(i)].textless}
    IN  IF taken # {} THEN [url |-> best(first(taken)), fallback |-> FALSE]
        ELSE IF answers # {} /\ ~TextlessOnly(order) THEN [url |-> best(first(answers)), fallback |-> TRUE]
        ELSE [url |-> None, fallback |-> FALSE]

-----------------------------------------------------------------------------
(* Downloads.  A URL serves bytes, a body the guard refuses, or an error.   *)

Refused == "refused"
Failing == "down"
Fetched(v, url) == v.served[url]

\* pick_guarded_logo: at most three candidates, each asked without the ones
\* already tried; an oversized or refused one is skipped, an error is raised.
LogoStep(v, order, st) ==
    LET url == IF st.n = 0 THEN st.first ELSE SelectArtwork(v.logos, v.down, order, st.tried).url
        next == [st EXCEPT !.n = @ + 1, !.tried = @ \cup {url}]
    IN  IF st.done THEN st
        ELSE IF url = None THEN [st EXCEPT !.done = TRUE]
        ELSE IF Catalogue[url].big \/ Fetched(v, url) = Refused THEN next
        ELSE [next EXCEPT !.done = TRUE, !.url = url, !.bytes = Fetched(v, url)]

LogoStart(first) == [n |-> 0, first |-> first, tried |-> {}, done |-> FALSE, url |-> None, bytes |-> None]

LogoWalk(v, order, first) == LogoStep(v, order, LogoStep(v, order, LogoStep(v, order, LogoStart(first))))

-----------------------------------------------------------------------------
(* Fingerprints and pictures.                                               *)

NoFingerprint == [ver |-> 0, src |-> None, base |-> None, text |-> None, over |-> None, logo |-> None]

DrawsText(c, p, hasLogo) ==
    /\ ~(kind = "poster" /\ (hasLogo \/ p.suppressText))
    /\ ~(p.local /\ c.skipLocalText)
    /\ ~p.suppressStyling

ComputeFingerprint(c, p, hasLogo) ==
    [ver  |-> c.ver, src |-> p.src, base |-> p.base, logo |-> p.logo,
     text |-> IF DrawsText(c, p, hasLogo) THEN p.title ELSE None,
     over |-> IF p.suppressStyling THEN None ELSE world.overlay]

AdoptedFingerprint(c, title) ==
    [ver |-> c.ver, src |-> None, base |-> render.base, text |-> title, over |-> world.overlay, logo |-> None]

NoFile == [ver |-> 0, base |-> None, text |-> None, over |-> None, logo |-> None]

\* A file this program did not make: the one an adoption found.
Found == [NoFile EXCEPT !.base = "found"]

Digest(file) == IF file.ver = 0 THEN file.base ELSE "ours"

Partial == [NoFile EXCEPT !.base = "partial"]

\* compose_styled: what ends up in the picture.
Composed(c, p) ==
    [ver  |-> c.ver, base |-> p.base, logo |-> p.logo,
     text |-> IF DrawsText(c, p, p.logo # None) THEN p.title ELSE None,
     over |-> IF p.suppressStyling THEN None ELSE world.overlay]

\* The picture a fingerprint stands for.
Depicted(fp) == [ver |-> fp.ver, base |-> fp.base, text |-> fp.text, over |-> fp.over, logo |-> fp.logo]

TooLong(text) == text = "long"

-----------------------------------------------------------------------------
(* Passes.                                                                  *)

Idle == [pc |-> "idle", cfg |-> 1, title |-> None, src |-> None, base |-> None, local |-> FALSE,
         deferred |-> FALSE, fallback |-> None, suppressStyling |-> FALSE,
         logo |-> None, logoUrl |-> None, logoFirst |-> None, logoDeferred |-> FALSE, suppressText |-> FALSE,
         fp |-> NoFingerprint, picture |-> NoFile, handle |-> "closed"]

NoPress == [pc |-> "idle", what |-> None]

\* find_logo_override: the first suffix there is a file under.
LogoOverride(files) ==
    LET found == {i \in DOMAIN LogoSuffixes : files[LogoSuffixes[i]] # None} IN
    IF found = {} THEN None ELSE files[LogoSuffixes[CHOOSE i \in found : \A j \in found : i <= j]]

PickedLogo == LogoOverride(mount.logo)

ArtworkInit ==
    /\ kind \in Kinds
    /\ world \in FirstWorlds
    /\ cfg = 1
    /\ \E base \in {None, "m0"} : mount = [base |-> base, logo |-> [s \in {".png", ".webp"} |-> None]]
    /\ \E adopted \in BOOLEAN :
         /\ asset = IF adopted THEN Found ELSE NoFile
         /\ render = [fp |-> IF adopted THEN [ver |-> ArtworkConfigs[1].ver, src |-> None, base |-> "found", text |-> world.title,
                                           over |-> world.overlay, logo |-> None]
                                     ELSE NoFingerprint,
                   status |-> IF adopted THEN "rendered" ELSE "new",
                   src |-> None, base |-> IF adopted THEN "found" ELSE None,
                   logoUrl |-> None, logo |-> None, adopted |-> adopted, mode |-> "generate"]
    /\ locked = "free"
    /\ backup = NoFile
    /\ staging = NoFile
    /\ pass = [w \in Workers |-> Idle]
    /\ press = [r \in Requests |-> NoPress]
    /\ queued = TRUE
    /\ budget = ArtworkEvents
    /\ ghost = [moved |-> TRUE, dirty |-> FALSE, torn |-> FALSE, swapped |-> FALSE, spoilt |-> FALSE,
                promised |-> None, latest |-> None]

Begun(i, title) == [Idle EXCEPT !.cfg = i, !.title = title]

\* A worker claims the pending job; another may already be in the item.
ClaimItem(w) ==
    /\ queued /\ pass[w].pc = "idle"
    /\ queued' = FALSE
    /\ pass' = [pass EXCEPT ![w] = [Begun(cfg, world.title) EXCEPT !.pc = "start"]]
    /\ UNCHANGED <<kind, world, cfg, mount, render, locked, asset, backup, staging, press, budget, ghost>>

\* Whether a transaction may write the rows, or waits for the one that has.
RowIsFree == locked = "free"

\* The transaction ends with these columns: the row is free, the job done.
Finish(w, columns) ==
    /\ render' = columns
    /\ locked' = "free"
    /\ pass' = [pass EXCEPT ![w] = Idle]

Kept == <<kind, world, cfg, mount, press, budget>>

Skips(c, p) == ~c.enabled \/ (kind = "title_card" /\ p.title = "tba")

StillAdopted(c, p) ==
    /\ render.adopted /\ render.base # None
    /\ render.fp = AdoptedFingerprint(c, p.title)
    /\ Digest(asset) = render.base

\* _upsert_media_item and _get_or_create_render take the rows; then the gates
\* and the adoption short-circuit.
Start(w) ==
    LET p == pass[w]
        c == ArtworkConfigs[p.cfg]
    IN  /\ p.pc = "start" /\ RowIsFree
        /\ \/ /\ Skips(c, p)
              /\ Finish(w, [render EXCEPT !.status = "skipped"])
              /\ UNCHANGED ghost
           \/ /\ ~Skips(c, p) /\ StillAdopted(c, p)
              /\ Finish(w, [render EXCEPT !.status = "rendered"])
              /\ ghost' = [ghost EXCEPT !.moved = p.cfg # cfg \/ p.title # world.title]
           \/ /\ ~Skips(c, p) /\ ~StillAdopted(c, p)
              /\ locked' = w
              /\ pass' = [pass EXCEPT ![w].pc = "source"]
              /\ ghost' = [ghost EXCEPT !.dirty = p.cfg # cfg \/ p.title # world.title, !.swapped = FALSE]
              /\ UNCHANGED render
        /\ UNCHANGED <<Kept, asset, backup, staging, queued>>

\* SourceRefused rolls the pass back and records a failed artifact; any other
\* error only rolls back.  Either way the job fails and is tried again.
Abandon(w, refused) ==
    /\ Finish(w, IF refused THEN [render EXCEPT !.status = "failed"] ELSE render)
    /\ queued' = TRUE
    /\ UNCHANGED <<Kept, asset, backup, staging, ghost>>

CanSkipSourceDownload(url) == render.src = url /\ render.base # None /\ render.fp # NoFingerprint

\* The base image of a provider's candidate: its bytes, or the digest they
\* had when this row was last rendered from the same URL.
FromProvider(c, p, url, fallback) ==
    LET known == CanSkipSourceDownload(url) IN
    [p EXCEPT !.src = url, !.fallback = fallback, !.suppressStyling = c.skipWithText /\ Catalogue[url].claimsText,
              !.deferred = known, !.base = IF known THEN render.base ELSE Fetched(world, url)]

OwnUrl(c) == SelectArtwork(world.offers, world.down, c.order, {}).url
ShowUrl(c) == IF kind = "season_poster" THEN SelectArtwork(world.show, world.down, c.order, {}).url ELSE None
Frame == IF kind = "title_card" THEN world.frame ELSE None

\* The first rung that answers: the operator's file, the ladder, for a season
\* the show's poster, for a title card Plex's own frame.
Sourced(c, p) ==
    IF mount.base # None THEN [p EXCEPT !.src = "manual", !.base = mount.base, !.local = TRUE]
    ELSE IF c.offline THEN p
    ELSE IF OwnUrl(c) # None THEN FromProvider(c, p, OwnUrl(c), None)
    ELSE IF ShowUrl(c) # None THEN FromProvider(c, p, ShowUrl(c), "show_fallback")
    ELSE IF Frame # None THEN [p EXCEPT !.src = "plex", !.base = Frame, !.fallback = "plex_generated"]
    ELSE p

Unreadable(p) == ~p.local /\ ~p.deferred /\ p.base \in {Refused, Failing}

Source(w) ==
    LET p == pass[w]
        c == ArtworkConfigs[p.cfg]
        rest == <<Kept, asset, backup, staging, queued, ghost>>
    IN  /\ p.pc = "source"
        /\ \E q \in {Sourced(c, p)} :
           \/ /\ q.src = None /\ c.offline
              /\ Finish(w, [render EXCEPT !.status = "skipped"])
              /\ UNCHANGED rest
           \/ /\ q.src = None /\ ~c.offline
              /\ Finish(w, [render EXCEPT !.status = "no_art",
                                          !.mode = IF @ = "plex_generated" THEN "generate" ELSE @])
              /\ UNCHANGED rest
           \/ /\ q.src # None /\ Unreadable(q)
              /\ Abandon(w, q.base = Refused)
           \/ /\ q.src # None /\ ~Unreadable(q)
              /\ pass' = [pass EXCEPT ![w] = [q EXCEPT !.pc = "logo"]]
              /\ UNCHANGED <<rest, render, locked>>

\* A walk's outcome: a logo, or none and then the title text or nothing.
Walked(c, p, walk) ==
    [p EXCEPT !.logo = walk.bytes, !.logoUrl = walk.url, !.logoDeferred = FALSE,
              !.suppressText = walk.url = None /\ ~c.logoTextFallback]

LogoIsKnown(first) == first # None /\ render.logo # None /\ first = render.logoUrl

FirstLogo(c) == SelectArtwork(world.logos, world.down, c.logoOrder, {}).url

\* The picked logo, the one the row remembers from the same first candidate,
\* or a walk.
Logoed(c, p) ==
    IF kind # "poster" \/ ~c.useLogo THEN p
    ELSE IF PickedLogo # None THEN [p EXCEPT !.logo = PickedLogo]
    ELSE IF c.offline THEN p
    ELSE IF LogoIsKnown(FirstLogo(c))
         THEN [p EXCEPT !.logo = render.logo, !.logoUrl = FirstLogo(c), !.logoFirst = FirstLogo(c), !.logoDeferred = TRUE]
    ELSE Walked(c, [p EXCEPT !.logoFirst = FirstLogo(c)], LogoWalk(world, c.logoOrder, FirstLogo(c)))

Logo(w) ==
    LET p == pass[w]
        c == ArtworkConfigs[p.cfg]
    IN  /\ p.pc = "logo"
        /\ \E q \in {Logoed(c, p)} :
           \/ /\ q.logo = Failing
              /\ Abandon(w, FALSE)
           \/ /\ q.logo # Failing
              /\ pass' = [pass EXCEPT ![w] = [q EXCEPT !.pc = "compare"]]
              /\ UNCHANGED <<Kept, render, locked, asset, backup, staging, queued, ghost>>

HasLogo(p) == p.logo # None \/ p.logoDeferred

Unchanged(fp) == render.fp = fp /\ asset # NoFile

StoredLogo(p) == IF p.logoUrl # None THEN p.logo ELSE None

\* Nothing to draw: only what the logo ladder answered is recorded.
RecordUnchanged(w, p) ==
    /\ Finish(w, [render EXCEPT !.status = "rendered",
                             !.logoUrl = IF p.logoUrl # None THEN p.logoUrl ELSE @,
                             !.logo = IF p.logoUrl # None THEN p.logo ELSE @])
    /\ ghost' = [ghost EXCEPT !.moved = ghost.dirty]

Compare(w) ==
    LET p == pass[w]
        c == ArtworkConfigs[p.cfg]
        fp == ComputeFingerprint(c, p, HasLogo(p))
    IN  /\ p.pc = "compare"
        /\ \/ /\ Unchanged(fp)
              /\ RecordUnchanged(w, p)
           \/ /\ ~Unchanged(fp)
              /\ pass' = [pass EXCEPT ![w] = [p EXCEPT !.fp = fp,
                             !.pc = IF p.deferred \/ p.logoDeferred THEN "fetch" ELSE "compose"]]
              /\ UNCHANGED <<render, locked, ghost>>
        /\ UNCHANGED <<Kept, asset, backup, staging, queued>>

\* The bytes that were put off are read after all, and the logo walk resumes
\* from its first answer.
Completed(c, p) ==
    LET r == IF p.logoDeferred THEN Walked(c, p, LogoWalk(world, c.logoOrder, p.logoFirst)) ELSE p
    IN  [r EXCEPT !.base = IF p.deferred THEN Fetched(world, p.src) ELSE p.base, !.deferred = FALSE]

\* The fingerprint is taken again.
Fetch(w) ==
    LET c == ArtworkConfigs[pass[w].cfg]
    IN  /\ pass[w].pc = "fetch"
        /\ \E q \in {Completed(c, pass[w])} :
           LET fp == ComputeFingerprint(c, q, HasLogo(q))
               error == Failing \in {q.base, q.logo}
           IN  \/ /\ q.base = Refused \/ error
                  /\ Abandon(w, q.base = Refused)
               \/ /\ q.base # Refused /\ ~error /\ Unchanged(fp)
                  /\ RecordUnchanged(w, q)
                  /\ UNCHANGED <<Kept, asset, backup, staging, queued>>
               \/ /\ q.base # Refused /\ ~error /\ ~Unchanged(fp)
                  /\ pass' = [pass EXCEPT ![w] = [q EXCEPT !.fp = fp, !.pc = "compose"]]
                  /\ UNCHANGED <<Kept, render, locked, asset, backup, staging, queued, ghost>>

\* Text that does not fit at the smallest size writes no file.
Compose(w) ==
    LET p == pass[w]
        c == ArtworkConfigs[p.cfg]
        picture == Composed(c, p)
    IN  /\ p.pc = "compose"
        /\ \/ /\ TooLong(picture.text)
              /\ Finish(w, [render EXCEPT !.status = "truncated"])
           \/ /\ ~TooLong(picture.text)
              /\ pass' = [pass EXCEPT ![w] = [p EXCEPT !.pc = "publish", !.picture = picture]]
              /\ UNCHANGED <<render, locked>>
        /\ UNCHANGED <<Kept, asset, backup, staging, queued, ghost>>

SameBytes(p) == asset = p.picture

\* _publish: the same bytes are not written again; otherwise the old file is
\* copied aside first.
Publish(w) ==
    LET p == pass[w] IN
    /\ p.pc = "publish"
    /\ IF SameBytes(p)
       THEN /\ pass' = [pass EXCEPT ![w].pc = "record"]
            /\ UNCHANGED backup
       ELSE /\ pass' = [pass EXCEPT ![w].pc = "stage"]
            /\ backup' = IF asset # NoFile THEN asset ELSE backup
    /\ UNCHANGED <<Kept, render, locked, asset, staging, queued, ghost>>

\* The staging copy is opened (and truncated), then filled.  A handle stays
\* with the file it opened when that file is renamed.
OpenStaging(w) ==
    /\ pass[w].pc = "stage"
    /\ staging' = Partial
    /\ pass' = [pass EXCEPT ![w].pc = "fill", ![w].handle = "staging"]
    /\ UNCHANGED <<Kept, render, locked, asset, backup, queued, ghost>>

FillStaging(w) ==
    /\ pass[w].pc = "fill"
    /\ IF pass[w].handle = "staging" THEN staging' = pass[w].picture /\ UNCHANGED asset
                                     ELSE asset' = pass[w].picture /\ UNCHANGED staging
    /\ pass' = [pass EXCEPT ![w].pc = "replace", ![w].handle = "closed"]
    /\ UNCHANGED <<Kept, render, locked, backup, queued, ghost>>

Replace(w) ==
    /\ pass[w].pc = "replace"
    /\ \/ /\ staging # NoFile
          /\ asset' = staging
          /\ staging' = NoFile
          /\ pass' = [v \in Workers |->
                        IF v = w THEN [pass[v] EXCEPT !.pc = "record"]
                        ELSE IF pass[v].handle = "staging" THEN [pass[v] EXCEPT !.handle = "asset"]
                        ELSE pass[v]]
          /\ UNCHANGED <<Kept, render, locked, backup, queued, ghost>>
       \/ /\ staging = NoFile
          /\ Abandon(w, FALSE)

Mode(p) ==
    IF p.fallback # None THEN p.fallback
    ELSE IF render.mode \in {"show_fallback", "plex_generated"} THEN "generate"
    ELSE render.mode

\* The row is written after the file: everything the pass learnt, at once.
Record(w) ==
    LET p == pass[w] IN
    /\ p.pc = "record"
    /\ Finish(w, [fp |-> p.fp, status |-> "rendered", src |-> p.src, base |-> p.base,
                  logoUrl |-> p.logoUrl, logo |-> StoredLogo(p),
                  adopted |-> FALSE, mode |-> Mode(p)])
    /\ ghost' = [ghost EXCEPT !.moved = ghost.dirty, !.torn = ghost.swapped]
    /\ UNCHANGED <<Kept, asset, backup, staging, queued>>

-----------------------------------------------------------------------------
(* Requests.  The file is put in place first, then the row's fingerprints   *)
(* are cleared in a transaction, then the job is queued.                    *)

Spend == budget > 0 /\ budget' = budget - 1

Touched == [ghost EXCEPT !.moved = TRUE, !.dirty = TRUE]

Pressing(r) == press[r].pc = "idle"

\* pick_candidate, install_manual_source and upload_manual_source for a base
\* image: fetched and decoded elsewhere, then renamed into the mount.
InstallBase(r, bytes) ==
    /\ Pressing(r)
    /\ mount' = [mount EXCEPT !.base = bytes]
    /\ press' = [press EXCEPT ![r] = [pc |-> "installed", what |-> bytes]]
    /\ Spend
    /\ ghost' = [Touched EXCEPT !.promised = None, !.latest = r]
    /\ UNCHANGED <<kind, world, cfg, render, locked, asset, backup, staging, pass, queued>>

\* A picked logo keeps its container's suffix.
InstallLogo(r, suffix, bytes) ==
    /\ Pressing(r) /\ kind = "poster"
    /\ mount' = [mount EXCEPT !.logo[suffix] = bytes]
    /\ press' = [press EXCEPT ![r] = [pc |-> "logo", what |-> suffix]]
    /\ Spend
    /\ ghost' = Touched
    /\ UNCHANGED <<kind, world, cfg, render, locked, asset, backup, staging, pass, queued>>

\* The other suffixes are removed, or the mount fails and the request with it.
ClearStaleLogoOverrides(r) ==
    /\ press[r].pc = "logo"
    /\ \/ /\ mount' = [mount EXCEPT !.logo = [s \in DOMAIN mount.logo |-> IF s = press[r].what THEN @[s] ELSE None]]
          /\ press' = [press EXCEPT ![r] = [pc |-> "installed", what |-> None]]
          /\ ghost' = Touched
       \/ /\ press' = [press EXCEPT ![r] = NoPress]
          /\ UNCHANGED <<mount, ghost>>
    /\ UNCHANGED <<kind, world, cfg, render, locked, asset, backup, staging, pass, queued, budget>>

\* clear_manual_override: the file is renamed out of play.
ClearManualOverride(r) ==
    /\ Pressing(r) /\ mount.base # None
    /\ mount' = [mount EXCEPT !.base = None]
    /\ press' = [press EXCEPT ![r] = [pc |-> "installed", what |-> None]]
    /\ Spend
    /\ ghost' = [Touched EXCEPT !.promised = None, !.latest = None]
    /\ UNCHANGED <<kind, world, cfg, render, locked, asset, backup, staging, pass, queued>>

WithFingerprint == render

WithoutFingerprint == [render EXCEPT !.fp = NoFingerprint]

\* Clearing the fingerprint waits for a pass that holds the row.
ClearFingerprints(r) ==
    /\ press[r].pc = "installed" /\ RowIsFree
    /\ render' = WithoutFingerprint
    /\ press' = [press EXCEPT ![r].pc = "cleared"]
    /\ ghost' = Touched
    /\ UNCHANGED <<kind, world, cfg, mount, locked, asset, backup, staging, pass, queued, budget>>

EnqueueReprocess(r) ==
    /\ press[r].pc = "cleared"
    /\ queued' = TRUE
    /\ press' = [press EXCEPT ![r] = NoPress]
    /\ ghost' = IF ghost.latest = r THEN [ghost EXCEPT !.promised = press[r].what, !.latest = None] ELSE ghost
    /\ UNCHANGED <<kind, world, cfg, mount, render, locked, asset, backup, staging, pass, budget>>

\* reprocess_item clears and queues in one transaction.
ReprocessItem(r) ==
    /\ Pressing(r) /\ RowIsFree
    /\ render' = WithoutFingerprint
    /\ queued' = TRUE
    /\ Spend
    /\ ghost' = Touched
    /\ UNCHANGED <<kind, world, cfg, mount, locked, asset, backup, staging, pass, press>>

-----------------------------------------------------------------------------
(* What happens outside.                                                    *)

\* A drift sweep, a webhook or a full pass queues the item.
Enqueue ==
    /\ ~queued
    /\ queued' = TRUE
    /\ UNCHANGED <<kind, world, cfg, mount, render, locked, asset, backup, staging, pass, press, budget, ghost>>

WorldMoves ==
    /\ Spend
    /\ world' \in Turns(kind, world) \ {world}
    /\ ghost' = [Touched EXCEPT !.swapped = @ \/ world'.overlay # world.overlay]
    /\ UNCHANGED <<kind, cfg, mount, render, locked, asset, backup, staging, pass, press, queued>>

ConfigMoves ==
    /\ Spend
    /\ cfg' \in DOMAIN ArtworkConfigs \ {cfg}
    /\ ghost' = Touched
    /\ UNCHANGED <<kind, world, mount, render, locked, asset, backup, staging, pass, press, queued>>

AssetLost ==
    /\ Spend /\ asset # NoFile
    /\ \A w \in Workers : pass[w].handle # "asset"
    /\ asset' = NoFile
    /\ ghost' = [Touched EXCEPT !.spoilt = TRUE]
    /\ UNCHANGED <<kind, world, cfg, mount, render, locked, backup, staging, pass, press, queued>>

\* The process dies: transactions roll back, files stay as they are, and a
\* job that was running is reclaimed.
Publishing == {"stage", "fill", "replace", "record"}

Crash ==
    /\ Spend
    /\ queued' = (queued \/ \E w \in Workers : pass[w].pc # "idle")
    /\ pass' = [w \in Workers |-> Idle]
    /\ press' = [r \in Requests |-> NoPress]
    /\ locked' = "free"
    /\ ghost' = [Touched EXCEPT !.spoilt = TRUE, !.latest = None, !.torn = @ \/ \E w \in Workers : pass[w].pc \in Publishing]
    /\ UNCHANGED <<kind, world, cfg, mount, render, asset, backup, staging>>

-----------------------------------------------------------------------------

RenderPass(w) ==
    \/ ClaimItem(w) \/ Start(w) \/ Source(w) \/ Logo(w) \/ Compare(w) \/ Fetch(w) \/ Compose(w)
    \/ Publish(w) \/ OpenStaging(w) \/ FillStaging(w) \/ Replace(w) \/ Record(w)

Request(r) ==
    \/ \E b \in Uploads : InstallBase(r, b)
    \/ \E s \in DOMAIN mount.logo, b \in PickedLogos : InstallLogo(r, s, b)
    \/ ClearStaleLogoOverrides(r) \/ ClearManualOverride(r)
    \/ ClearFingerprints(r) \/ EnqueueReprocess(r) \/ ReprocessItem(r)

ArtworkNext ==
    \/ \E w \in Workers : RenderPass(w)
    \/ \E r \in Requests : Request(r)
    \/ Enqueue \/ WorldMoves \/ ConfigMoves \/ AssetLost \/ Crash

ArtworkSpec == ArtworkInit /\ [][ArtworkNext]_artworkVars

-----------------------------------------------------------------------------
(* Properties.                                                              *)

ArtworkTypeOK ==
    /\ kind \in Kinds /\ world \in Worlds
    /\ cfg \in DOMAIN ArtworkConfigs
    /\ render.status \in {"new", "rendered", "skipped", "no_art", "failed", "truncated"}
    /\ render.mode \in {"generate", "show_fallback", "plex_generated"}
    /\ render.logoUrl = None <=> render.logo = None
    /\ locked \in Workers \cup {"free"}
    /\ \A w \in Workers : pass[w].pc \in {"idle", "start", "source", "logo", "compare", "fetch", "compose", "publish"} \cup Publishing

\* The asset in the tree is the picture its row's fingerprint stands for,
\* whatever the row's status, unless a pass died between writing the file and
\* committing the row, or the overlay file was replaced under it.  (pipeline.py writes the file first; the row locks taken
\* by the pass's first upserts are what keeps two workers and a pick apart.)
FileIsWhatTheRowSays ==
    ( /\ render.fp # NoFingerprint /\ asset # NoFile /\ ~ghost.torn
      /\ \A w \in Workers : pass[w].pc # "record" )
    => IF render.adopted THEN Digest(asset) = render.base ELSE asset = Depicted(render.fp)

\* A reader of the asset tree never meets a file that is still being written,
\* although every worker stages under the same name.
NoHalfWrittenAsset == asset # Partial

\* A pass draws again only when something it depends on has moved since the
\* last one that finished: unchanged items cost no compose and no upload.
OnlyChangesAreDrawn ==
    \A w \in Workers :
        ( /\ pass[w].pc \in {"compose", "publish"} /\ pass[w].cfg = cfg /\ pass[w].title = world.title )
        => ghost.moved

\* A pick that was answered, with no other pick or reset since its file was
\* installed, is what the asset shows once the queue is empty: neither an
\* adopted row's short-circuit nor a pass that looked before the file was
\* installed leaves the old picture standing.
PicksReachTheAsset ==
    ( /\ ~queued /\ \A w \in Workers : pass[w].pc = "idle"
      /\ \A r \in Requests : press[r].pc = "idle"
      /\ render.status = "rendered" /\ ghost.promised # None /\ asset # NoFile )
    => asset.base = ghost.promised

\* The one backup generation is a rollback point, never a copy of the picture
\* it would replace: a re-render that reproduces the asset rotates nothing,
\* unless the process died half way or the asset was deleted.
BackupIsAnotherPicture ==
    ( /\ backup # NoFile /\ asset # NoFile /\ ~ghost.spoilt
      /\ \A w \in Workers : pass[w].pc \notin Publishing )
    => backup # asset

\* The row says "show_fallback" exactly while its picture is made from a
\* show's poster, through unchanged passes, no-art passes and refusals.
ModeTellsTheSource ==
    /\ render.mode = "show_fallback" <=> render.src \in ShowUrls
    /\ render.mode = "plex_generated" => render.src = "plex"

\* A rendered asset is what its row says, never half written, drawn again only when
\* something it is drawn from changed; a pick reaches the asset, the backup is another
\* picture, and the row's mode tells where the picture came from.
ArtworkSafety ==
    /\ ArtworkTypeOK
    /\ FileIsWhatTheRowSays
    /\ NoHalfWrittenAsset
    /\ OnlyChangesAreDrawn
    /\ PicksReachTheAsset
    /\ BackupIsAnotherPicture
    /\ ModeTellsTheSource

=============================================================================
