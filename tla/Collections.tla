----------------------------- MODULE Collections -----------------------------
(* One library's collections pass: build, claim, write, sweep, commit, with  *)
(* the operator's requests, other tools and the sources moving underneath.   *)
(*                                                                          *)
(* What a definition wants is a version of its source; a collection holds    *)
(* the version last written to it.  Every read or write of Plex is a step of *)
(* its own.  The rows a pass writes stay in its transaction until it commits *)
(* and a Plex call that raises rolls all of them back.                       *)
EXTENDS Integers, Sequences, FiniteSets

CONSTANTS Titles, Ids, None, Gone,
          Own, Prior, Protect,  \* the ownership label, a replaced tool's, a guarded tool's
          Configs,              \* sequences of definitions an operator may have
          Adopt, DeleteUnconfigured, MaxDeletes,
          LocalPosters,         \* titles with a poster file, assets_for_all_collections on
          Versions, Flaps,      \* whether a source may return to an earlier answer
          BlankTitles, DeleteTitles, ForeignTitles, Moving,  \* what may happen to which titles
          MaxPasses, MaxOps, MaxEdits

VARIABLES plex,     \* plex[c]: a collection in Plex, None before it and Gone after
          rows,     \* rows[t]: the managed_collections row of a title, or None
          events,   \* ids whose deletion has a committed audit row
          config, source,
          pass,     \* the pass in flight, or None
          ops,      \* a request of the collections pages, or None
          shielded, \* ids guarded by a label since before the pass began
          quiet,    \* the last pass settled and nothing has moved since
          deleted,  \* ids the sweep has deleted
          passes, requests, edits

service == <<plex, rows, events>>
world == <<config, source>>
ghosts == <<shielded, quiet, deleted>>
bounds == <<passes, requests, edits>>
vars == <<service, world, pass, ops, ghosts, bounds>>

\* What a collection holds that no definition has filled.
Theirs == 0
Blank == -1
Divider == -2

With(f, k, v) == [x \in DOMAIN f \cup {k} |-> IF x = k THEN v ELSE f[x]]
Live == {c \in Ids : plex[c] \notin {None, Gone}}
Unused == {c \in Ids : plex[c] = None}
Fresh == CHOOSE c \in Unused : TRUE

Definition(t, shape, label) == [title |-> t, shape |-> shape, label |-> label, units |-> <<>>]

\* definition_titles: what these definitions manage by name; a family's units
\* are known only from what it built.
ManagedTitles(defs) == {defs[i].title : i \in DOMAIN defs}

Families(defs) == {defs[i].label : i \in {j \in DOMAIN defs : defs[j].shape = "family"}}

\* The row as the pass's session sees it.
Seen(t) == IF t \in DOMAIN pass.mine THEN pass.mine[t] ELSE rows[t]

\* _collections_by_title: of two collections with one title, one.
Listing ==
    [t \in Titles |-> IF \E c \in Live : plex[c].title = t
                     THEN CHOOSE c \in Live : plex[c].title = t ELSE None]

\* The listing is read once, when the pass first needs it.
Listed == IF pass.listing # None THEN pass.listing ELSE Listing

----------------------------------------------------------------------------
(* The pass over one library. *)

StartPass ==
    /\ pass = None /\ passes < MaxPasses
    /\ \E dry \in BOOLEAN :
        pass' = [defs |-> config, todo |-> config, stage |-> "next", dry |-> dry,
                 want |-> None, listing |-> None, mine |-> <<>>, generated |-> <<>>,
                 doomed |-> {}, audit |-> {}, settled |-> <<>>,
                 clean |-> ~dry /\ ops = None, began |-> <<requests, edits>>]
    /\ shielded' = {c \in Live : Protect \in plex[c].labels}
    /\ passes' = passes + 1
    /\ UNCHANGED <<service, world, ops, quiet, deleted, requests, edits>>

At(stage) == pass # None /\ pass.stage = stage
Unit == Head(pass.todo)
Going(p) == [p EXCEPT !.todo = Tail(@), !.stage = "next"]

\* The next definition was built, refused or failed without a word to Plex.
Skip == pass' = [Going(pass) EXCEPT !.clean = FALSE]

\* An exception no handler of the pass contains: the library's rollback.
Rollback ==
    /\ pass' = None
    /\ quiet' = FALSE
    /\ UNCHANGED <<rows, events>>

\* What a family enumerates today.
Enumerated(d) == SubSeq(d.units, 1, source[d.title] % (Len(d.units) + 1))

\* _expand: a family names its units, or fails and names none.
Expand ==
    /\ At("next") /\ pass.todo # <<>> /\ Unit.shape = "family"
    /\ LET units == Enumerated(Unit)
       IN  \/ pass' = [Going(pass) EXCEPT
                          !.generated = With(@, Unit.label, {units[i] : i \in DOMAIN units}),
                          !.todo = [i \in DOMAIN units |->
                                       Definition(units[i], "list", Unit.label)] \o @]
           \/ Skip
    /\ UNCHANGED <<service, world, ops, ghosts, bounds>>

\* What a definition's hash is of: its source's answer, or a divider's own text.
WantedOf(d) == IF d.shape = "separator" THEN Divider ELSE source[d.title]

\* _run_one up to its reconcile: a source that fails, a filter that cannot be
\* evaluated and an empty answer all leave the collection as it is.
Build ==
    /\ At("next") /\ pass.todo # <<>> /\ Unit.shape # "family"
    /\ \/ Skip /\ Unit.shape = "list"
       \/ pass' = [pass EXCEPT !.listing = Listed, !.stage = "claim",
                                    !.want = WantedOf(Unit)]
    /\ UNCHANGED <<service, world, ops, ghosts, bounds>>

Target == pass.listing[Unit.title]

Smart(d) == d.shape = "smart"
Kind(d) == CASE d.shape = "list" -> "manual"
             [] d.shape = "smart" -> "smart"
             [] d.shape = "separator" -> "separator"

\* reconcile_separator's first guards: a row of another kind keeps its title.
RowRefuses(d) ==
    /\ d.shape = "separator"
    /\ Seen(d.title) # None /\ Seen(d.title).kind # "separator"

\* shape_conflict: Plex cannot turn a list into a smart collection.
ShapeConflict(d, c) == d.shape # "separator" /\ plex[c].smart # Smart(d)

\* _collision_verdict, over labels read afresh.
Verdict(c) ==
    IF Protect \in plex[c].labels THEN "refused"
    ELSE IF Own \in plex[c].labels THEN "ours"
    ELSE IF Adopt /\ Prior \in plex[c].labels THEN "adoptable" ELSE "refused"

Relabelled(c, add) == [plex EXCEPT ![c].labels = @ \cup add]

\* resolve_collision: a dry run reports the adoption and goes no further.
MayClaim == ~pass.dry

\* _claim: one hop over the collection the listing names.
Claim ==
    /\ At("claim")
    /\ \/ /\ RowRefuses(Unit)
          /\ pass' = Going(pass)
          /\ UNCHANGED plex
       \/ /\ ~RowRefuses(Unit) /\ Target = None
          /\ pass' = [pass EXCEPT !.stage = "write"]
          /\ UNCHANGED plex
       \/ /\ ~RowRefuses(Unit) /\ Target \in Live
          /\ \/ /\ \/ ShapeConflict(Unit, Target)
                   \/ Verdict(Target) = "refused"
                   \/ Verdict(Target) = "adoptable" /\ ~MayClaim
                /\ pass' = Going(pass)
                /\ UNCHANGED plex
             \/ /\ ~ShapeConflict(Unit, Target)
                /\ \/ Verdict(Target) = "ours"
                   \/ Verdict(Target) = "adoptable" /\ MayClaim
                /\ pass' = [pass EXCEPT !.stage = "write"]
                /\ plex' = Relabelled(Target, {Own})
    /\ UNCHANGED <<rows, events, world, ops, ghosts, bounds>>

\* The listed collection is gone when its labels are reloaded, or is when it is
\* written: plexapi raises and nothing in between catches it.
TargetGone ==
    /\ At("claim") \/ At("write")
    /\ Target # None /\ Target \notin Live
    /\ At("claim") => ~RowRefuses(Unit)
    /\ Rollback
    /\ UNCHANGED <<plex, world, ops, shielded, deleted, bounds>>

Wanted == pass.want

\* definition_current: the short circuit every later pass takes.
Current ==
    /\ Target # None /\ Seen(Unit.title) # None
    /\ Seen(Unit.title).hash = Wanted

Settle(p) == [Going(p) EXCEPT !.settled = With(@, Unit.title, Wanted)]

\* _write of an unchanged definition, of a dry run, and of a smart filter that
\* matches nothing: no write at all.
WriteNothing ==
    /\ At("write") /\ Target \in Live \cup {None}
    /\ \/ Current /\ pass' = Settle(pass)
       \/ ~Current /\ pass.dry /\ pass' = [Going(pass) EXCEPT !.clean = FALSE]
       \/ ~Current /\ Smart(Unit) /\ Skip
    /\ UNCHANGED <<service, world, ops, ghosts, bounds>>

Labels(d) == {Own} \cup (IF d.label = None THEN {} ELSE {d.label})
Fill(d, labels, smart) ==
    [title |-> d.title, labels |-> labels, smart |-> smart, holds |-> Wanted]

\* The row of a write: an empty hash, so that the next pass writes again, when a
\* contained setting failed.
Recorded(ok) == [kind |-> Kind(Unit), hash |-> IF ok THEN Wanted ELSE None]

\* The listing a create leaves behind it; a divider's is not put back.
Relist(c) == IF Unit.shape = "separator" THEN pass.listing
             ELSE [pass.listing EXCEPT ![Unit.title] = c]

\* _write: create and label, or bring up to date; then the row, in the session.
Write ==
    /\ At("write") /\ ~Current /\ ~pass.dry
    /\ Target = None => Unused # {}
    /\ Target \in Live \cup {None}
    /\ \E ok \in BOOLEAN :
        LET c == IF Target = None THEN Fresh ELSE Target
            fill == IF Target = None THEN Fill(Unit, Labels(Unit), Smart(Unit))
                    ELSE Fill(Unit, plex[c].labels \cup Labels(Unit), plex[c].smart)
            hub == Unit.shape # "separator"
        IN  /\ ok \/ hub
            /\ plex' = [plex EXCEPT ![c] = fill]
            /\ pass' = [Settle(pass) EXCEPT !.mine = With(@, Unit.title, Recorded(ok)),
                                            !.listing = Relist(c),
                                            !.clean = @ /\ ok]
    /\ UNCHANGED <<rows, events, world, ops, ghosts, bounds>>

\* _write raising on the way: a new collection without its label, or a known one
\* with the new members, and the rollback of every row.
WriteFails ==
    /\ At("write") /\ ~Current /\ ~pass.dry
    /\ \/ /\ Target = None /\ Unused # {}
          /\ plex' = [plex EXCEPT ![Fresh] = Fill(Unit, {}, Smart(Unit))]
       \/ /\ Target \in Live
          /\ plex' = [plex EXCEPT ![Target].holds = Wanted]
       \/ /\ Target \in Live \cup {None}
          /\ UNCHANGED plex
    /\ Rollback
    /\ UNCHANGED <<world, ops, shielded, deleted, bounds>>

----------------------------------------------------------------------------
(* The delete sweep and the end of the pass. *)

\* Mutant: a family that did not build this pass has no members to keep.
FamilyKeepsBuilt(t, c) ==
    \E label \in Families(pass.defs) \cap plex[c].labels :
        label \in DOMAIN pass.generated /\ t \in pass.generated[label]

\* "rebuilt": a family that labels it built it, or did not build at all.
FamilyKeeps(t, c) ==
    \E label \in Families(pass.defs) \cap plex[c].labels :
        label \notin DOMAIN pass.generated \/ t \in pass.generated[label]

\* _sweep_verdicts, over the titles no definition names that have a row.
Candidates(listing) ==
    LET entries == {t \in Titles : listing[t] # None /\ Seen(t) # None
                                     /\ t \notin ManagedTitles(pass.defs)
                                     /\ Seen(t).kind \notin {"operator", "local_asset"}}
    IN  {t \in entries : Protect \notin plex[listing[t]].labels
                           /\ ~FamilyKeeps(t, listing[t])
                           /\ Own \in plex[listing[t]].labels}

SweepReads(listing) ==
    \A t \in Titles : listing[t] # None /\ t \notin ManagedTitles(pass.defs)
                        /\ Seen(t) # None => listing[t] \in Live

WithinCap(titles) == Cardinality(titles) <= MaxDeletes

\* _sweep's scan: its verdicts, its switch and its cap.  A read that raises is
\* contained and dooms nothing.
SweepScan ==
    /\ At("next") /\ pass.todo = <<>>
    /\ LET listing == Listed
           doomed == Candidates(listing)
       IN   \/ /\ SweepReads(listing)
               /\ pass' = [pass EXCEPT !.listing = listing, !.stage = "sweep",
                              !.doomed = IF DeleteUnconfigured /\ WithinCap(doomed) /\ ~pass.dry
                                         THEN doomed ELSE {}]
            \/ pass' = [pass EXCEPT !.listing = listing, !.stage = "sweep", !.clean = FALSE]
    /\ UNCHANGED <<service, world, ops, ghosts, bounds>>

\* Mutant: a delete that raises ends the pass.
SweepDeleteRaises(t) ==
    /\ At("sweep") /\ t \in pass.doomed
    /\ LET c == pass.listing[t]
       IN  \/ /\ c \in Live
              /\ plex' = [plex EXCEPT ![c] = Gone]
              /\ pass' = [pass EXCEPT !.doomed = @ \ {t}, !.mine = With(@, t, None),
                                      !.audit = @ \cup {c}]
              /\ deleted' = deleted \cup {c}
              /\ UNCHANGED <<rows, events, quiet>>
           \/ Rollback /\ UNCHANGED <<plex, deleted>>
    /\ UNCHANGED <<world, ops, shielded, bounds>>

\* One candidate: deleted with its row and its audit row, or left where the
\* delete raised.
SweepDelete(t) ==
    /\ At("sweep") /\ t \in pass.doomed
    /\ LET c == pass.listing[t]
       IN  \/ /\ c \in Live
              /\ plex' = [plex EXCEPT ![c] = Gone]
              /\ pass' = [pass EXCEPT !.doomed = @ \ {t}, !.mine = With(@, t, None),
                                      !.audit = @ \cup {c}]
              /\ deleted' = deleted \cup {c}
           \/ /\ pass' = [pass EXCEPT !.doomed = @ \ {t}, !.clean = FALSE]
              /\ UNCHANGED <<plex, deleted>>
    /\ UNCHANGED <<rows, events, world, ops, shielded, quiet, bounds>>

\* The titles apply_local_posters_to_unmanaged uploads to: in the pass's listing,
\* with a poster file and no row but its own kind.
Posterless ==
    {t \in LocalPosters : pass.listing[t] # None
                            /\ (Seen(t) = None \/ Seen(t).kind = "local_asset")}

\* Local posters for what this service does not manage.  An upload to a
\* collection that is no longer there raises.
LocalAssets ==
    /\ At("sweep") /\ pass.doomed = {}
    /\ LET owing == IF pass.dry THEN {} ELSE {t \in Posterless : Seen(t) = None}
       IN  \/ /\ \A t \in owing : pass.listing[t] \in Live
              /\ pass' = [pass EXCEPT !.stage = "commit",
                             !.mine = [t \in DOMAIN @ \cup owing |->
                                         IF t \in owing THEN [kind |-> "local_asset", hash |-> None]
                                         ELSE @[t]]]
              /\ UNCHANGED <<rows, events, quiet>>
           \/ /\ \E t \in owing : pass.listing[t] \notin Live
              /\ Rollback
    /\ UNCHANGED <<plex, world, ops, shielded, deleted, bounds>>

\* The library's commit; the session that ran dry is rolled back instead.
Commit ==
    /\ At("commit")
    /\ rows' = [t \in Titles |-> Seen(t)]
    /\ events' = events \cup pass.audit
    /\ quiet' = (pass.clean /\ pass.began = <<requests, edits>>)
    /\ pass' = None
    /\ UNCHANGED <<plex, world, ops, shielded, deleted, bounds>>

----------------------------------------------------------------------------
(* The collections pages: blank and delete. *)

Asking(r) == ops = None /\ requests < MaxOps /\ ops' = r /\ requests' = requests + 1

\* blank_collection: no collection has the title ...
BlankLooks(t) ==
    /\ Asking([does |-> "blank", title |-> t, id |-> None])
    /\ ~\E c \in Live : plex[c].title = t
    /\ UNCHANGED <<service, world, pass, ghosts, passes, edits>>

\* ... so one is created and labelled ...
BlankCreates ==
    /\ ops # None /\ ops.does = "blank" /\ ops.id = None
    /\ Unused # {}
    /\ plex' = [plex EXCEPT ![Fresh] = [title |-> ops.title, labels |-> {Own},
                                        smart |-> FALSE, holds |-> Blank]]
    /\ ops' = [ops EXCEPT !.id = Fresh]
    /\ quiet' = FALSE
    /\ UNCHANGED <<rows, events, world, pass, shielded, deleted, bounds>>

RowFree(t) == pass # None => t \notin DOMAIN pass.mine

\* ... and recorded, over any row the title had; a row the pass has written
\* waits for its commit.
BlankRecords ==
    /\ ops # None /\ ops.does = "blank" /\ ops.id # None /\ RowFree(ops.title)
    /\ rows' = [rows EXCEPT ![ops.title] = [kind |-> "operator", hash |-> None]]
    /\ ops' = None
    /\ quiet' = FALSE
    /\ UNCHANGED <<plex, events, world, pass, shielded, deleted, bounds>>

\* delete_collection: ours by label, guarded by none ...
DeleteLooks(t) ==
    /\ \E c \in Live :
        /\ plex[c].title = t /\ Own \in plex[c].labels /\ Protect \notin plex[c].labels
        /\ Asking([does |-> "delete", title |-> t, id |-> c])
    /\ UNCHANGED <<service, world, pass, ghosts, passes, edits>>

\* ... and by row: it goes from Plex ...
DeletePlex ==
    /\ ops # None /\ ops.does = "delete"
    /\ \/ /\ rows[ops.title] # None /\ ops.id \in Live
          /\ plex' = [plex EXCEPT ![ops.id] = Gone]
          /\ ops' = [ops EXCEPT !.does = "row"]
       \/ /\ rows[ops.title] = None \/ ops.id \notin Live
          /\ ops' = None
          /\ UNCHANGED plex
    /\ quiet' = FALSE
    /\ UNCHANGED <<rows, events, world, pass, shielded, deleted, bounds>>

\* ... and then its row does.
DeleteRow ==
    /\ ops # None /\ ops.does = "row" /\ RowFree(ops.title)
    /\ rows' = [rows EXCEPT ![ops.title] = None]
    /\ events' = events \cup {ops.id}
    /\ ops' = None
    /\ UNCHANGED <<plex, world, pass, ghosts, bounds>>

----------------------------------------------------------------------------
(* The world around it. *)

Moved == edits < MaxEdits /\ edits' = edits + 1 /\ quiet' = FALSE

SourceMoves(t) ==
    /\ Moved
    /\ \E v \in Versions : v # source[t] /\ (Flaps \/ v > source[t])
                             /\ source' = [source EXCEPT ![t] = v]
    /\ UNCHANGED <<service, config, pass, ops, shielded, deleted, passes, requests>>

ConfigMoves ==
    /\ Moved
    /\ config' \in Configs \ {config}
    /\ UNCHANGED <<service, source, pass, ops, shielded, deleted, passes, requests>>

\* Another tool or a person in Plex: guards, releases, deletes or creates.
PlexMoves ==
    /\ Moved
    /\ \/ \E c \in Live : plex' = [plex EXCEPT ![c].labels =
                                      IF Protect \in @ THEN @ \ {Protect} ELSE @ \cup {Protect}]
       \/ \E c \in Live : plex' = [plex EXCEPT ![c] = Gone]
       \/ \E t \in ForeignTitles :
              /\ Unused # {}
              /\ plex' = [plex EXCEPT ![Fresh] = [title |-> t, labels |-> {Prior},
                                                  smart |-> FALSE, holds |-> Theirs]]
    /\ shielded' = {c \in shielded : plex'[c] # Gone /\ Protect \in plex'[c].labels}
    /\ UNCHANGED <<rows, events, world, pass, ops, deleted, passes, requests>>

Init ==
    /\ plex \in {[c \in Ids |-> None]} \cup
          {[c \in Ids |-> IF c = CHOOSE i \in Ids : TRUE
                          THEN [title |-> t, labels |-> {Prior}, smart |-> FALSE,
                                holds |-> Theirs]
                          ELSE None] : t \in ManagedTitles(CHOOSE k \in Configs : TRUE) \cap Titles}
    /\ rows = [t \in Titles |-> None]
    /\ events = {} /\ deleted = {} /\ shielded = {} /\ quiet = FALSE
    /\ config \in Configs
    /\ source \in [Titles -> {1}]
    /\ pass = None /\ ops = None
    /\ passes = 0 /\ requests = 0 /\ edits = 0

PassStep ==
    \/ Expand \/ Build \/ Claim \/ TargetGone \/ WriteNothing \/ Write \/ WriteFails
    \/ SweepScan \/ (\E t \in Titles : SweepDelete(t)) \/ LocalAssets \/ Commit

Next ==
    \/ StartPass \/ PassStep
    \/ \E t \in BlankTitles : BlankLooks(t)
    \/ \E t \in DeleteTitles : DeleteLooks(t)
    \/ BlankCreates \/ BlankRecords \/ DeletePlex \/ DeleteRow
    \/ \E t \in Moving : SourceMoves(t)
    \/ ConfigMoves \/ PlexMoves

Spec == Init /\ [][Next]_vars

----------------------------------------------------------------------------
(* Properties. *)

Collection ==
    [title : Titles, labels : SUBSET ({Own, Prior, Protect} \cup UNION {Families(k) : k \in Configs}),
     smart : BOOLEAN, holds : Versions \cup {Theirs, Blank, Divider}]
Row == [kind : {"manual", "smart", "separator", "operator", "local_asset"},
        hash : Versions \cup {Divider, None}]

TypeOK ==
    /\ plex \in [Ids -> Collection \cup {None, Gone}]
    /\ rows \in [Titles -> Row \cup {None}]
    /\ pass # None => /\ DOMAIN pass.mine \subseteq Titles
                      /\ pass.doomed \subseteq Titles

Passing == pass # None /\ ops' = ops /\ edits' = edits

\* A collection that carried a guarded tool's label when the pass began, and has
\* kept it, is neither claimed nor written nor deleted by that pass.
ProtectedStaysUntouched ==
    [][Passing => \A c \in shielded : plex'[c] = plex[c]]_vars

\* A collection the sweep deletes is built by no definition of the pass: not by
\* name, not by a family that listed it, and not by a family that built nothing
\* this pass and so cannot say.
SweepSparesTheBuilt ==
    [][Passing => \A c \in Ids :
          plex[c] # Gone /\ plex'[c] = Gone =>
            /\ plex[c].title \notin ManagedTitles(pass.defs)
            /\ \A label \in Families(pass.defs) \cap plex[c].labels :
                  label \in DOMAIN pass.generated
                  /\ plex[c].title \notin pass.generated[label]]_vars

\* When a pass commits, every collection it settled and that is still there
\* holds what its source said, however many passes before it were rolled back.
SettledHoldsItsSource ==
    [][At("commit") /\ pass' = None =>
          \A t \in DOMAIN pass.settled :
             pass.listing[t] # None /\ pass.listing[t] \in Live =>
                plex[pass.listing[t]].holds = pass.settled[t]]_vars

\* After a pass that settled everything, with nothing moved since, the next pass
\* writes nothing: no two definitions, dividers or settings undo one another.
QuietPassWritesNothing == [][Passing /\ quiet => plex' = plex]_vars

\* A dry run, the preview's and the unarmed schedule's, changes neither Plex nor
\* a row.
DryRunWritesNothing == [][Passing /\ pass.dry => plex' = plex /\ rows' = rows]_vars

\* What the sweep deleted is on record: its audit row is committed, or waits in
\* the transaction that deleted it.
DeletesAreAudited ==
    deleted \subseteq events \cup (IF pass = None THEN {} ELSE pass.audit)

\* An unchanged hash means the membership is as desired: a pass that stops at
\* the hash leaves a collection that holds what its source says.
HashMeansMembership ==
    [][At("write") /\ Current /\ Target \in Live =>
          plex[Target].holds = Wanted]_vars

\* No collection is deleted without its audit row, across failures and rollbacks.
Safety ==
    /\ TypeOK
    /\ DeletesAreAudited

\* A pass leaves protected and just built collections alone, settles only what holds
\* its source, writes nothing when quiet and nothing in a dry run.
Steps ==
    /\ ProtectedStaysUntouched
    /\ SweepSparesTheBuilt
    /\ SettledHoldsItsSource
    /\ QuietPassWritesNothing
    /\ DryRunWritesNothing
=============================================================================
