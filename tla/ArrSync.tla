------------------------------- MODULE ArrSync -------------------------------
(***************************************************************************)
(* Registering what the media server holds with Radarr or Sonarr: the      *)
(* arr_sync job's pass over the libraries (scheduler/jobs.py, arr/sync.py) *)
(* and the id-mismatch view that compares the same two sides on demand     *)
(* (api/mismatches.py).                                                    *)
(*                                                                         *)
(* A path is the sequence of its segments, so a root is a prefix. The      *)
(* service refuses a second entry with an id or a folder it already has.   *)
(***************************************************************************)
EXTENDS Integers, Sequences, FiniteSets, SequencesExt

CONSTANTS
    Item,       \* the server's items: [lib, id, path] each; path <<>> when it has none
    Malformed,  \* external ids that are not numbers
    Sections,   \* the libraries, in the order they are walked
    Excluded,   \* excluded_libraries
    PlexRoot, ArrRoot,
    RootSets,   \* what the service may answer for its root folders
    Starts,     \* what it may hold at first: sets of entries
    Edits,      \* entries a person may add by hand
    Trivial,    \* _EMPTY_LISTING_MAX_TRIVIAL_ITEMS
    Mishaps     \* bound: edits by hand, failures and lost answers

Items == DOMAIN Item
NoId == 0
NoPath == <<>>

\* What the service holds: one entry an id, and one a folder.
Consistent(es) ==
    \A e, f \in es : e # f => e.id # f.id /\ (e.path = f.path => e.path = NoPath)

ASSUME ItemsAssumption == Items = 1..Len(Item) /\ Len(Item) \in Nat
ASSUME SectionsAssumption == Len(Sections) \in Nat \ {0}
ASSUME MishapsAssumption == Mishaps \in Nat
ASSUME StartsAssumption == \A es \in Starts : Consistent(es)
ASSUME EditsAssumption == \A e \in Edits : e.id # NoId

VARIABLES
    entries,    \* what the service holds: [id, path, media]
    roots,      \* the root folders it manages
    add,        \* add_existing: FALSE is the dry run
    pass,       \* the pass: [at, sec, todo, seen, roots, count]
    mishaps

syncVars == <<entries, roots, add, pass, mishaps>>

Verdicts == {"no_id", "by_path", "present", "no_path", "root", "taken", "listed", "added", "failed"}
NoCount == [v \in Verdicts |-> 0]
NoPass == [at |-> "idle", sec |-> 1, todo |-> {}, seen |-> {}, roots |-> {}, count |-> NoCount]

Mishap == mishaps < Mishaps /\ mishaps' = mishaps + 1

(***************************************************************************)
(* Paths                                                                   *)
(***************************************************************************)
\* A path outside the root maps to nothing rather than to a guess.
MapPath(p) ==
    IF p # NoPath /\ IsPrefix(PlexRoot, p)
    THEN ArrRoot \o SubSeq(p, Len(PlexRoot) + 1, Len(p)) ELSE NoPath

SharesTree(p, q) == IsPrefix(p, q) \/ IsPrefix(q, p)

\* What a listing holds: the ids it publishes and the folders it has.
IdsIn(es) == {e.id : e \in es} \ {NoId}
PathsIn(es) == {e.path : e \in es} \ {NoPath}

(***************************************************************************)
(* The pass                                                                *)
(***************************************************************************)
\* Mutant: only the configured root is looked at.
IsRootConfigured(p, rs) == p = ArrRoot
IsRoot(p, rs) == p \in rs \cup {ArrRoot}

\* Mutant: the folder is not looked up.
VerdictById(i, es, rs) ==
    LET to == MapPath(Item[i].path) IN
    CASE Item[i].id = NoId -> "no_id"
      [] Item[i].id # NoId /\ Item[i].id \in IdsIn(es) -> "present"
      [] OTHER -> IF to = NoPath THEN "no_path" ELSE IF IsRoot(to, rs) THEN "root" ELSE "listed"

\* What one item is counted as, given a listing and the root folders.
Verdict(i, es, rs) ==
    LET to == MapPath(Item[i].path) IN
    IF Item[i].id = NoId
    THEN IF to \in PathsIn(es) THEN "by_path" ELSE "no_id"
    ELSE CASE Item[i].id \in IdsIn(es) -> "present"
           [] Item[i].id \notin IdsIn(es) /\ to = NoPath -> "no_path"
           [] OTHER -> IF IsRoot(to, rs) THEN "root"
                       ELSE IF to \in PathsIn(es) THEN "taken" ELSE "listed"

Section(s) == {i \in Items : Item[i].lib = Sections[s]}

\* The section's items, listed once, and the root folders asked for first.
ReadRoots ==
    /\ pass.at = "idle"
    /\ Sections[pass.sec] \notin Excluded
    /\ \E r \in roots : SharesTree(ArrRoot, r)
    /\ pass' = [pass EXCEPT !.at = "roots", !.roots = roots,
                  !.todo = Section(pass.sec)]
    /\ UNCHANGED <<entries, roots, add, mishaps>>

Following == [NoPass EXCEPT !.sec = (pass.sec % Len(Sections)) + 1]

\* An instance that manages none of the tree is refused; an excluded library
\* is not looked at.
PassOver ==
    /\ pass.at = "idle"
    /\ Sections[pass.sec] \in Excluded \/ ~ \E r \in roots : SharesTree(ArrRoot, r)
    /\ pass' = Following
    /\ UNCHANGED <<entries, roots, add, mishaps>>

\* An instance that holds nothing at all is taken for the wrong one.
ReadListing ==
    /\ pass.at = "roots"
    /\ pass' = IF entries = {} /\ Cardinality(pass.todo) > Trivial THEN Following
               ELSE [pass EXCEPT !.at = "listed", !.seen = entries]
    /\ UNCHANGED <<entries, roots, add, mishaps>>

\* The quality profile is not there, or the service does not answer.
Abandon ==
    /\ Mishap
    /\ pass.at \in {"roots", "listed"}
    /\ pass' = Following
    /\ UNCHANGED <<entries, roots, add>>

\* The items are taken in the order of the listing.
Current == CHOOSE i \in pass.todo : \A j \in pass.todo : i <= j

\* Mutant: a failed add ends the pass.
CountedOrStopped(v) ==
    IF v = "failed" THEN Following
    ELSE [pass EXCEPT !.at = "items", !.todo = @ \ {Current}, !.count[v] = @ + 1]
Counted(v) == [pass EXCEPT !.at = "items", !.todo = @ \ {Current}, !.count[v] = @ + 1]

Asking == pass.at \in {"listed", "items"} /\ pass.todo # {}
ToAdd == Asking /\ add /\ Verdict(Current, pass.seen, pass.roots) = "listed"

\* An item that needs no request, or only would under the dry run.
JudgeItem ==
    /\ Asking
    /\ ~ToAdd
    /\ pass' = Counted(Verdict(Current, pass.seen, pass.roots))
    /\ UNCHANGED <<entries, roots, add, mishaps>>

Entry(i) == [id |-> Item[i].id, path |-> MapPath(Item[i].path), media |-> TRUE]
Accepted(e) == e.id \notin Malformed /\ e.id \notin IdsIn(entries) /\ e.path \notin PathsIn(entries)

\* The service takes the entry, or refuses it; an id that is no number fails
\* before it is asked. The batch goes on.
AddItem ==
    /\ ToAdd
    /\ entries' = IF Accepted(Entry(Current)) THEN entries \cup {Entry(Current)} ELSE entries
    /\ pass' = Counted(IF Accepted(Entry(Current)) THEN "added" ELSE "failed")
    /\ UNCHANGED <<roots, add, mishaps>>

\* The request fails, or its answer is lost.
AddFails ==
    /\ ToAdd
    /\ Mishap
    /\ entries' \in {entries, IF Accepted(Entry(Current)) THEN entries \cup {Entry(Current)} ELSE entries}
    /\ pass' = Counted("failed")
    /\ UNCHANGED <<roots, add>>

SectionEnds ==
    /\ pass.at \in {"listed", "items"}
    /\ pass.todo = {}
    /\ pass' = Following
    /\ UNCHANGED <<entries, roots, add, mishaps>>

(***************************************************************************)
(* The world                                                               *)
(***************************************************************************)
\* A person adds an entry, removes one, or the instance is set up otherwise.
PersonAdds ==
    /\ Mishap
    /\ \E e \in Edits : Accepted(e) /\ entries' = entries \cup {e}
    /\ UNCHANGED <<roots, add, pass>>
PersonRemoves ==
    /\ Mishap
    /\ \E e \in entries : entries' = entries \ {e}
    /\ UNCHANGED <<roots, add, pass>>
RootsMove ==
    /\ Mishap
    /\ roots' \in RootSets \ {roots}
    /\ UNCHANGED <<entries, add, pass>>

SyncInit ==
    /\ entries \in Starts
    /\ roots \in RootSets
    /\ add \in BOOLEAN
    /\ pass = NoPass
    /\ mishaps = 0

Pass == ReadRoots \/ PassOver \/ ReadListing \/ JudgeItem \/ AddItem \/ SectionEnds

SyncNext == Pass \/ Abandon \/ AddFails \/ PersonAdds \/ PersonRemoves \/ RootsMove

\* The job is scheduled for good.
SyncSpec == SyncInit /\ [][SyncNext]_syncVars /\ WF_syncVars(Pass)

(***************************************************************************)
(* The id-mismatch view                                                    *)
(***************************************************************************)
InScope == {i \in Items : Item[i].lib \notin Excluded}
Unmapped == {i \in InScope : MapPath(Item[i].path) = NoPath}
Matched == {i \in InScope \ Unmapped : MapPath(Item[i].path) \in PathsIn(entries)}
PlexOnly == InScope \ (Unmapped \cup Matched)

\* The entry that holds the item's folder.
Holding(i) == CHOOSE e \in entries : e.path = MapPath(Item[i].path)

\* Two ids that differ, or a side that has none.
Mismatched == {i \in Matched : Holding(i).id # Item[i].id \/ Item[i].id = NoId}

ArrUnmapped == {e \in entries : e.path = NoPath}

ArrMatched == {e \in entries \ ArrUnmapped : \E i \in Matched : Holding(i) = e}
ArrUnreleased == {e \in entries \ (ArrUnmapped \cup ArrMatched) : ~e.media}
ArrOnly == {e \in entries \ (ArrUnmapped \cup ArrMatched) : e.media}

(***************************************************************************)
(* Properties                                                              *)
(***************************************************************************)
SyncTypeOK ==
    /\ roots \in RootSets
    /\ add \in BOOLEAN
    /\ mishaps \in 0..Mishaps
    /\ pass.at \in {"idle", "roots", "listed", "items"}
    /\ pass.sec \in 1..Len(Sections)
    /\ pass.count \in [Verdicts -> 0..Cardinality(Items)]
    /\ Consistent(entries)

Tally(c) ==
    c["no_id"] + c["by_path"] + c["present"] + c["no_path"] + c["root"] + c["taken"]
        + c["listed"] + c["added"] + c["failed"]

\* The report leaves no item of the section out and counts none twice, however
\* its requests went (sync_section's nine counters).
ReportAddsUp ==
    pass.at \in {"listed", "items"} =>
        Tally(pass.count) + Cardinality(pass.todo) = Cardinality(Section(pass.sec))

\* No folder the pass registers is the configured root or one the service
\* manages: a delete with files there would take the library along
\* (sync_section; a folder that merely holds a root is not looked for).
NothingOwnsTheLibrary ==
    [][\A e \in entries' \ entries : pass' # pass =>
          e.path \notin pass.roots \cup {ArrRoot}]_syncVars

\* The sync and the view agree about one state of the world: what a pass would
\* register the view lists as held by the server alone, a folder the sync
\* calls taken is a mismatch, and what a pass did register is never reported
\* as held by the service alone (sync_section, _compare).
SyncAndViewAgree ==
    \A i \in InScope :
        /\ Verdict(i, entries, roots) = "listed" => i \in PlexOnly
        /\ Verdict(i, entries, roots) = "taken" => i \in Mismatched
        /\ Entry(i) \notin ArrOnly \cup ArrUnreleased \/ MapPath(Item[i].path) = NoPath

\* A gap that can be closed is closed in the end, whatever became of one item
\* or one pass: unless the instance is refused, the view is left with no item
\* on the server alone but those without a usable id, at a root, or known to
\* the service under another folder.
EveryGapIsClosed ==
    \A i \in InScope : Item[i].id \notin Malformed \cup {NoId} =>
        []<>(\/ i \notin PlexOnly
             \/ ~add
             \/ IsRoot(MapPath(Item[i].path), roots)
             \/ Item[i].id \in IdsIn(entries)
             \/ ~ \E r \in roots : SharesTree(ArrRoot, r)
             \/ entries = {})

\* The report adds up, and a sync and the gap view judge an item alike.
SyncSafety ==
    /\ SyncTypeOK
    /\ ReportAddsUp
    /\ SyncAndViewAgree
=============================================================================
