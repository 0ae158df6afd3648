------------------------------ MODULE Membership ------------------------------
(* A list definition's members: the source read page by page, the ids        *)
(* resolved, filtered, restricted and capped, the collection brought to them *)
(* one Plex call at a time, and the membership pushed to MDBList.            *)
(*                                                                          *)
(* One list stands for what every source serves; it moves while it is read.  *)
(* Page answers are kept by the provider cache, each until its own expiry.   *)
EXTENDS Integers, Sequences, FiniteSets, SequencesExt

CONSTANTS Ids, Items, None,
          OwnerOf,       \* the library's index: the item an id names, or None
          OtherMedia,    \* ids of the media type this library does not hold
          Rejected,      \* items the definition's filter turns away
          Unheld,        \* items Radarr or Sonarr does not hold
          Pushable,      \* ids in a namespace MDBList takes
          Lists,         \* what the source may list
          Definitions,   \* records: kind, filtered, restricted, limit, mode, push
          PageSize, MaxPages,
          MaxMoves, MaxBuilds, MaxFaults, MaxEdits

VARIABLES history,     \* every list the source has served, the last one now
          cache,       \* cache[kind][page]: the stored answer, or None
          collection,  \* the collection's members in order, or None
          hash,        \* the members the row's hash was taken of, or None
          told,        \* ids pushed to MDBList
          run,         \* the pass's memo: [spent, award]
          build,       \* the definition being built, or None
          builds, faults, edits

bounds == <<builds, faults, edits>>
vars == <<history, cache, collection, hash, told, run, build, bounds>>

CachedKinds == {"tmdb", "mdblist", "award"}
Kinds == CachedKinds \cup {"imdb", "tracearr"}
Paged(kind) == kind \in {"tmdb", "imdb", "tracearr"}

Source == history[Len(history)]
Version == Len(history)

\* One page of a list: a source without pages answers the whole of it.
PageOf(kind, page) ==
    [says |-> "page",
     entries |-> IF Paged(kind)
                 THEN SubSeq(Source, (page - 1) * PageSize + 1,
                             IF page * PageSize < Len(Source) THEN page * PageSize ELSE Len(Source))
                 ELSE Source,
     more |-> Paged(kind) /\ page * PageSize < Len(Source),
     at |-> Version]

Refusal(says) == [says |-> says, entries |-> <<>>, more |-> FALSE, at |-> 0]
Refused(answer) == answer.says # "page"

----------------------------------------------------------------------------
(* Reading the source. *)

FreshRun == [spent |-> FALSE, award |-> None]

Begin(d) ==
    /\ build = None /\ builds < MaxBuilds
    /\ build' = [def |-> d, stage |-> "read", page |-> 1, ids |-> <<>>, ats |-> {},
                 items |-> <<>>, leaving |-> {}, next |-> 1, order |-> <<>>, broken |-> FALSE,
                 wrote |-> FALSE, edited |-> FALSE]
    /\ builds' = builds + 1
    /\ UNCHANGED <<history, cache, collection, hash, told, run, faults, edits>>

\* The pass ends and its memo with it.
EndPass ==
    /\ build = None /\ run # FreshRun
    /\ run' = FreshRun
    /\ UNCHANGED <<history, cache, collection, hash, told, build, bounds>>

Reading(kind) == build # None /\ build.stage = "read" /\ build.def.kind = kind
Kind == build.def.kind

\* The builder raised: _run_one goes on with no ids at all.
Broken(b) == [b EXCEPT !.stage = "resolve", !.ids = <<>>, !.broken = TRUE]

\* Whether this was the last page: past the end, the last one by the source's
\* own count, or without a cursor to the next.
Ends(page, kept) == page.entries = <<>> \/ ~page.more

\* Entries of the other media type are another library's.
OfMediaType(entries) == SelectSeq(entries, LAMBDA id : id \notin OtherMedia)

\* What the page loops do with an answer.  A refusal or an unexpected shape
\* raises; the page cap ends the list where it stands.
Taken(b, answer) ==
    IF Refused(answer) THEN Broken(b)
    ELSE LET kept == OfMediaType(answer.entries)
             read == [b EXCEPT !.ids = @ \o kept, !.ats = @ \cup {answer.at}]
         IN  IF Ends(answer, kept) \/ b.page = MaxPages
             THEN [read EXCEPT !.stage = "resolve"] ELSE [read EXCEPT !.page = @ + 1]

\* Mutant: every answer with a body is kept, a refusal too.
CacheableAll(kind, answer) == kind \in CachedKinds /\ answer.says # "raises"

\* fetch_json's cache write: a 404 is kept like an answer, and so is a body of
\* the wrong shape; MDBList's spent budget is not.
Cacheable(kind, answer) == kind \in CachedKinds /\ answer.says \notin {"raises", "spent"}

Answers(kind) ==
    {PageOf(kind, build.page)} \cup
    (IF faults = MaxFaults THEN {}
     ELSE {Refusal(says) : says \in {"raises", "missing", "malformed"} \cup
                                    (IF kind = "mdblist" THEN {"spent"} ELSE {})})

Remembered(kind, answer) ==
    CASE kind = "award" -> [run EXCEPT !.award = answer]
      [] kind = "mdblist" /\ answer.says = "spent" -> [run EXCEPT !.spent = TRUE]
      [] OTHER -> run

\* The cache, then the wire.
Fetch(kind) ==
    LET stored == IF kind \in CachedKinds THEN cache[kind][build.page] ELSE None
    IN  \/ /\ stored # None
           /\ build' = Taken(build, stored)
           /\ run' = Remembered(kind, stored)
           /\ UNCHANGED <<cache, faults>>
        \/ /\ stored = None
           /\ \E answer \in Answers(kind) :
                /\ build' = Taken(build, answer)
                /\ run' = Remembered(kind, answer)
                /\ cache' = IF Cacheable(kind, answer)
                            THEN [cache EXCEPT ![kind][build.page] = answer] ELSE cache
                /\ faults' = IF Refused(answer)
                             THEN faults + 1 ELSE faults

Rest == <<history, collection, hash, told, builds, edits>>

ReadTmdb == Reading("tmdb") /\ Fetch("tmdb") /\ UNCHANGED Rest
ReadImdb == Reading("imdb") /\ Fetch("imdb") /\ UNCHANGED Rest
ReadTracearr == Reading("tracearr") /\ Fetch("tracearr") /\ UNCHANGED Rest

\* The memo of a spent budget, for the rest of the pass.
AsksMdblist == ~run.spent

ReadMdblist ==
    /\ Reading("mdblist")
    /\ \/ ~AsksMdblist /\ build' = Broken(build) /\ UNCHANGED <<run, cache, faults>>
       \/ AsksMdblist /\ Fetch("mdblist")
    /\ UNCHANGED Rest

\* An award dataset is read once in a pass, failure included.
ReadAward ==
    /\ Reading("award")
    /\ \/ run.award # None /\ build' = Taken(build, run.award) /\ UNCHANGED <<run, cache, faults>>
       \/ run.award = None /\ Fetch("award")
    /\ UNCHANGED Rest

----------------------------------------------------------------------------
(* From ids to members. *)

\* resolve_external: the owned items in order, each once, an unowned id dropped.
Resolve(ids) ==
    FoldLeft(LAMBDA items, id : IF OwnerOf[id] = None \/ Contains(items, OwnerOf[id])
                                THEN items ELSE Append(items, OwnerOf[id]),
             <<>>, ids)

Filtered(d, items) ==
    IF d.filtered THEN SelectSeq(items, LAMBDA i : i \notin Rejected) ELSE items
Restricted(d, items) ==
    IF d.restricted THEN SelectSeq(items, LAMBDA i : i \notin Unheld) ELSE items
Capped(d, items) ==
    IF d.limit = None \/ Len(items) <= d.limit THEN items ELSE SubSeq(items, 1, d.limit)

\* _run_one between the build and the reconcile.
Chosen(d, ids) == Capped(d, Restricted(d, Filtered(d, Resolve(ids))))

\* A filter or a restriction that cannot be evaluated leaves no members.
Choose ==
    /\ build # None /\ build.stage = "resolve"
    /\ \/ build' = [build EXCEPT !.items = Chosen(build.def, build.ids), !.stage = "write"]
          /\ UNCHANGED faults
       \/ /\ build.def.filtered \/ build.def.restricted
          /\ faults < MaxFaults /\ faults' = faults + 1
          /\ build' = [build EXCEPT !.items = <<>>, !.stage = "write", !.broken = TRUE]
    /\ UNCHANGED <<history, cache, collection, hash, told, run, builds, edits>>

At(stage) == build # None /\ build.stage = stage

\* An empty list, and an unchanged one, are written nowhere.
Untouched ==
    /\ At("write")
    /\ build.items = <<>> \/ (collection # None /\ hash = build.items)
    /\ build' = [build EXCEPT !.stage = "push"]
    /\ UNCHANGED <<history, cache, collection, hash, told, run, bounds>>

Writes == At("write") /\ build.items # <<>> /\ (collection = None \/ hash # build.items)

Create ==
    /\ Writes /\ collection = None
    /\ collection' = build.items
    /\ hash' = build.items
    /\ build' = [build EXCEPT !.stage = "push", !.wrote = TRUE]
    /\ UNCHANGED <<history, cache, told, run, bounds>>

Adding == SelectSeq(build.items, LAMBDA i : ~Contains(collection, i))
Removing == IF build.def.mode = "append" THEN {} ELSE Range(collection) \ Range(build.items)

\* Mutant: what no longer belongs goes first.
AddMembersLast ==
    /\ Writes /\ collection # None
    /\ build' = [build EXCEPT !.stage = "remove", !.wrote = TRUE,
                              !.leaving = Removing]
    /\ collection' = SelectSeq(collection, LAMBDA i : i \notin Removing)
    /\ UNCHANGED <<history, cache, hash, told, run, bounds>>

\* member_diff, and addItems of what is missing, at the end.
AddMembers ==
    /\ Writes /\ collection # None
    /\ build' = [build EXCEPT !.stage = "remove", !.wrote = TRUE, !.leaving = Removing]
    /\ collection' = collection \o Adding
    /\ UNCHANGED <<history, cache, hash, told, run, bounds>>

\* removeItems of what the diff said; the order is then read back.
RemoveMembers ==
    /\ At("remove")
    /\ LET left == SelectSeq(collection, LAMBDA i : i \notin build.leaving)
       IN  /\ collection' = left
           /\ build' = [build EXCEPT !.next = 1, !.order = left,
                           !.stage = IF @ = "remove" /\ build.def.mode = "append"
                                     THEN "record" ELSE "order"]
    /\ UNCHANGED <<history, cache, hash, told, run, bounds>>

Position(order, i) == CHOOSE k \in DOMAIN order : order[k] = i

\* moveItem, in Plex and in the local copy.
Placed(order, i, after) ==
    LET lifted == Remove(order, i)
    IN  InsertAt(lifted, IF after = None THEN 1 ELSE Position(lifted, after) + 1, i)

Previous(b) == IF b.next = 1 THEN None ELSE b.items[b.next - 1]

\* _enforce_order, one item: moved only when it is out of place.
OrderMember ==
    /\ At("order") /\ build.next <= Len(build.items)
    /\ LET i == build.items[build.next]
           previous == Previous(build)
           expected == IF previous = None THEN 1 ELSE Position(build.order, previous) + 1
       IN  /\ Contains(build.order, i)
           /\ \/ /\ Position(build.order, i) = expected
                 /\ build' = [build EXCEPT !.next = @ + 1]
                 /\ UNCHANGED collection
              \/ /\ Position(build.order, i) # expected
                 /\ Contains(collection, i) /\ (previous # None => Contains(collection, previous))
                 /\ build' = [build EXCEPT !.next = @ + 1, !.order = Placed(@, i, previous)]
                 /\ collection' = Placed(collection, i, previous)
    /\ UNCHANGED <<history, cache, hash, told, run, bounds>>

Ordered ==
    /\ At("order") /\ build.next = Len(build.items) + 1
    /\ build' = [build EXCEPT !.stage = "record"]
    /\ UNCHANGED <<history, cache, collection, hash, told, run, bounds>>

Record ==
    /\ At("record")
    /\ hash' = build.items
    /\ build' = [build EXCEPT !.stage = "push"]
    /\ UNCHANGED <<history, cache, collection, told, run, bounds>>

\* A Plex call raises, or a wanted member is not where the write left it: the
\* rows of the pass are rolled back and the pass is over.
WriteFails ==
    /\ build # None /\ build.stage \in {"write", "remove", "order"}
    /\ build.stage = "write" => Writes
    /\ \/ faults < MaxFaults /\ faults' = faults + 1
       \/ /\ build.stage = "order" /\ build.next <= Len(build.items)
          /\ ~(Range(build.items) \subseteq Range(collection) \cap Range(build.order))
          /\ UNCHANGED faults
    /\ build' = None
    /\ run' = FreshRun
    /\ UNCHANGED <<history, cache, collection, hash, told, builds, edits>>

\* pushable_ids: for each member the first of the source's ids that MDBList takes.
PushedIds(ids, items) ==
    FoldLeft(LAMBDA out, id :
                IF \/ id \notin Pushable \/ OwnerOf[id] = None
                   \/ ~Contains(items, OwnerOf[id])
                   \/ \E other \in Range(out) : OwnerOf[other] = OwnerOf[id]
                THEN out ELSE Append(out, id), <<>>, ids)

\* sync_membership, contained, and the end of the definition.
Push ==
    /\ At("push")
    /\ \/ told' = IF build.def.push THEN told \cup Range(PushedIds(build.ids, build.items)) ELSE told
       \/ UNCHANGED told
    /\ build' = None
    /\ UNCHANGED <<history, cache, collection, hash, run, bounds>>

----------------------------------------------------------------------------
(* The world around it. *)

SourceMoves ==
    /\ Len(history) <= MaxMoves
    /\ \E list \in Lists \ {Source} : history' = Append(history, list)
    /\ UNCHANGED <<cache, collection, hash, told, run, build, bounds>>

\* One page's time is up.
Expire(kind, page) ==
    /\ cache[kind][page] # None
    /\ cache' = [cache EXCEPT ![kind][page] = None]
    /\ UNCHANGED <<history, collection, hash, told, run, build, bounds>>

\* A person adds or removes a member in Plex.
Edit ==
    /\ collection # None /\ edits < MaxEdits
    /\ \/ \E i \in Items \ Range(collection) : collection' = Append(collection, i)
       \/ \E i \in Range(collection) : Len(collection) > 1 /\ collection' = Remove(collection, i)
    /\ build' = IF build = None THEN build ELSE [build EXCEPT !.edited = TRUE]
    /\ edits' = edits + 1
    /\ UNCHANGED <<history, cache, hash, told, run, builds, faults>>

Init ==
    /\ history \in {<<list>> : list \in Lists}
    /\ cache = [k \in CachedKinds |-> [p \in 1 .. MaxPages |-> None]]
    /\ collection = None /\ hash = None /\ told = {}
    /\ run = FreshRun /\ build = None
    /\ builds = 0 /\ faults = 0 /\ edits = 0

Next ==
    \/ \E d \in Definitions : Begin(d)
    \/ EndPass \/ ReadTmdb \/ ReadImdb \/ ReadTracearr \/ ReadMdblist \/ ReadAward
    \/ Choose \/ Untouched \/ Create \/ AddMembers \/ RemoveMembers \/ OrderMember
    \/ Ordered \/ Record \/ WriteFails \/ Push
    \/ SourceMoves \/ Edit
    \/ \E kind \in CachedKinds, page \in 1 .. MaxPages : Expire(kind, page)

Spec == Init /\ [][Next]_vars

----------------------------------------------------------------------------
(* Properties. *)

TypeOK ==
    /\ history \in Seq(Lists)
    /\ collection # None => /\ Range(collection) \subseteq Items
                            /\ Len(collection) = Cardinality(Range(collection))
    /\ told \subseteq Ids
    /\ build # None => build.stage \in {"read", "resolve", "write", "remove", "order", "record", "push"}

\* What a list means for a definition, said without reading it: its items in the
\* order of their first id, those that pass, as many as asked, within the cap.
Meant(d, list) ==
    LET reach == IF Paged(d.kind) /\ Len(list) > PageSize * MaxPages
                 THEN PageSize * MaxPages ELSE Len(list)
        first(i) == {k \in 1 .. reach : list[k] \notin OtherMedia /\ OwnerOf[list[k]] = i}
        passing == {i \in Items : first(i) # {} /\ (d.filtered => i \notin Rejected)
                                    /\ (d.restricted => i \notin Unheld)}
        before(i, j) == \E k \in first(i) : \A l \in first(j) : k < l
        rank(i) == Cardinality({j \in passing : before(j, i)}) + 1
        size == IF d.limit # None /\ d.limit < Cardinality(passing)
                THEN d.limit ELSE Cardinality(passing)
    IN  [n \in 1 .. size |-> CHOOSE i \in passing : rank(i) = n]

\* A read that every page answered from one state of the source, cached or not,
\* builds what that list means: no page, entry or duplicate is lost or kept twice.
BuiltAsListed ==
    build # None /\ build.stage = "write" /\ ~build.broken /\ Cardinality(build.ats) = 1 =>
        build.items = Meant(build.def, history[CHOOSE v \in build.ats : TRUE])

Building == build # None /\ edits' = edits

\* A source that failed, a filter or a restriction that could not be evaluated,
\* never changes a member: not even after earlier pages were read.
FailureChangesNoMember == [][Building /\ build.broken => collection' = collection]_vars

\* Bringing a collection to its list never passes through an empty collection,
\* which Plex would delete.
NeverEmptied ==
    [][Building /\ ~build.edited /\ collection # None /\ collection # <<>> =>
          collection' # <<>>]_vars

\* A definition that wrote, undisturbed, leaves the collection exactly its list
\* in order, or, when it only appends, with its list added; and MDBList is told
\* of each member at most once and of nothing else.
SettledAsBuilt ==
    [][Building /\ build' = None /\ build.stage = "push" /\ build.wrote /\ ~build.edited =>
          /\ IF build.def.mode = "append" THEN Range(build.items) \subseteq Range(collection)
             ELSE collection = build.items
          /\ \A id \in told' \ told : Contains(build.items, OwnerOf[id])
          /\ Cardinality(told' \ told) <= Len(build.items)]_vars

\* Once MDBList has said its budget is spent, no definition of the same pass is
\* answered by it, from the wire or from the cache.
SpentEndsThePass ==
    [][run.spent /\ Building /\ build.stage = "read" /\ build' # build /\ Kind = "mdblist" =>
          build'.broken /\ cache' = cache]_vars

\* A stored answer is never the refusal of a spent budget: the next pass asks.
SpentIsNotStored ==
    \A p \in 1 .. MaxPages : cache["mdblist"][p] # Refusal("spent")

\* A member set is what a served list means, and a spent budget is never cached.
Safety ==
    /\ TypeOK
    /\ BuiltAsListed
    /\ SpentIsNotStored

\* A failed source changes no member, a collection in use is never emptied on the way,
\* a settled one holds what was built, and a spent budget ends the pass's asking.
Steps ==
    /\ FailureChangesNoMember
    /\ NeverEmptied
    /\ SettledAsBuilt
    /\ SpentEndsThePass
=============================================================================
