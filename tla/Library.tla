------------------------------ MODULE Library ------------------------------
(***************************************************************************)
(* The media_items table and what hangs off it: the pipeline's upsert of   *)
(* an item's identity and of its server refs (render/pipeline.py), the     *)
(* prune that deletes the rows no server resolves (scheduler/prune.py) and *)
(* the merge of two rows of one title (scheduler/merge.py).                *)
(*                                                                         *)
(* updated_at is not a number here. A job only ever compares the stamp it  *)
(* read with the stamp it finds, so db keeps, for each job, the rows and   *)
(* the refs written since that job's read; the election of a merge needs   *)
(* which of two rows was written later, which db.later keeps.              *)
(***************************************************************************)
EXTENDS Integers, Sequences, FiniteSets

CONSTANTS
    Keys,        \* identity keys
    Title,       \* Keys -> titles: keys of one title share an external id and a scope
    Stem,        \* Keys -> the key without its file field
    ParentTitle, \* titles -> titles or None: what a title's rows hang under
    Natives,     \* server-native ids
    ServerOf,    \* Natives -> servers
    MayHold,     \* Natives -> sets of titles: an id is not reused for another kind of item
    Plex, None,
    Libraries,   \* sets of keys: the titles one installation may ever hold
    Exclusions,  \* sets of natives: the refs filed under excluded libraries
    FirstRows,   \* the tables the model starts from
    Workers,
    MaxRows,     \* bound: rows ever inserted
    MaxMoves,    \* bound: changes on the servers
    MaxTasks,    \* bound: jobs queued and taken, retries, declarations
    MaxRuns,     \* bound: prunes and merges
    MaxPrunes,   \* prune.max_prunes
    MaxMerges    \* merge.max_merges

Ids == 1 .. MaxRows
Servers == {ServerOf[n] : n \in Natives}

\* What hangs off a row, in two classes: the renders and facts, which a merge moves
\* as it planned at its scan, and what it reads again under its lock: the overrides,
\* dismissals and credits.
Hangs == {"planned", "reread"}
NoItem == [key |-> None, parent |-> 0]

VARIABLES
    keys,   \* the keys of this installation
    holds,  \* what each server answers for a native id
    db,     \* the tables
    queued, \* the Plex ids named by waiting process_item jobs
    worker, \* the identity each worker has resolved and not yet written
    retry,  \* the ref a retry pass has resolved and not yet written
    job,    \* the heavy lane: a prune or a merge
    left    \* what the bounds leave

libraryVars == <<keys, holds, db, queued, worker, retry, job, left>>

Spend(what) == left[what] > 0 /\ left' = [left EXCEPT ![what] = @ - 1]

\* A server's answer: the item's key, and the key its parent has.
Answer == [key : Keys, parent : Keys \cup {None}]
NoAnswer == [key |-> None, parent |-> None]
Held(n) == holds[n] /= NoAnswer

NoJob == [at |-> "idle", cand |-> {}, parents |-> [i \in Ids |-> 0], seen |-> {},
          asked |-> {}, stale |-> {}, list |-> <<>>, excl |-> {}, pairs |-> {}, dead |-> {},
          hung |-> [i \in Ids |-> {}]]

RowsOf(d) == {i \in Ids : d.items[i] /= NoItem}
WithKey(d, k) == {i \in RowsOf(d) : d.items[i].key = k}
RefsOf(d, i) == {n \in Natives : d.refs[n] = i}

-----------------------------------------------------------------------------
(* The pipeline's writes, as functions of the tables *)

\* updated_at: what is written now is later than the rest; of rows one statement
\* writes, the higher id counts as the later.
Touch(d, S) ==
    LET T == S \cap RowsOf(d)
    IN [d EXCEPT !.later = {p \in @ : p[1] \notin S /\ p[2] \notin S}
                           \cup {p \in RowsOf(d) \X T : p[1] \notin T \/ p[1] < p[2]},
                 !.moved = IF job.at = "idle" THEN {} ELSE @ \cup S]

\* upsert_server_ref, for each id: it points at the row, and is its only one on that server.
PutRefs(d, i, S) ==
    [d EXCEPT !.refs = [m \in Natives |->
                            IF m \in S THEN i
                            ELSE IF d.refs[m] = i /\ \E n \in S : ServerOf[m] = ServerOf[n] THEN 0
                            ELSE d.refs[m]],
              !.movedRefs = IF job.at = "idle" THEN {} ELSE @ \cup S]

\* _rekey_in_place, for a file that was replaced.
Rekeyed(d, n, k) ==
    LET i == d.refs[n]
    IN IF /\ i /= 0
          /\ d.items[i].key /= k
          /\ Stem[d.items[i].key] = Stem[k]
          /\ WithKey(d, k) = {}
       THEN Touch([d EXCEPT !.items[i].key = k], {i})
       ELSE d

\* The row an upsert of this key writes: the one that has it, or a new one.
RowFor(d, k) == IF WithKey(d, k) = {} THEN d.next ELSE CHOOSE i \in WithKey(d, k) : TRUE

\* _upsert_media_item: the row of the key, under the parent found by its key.
Upsert(d, a) ==
    LET ups == IF a.parent = None THEN {} ELSE WithKey(d, a.parent)
        up == IF ups = {} THEN 0 ELSE CHOOSE i \in ups : TRUE
        i == RowFor(d, a.key)
        d1 == IF WithKey(d, a.key) = {}
              THEN [d EXCEPT !.items[i] = [key |-> a.key, parent |-> up], !.next = @ + 1]
              ELSE IF up = 0 THEN d ELSE [d EXCEPT !.items[i].parent = up]
    IN Touch(d1, {i})

\* Plex names the item where it answered.
First(answer) ==
    CHOOSE n \in DOMAIN answer : \A m \in DOMAIN answer : ServerOf[m] = Plex => m = n

\* _persist_identity: the row of the item, and every server's ref at it.
Persist(d, answer) ==
    LET n == First(answer)
        d1 == Rekeyed(d, n, answer[n].key)
    IN PutRefs(Upsert(d1, answer[n]), RowFor(d1, answer[n].key), DOMAIN answer)

\* A delete cascades down parent_id, and to the refs and the hangings of every row it takes.
Children(d, S) == {i \in RowsOf(d) : d.items[i].parent \in S}
Below(d, S) == S \cup Children(d, S) \cup Children(d, Children(d, S))

Cascade(d, S) ==
    LET gone == Below(d, S)
    IN [d EXCEPT !.items = [i \in Ids |-> IF i \in gone THEN NoItem ELSE d.items[i]],
                 !.refs = [n \in Natives |-> IF d.refs[n] \in gone THEN 0 ELSE d.refs[n]],
                 !.hung = [i \in Ids |-> IF i \in gone THEN {} ELSE d.hung[i]],
                 !.later = {p \in @ : p[1] \notin gone /\ p[2] \notin gone}]

-----------------------------------------------------------------------------
(* The tables *)

Table ==
    [items : [Ids -> [key : Keys \cup {None}, parent : 0 .. MaxRows]],
     refs : [Natives -> 0 .. MaxRows], hung : [Ids -> SUBSET Hangs],
     later : SUBSET (Ids \X Ids), next : 1 .. MaxRows + 1, moved : SUBSET Ids,
     movedRefs : SUBSET Natives, audit : SUBSET Ids]

\* No ref and no parent link names a row that is not there: the foreign keys.
Linked(d) ==
    /\ \A n \in Natives : d.refs[n] \in RowsOf(d) \cup {0}
    /\ \A i \in Ids : d.items[i].parent \in RowsOf(d) \cup {0}

\* A row hangs under a row of its parent's title.
Kin(d, i) ==
    LET p == d.items[i].parent
    IN p /= 0 => Title[d.items[p].key] = ParentTitle[Title[d.items[i].key]]

\* What upserts leave: one ref of an item on a server, and ids handed out in order.
Sound(d) ==
    /\ d \in Table
    /\ Linked(d)
    /\ \A m, n \in Natives : m /= n /\ d.refs[m] = d.refs[n] /\ d.refs[m] /= 0
                             => ServerOf[m] /= ServerOf[n]
    /\ \A i \in RowsOf(d) : i < d.next /\ d.items[i].key \in Keys /\ Kin(d, i)

ASSUME TitleAssumption ==
    /\ MaxRows \in Nat
    /\ None \notin Keys /\ \A k \in Keys : None /= Title[k]
    /\ \A k, l \in Keys : Stem[k] = Stem[l] => Title[k] = Title[l]
\* An episode hangs under a season, a season under a show.
ASSUME ParentAssumption ==
    \A k \in Keys : LET t == Title[k] IN
        \/ ParentTitle[t] = None
        \/ ParentTitle[ParentTitle[t]] = None
        \/ ParentTitle[ParentTitle[ParentTitle[t]]] = None
ASSUME LibrariesAssumption == Libraries \subseteq SUBSET Keys
ASSUME FirstRowsAssumption == \A d \in FirstRows : Sound(d)

-----------------------------------------------------------------------------
(* The servers *)

\* A title is added, or an item is matched anew or moves to another native id.
Gains(n, a) ==
    /\ Spend("moves")
    /\ Held(n) => Title[holds[n].key] = Title[a.key]
    /\ \A m \in Natives \ {n} : ServerOf[m] = ServerOf[n] /\ Held(m) => holds[m].key /= a.key
    /\ holds' = [holds EXCEPT ![n] = a]
    /\ UNCHANGED <<keys, db, queued, worker, retry, job>>

Loses(n) ==
    /\ Spend("moves")
    /\ Held(n)
    /\ holds' = [holds EXCEPT ![n] = NoAnswer]
    /\ UNCHANGED <<keys, db, queued, worker, retry, job>>

-----------------------------------------------------------------------------
(* process_item, and the retry pass's own upsert of a ref *)

\* A full pass or a reprocess queues a row by its Plex id.
Enqueue(n) ==
    /\ Spend("tasks")
    /\ ServerOf[n] = Plex /\ db.refs[n] /= 0 /\ n \notin queued
    /\ queued' = queued \cup {n}
    /\ UNCHANGED <<keys, holds, db, worker, retry, job>>

\* A worker takes a queued job, or a webhook's, and resolves it on the servers that
\* answer: some, in the order they are asked, with one id each.
ResolvesTitle(w, t, hint) ==
    /\ IF hint = {} THEN Spend("tasks") ELSE UNCHANGED left
    /\ worker[w] = <<>>
    /\ \E got \in (SUBSET {n \in Natives : Held(n) /\ Title[holds[n].key] = t}) \ {{}} :
          /\ \A m, n \in got : ServerOf[m] = ServerOf[n] => m = n
          /\ worker' = [worker EXCEPT ![w] = [n \in got |-> holds[n]]]
    /\ queued' = queued \ hint
    /\ UNCHANGED <<keys, holds, db, retry, job>>

Resolve(w) ==
    \/ \E n \in queued : db.refs[n] /= 0
                         /\ ResolvesTitle(w, Title[db.items[db.refs[n]].key], {n})
    \/ \E k \in keys : ResolvesTitle(w, Title[k], {})

\* A job nothing resolves: it parks, or the worker dies and the claim is given back later.
Unresolved(n) ==
    /\ n \in queued
    /\ queued' = queued \ {n}
    /\ UNCHANGED <<keys, holds, db, worker, retry, job, left>>

\* The commit after the metadata stage, with the facts, or the commit of an artifact,
\* which upserts the item once more and creates the render row.
Writes(w, hangs, done) ==
    /\ worker[w] /= <<>> /\ db.next <= MaxRows
    /\ LET d == Persist(db, worker[w])
       IN db' = [d EXCEPT !.hung[d.refs[First(worker[w])]] = @ \cup hangs]
    /\ worker' = IF done THEN [worker EXCEPT ![w] = <<>>] ELSE worker
    /\ UNCHANGED <<keys, holds, queued, retry, job, left>>
WriteIdentity(w) == Writes(w, {}, FALSE)
WriteArtifact(w) == Writes(w, {"planned"}, TRUE)

\* The pass read the row before it asked the server.
RetryResolve(i, n) ==
    /\ Spend("tasks")
    /\ retry = <<>> /\ Held(n) /\ i \in RowsOf(db) /\ Title[holds[n].key] = Title[db.items[i].key]
    /\ retry' = <<i, n>>
    /\ UNCHANGED <<keys, holds, db, queued, worker, job>>

\* The ref of a row that is gone violates its foreign key, which the pass contains.
RetryWrite ==
    /\ retry /= <<>>
    /\ db' = IF retry[1] \in RowsOf(db) THEN PutRefs(db, retry[1], {retry[2]}) ELSE db
    /\ retry' = <<>>
    /\ UNCHANGED <<keys, holds, queued, worker, job, left>>

\* An operator's override or dismissal: it does not write media_items.
Declare(i) ==
    /\ Spend("tasks")
    /\ i \in RowsOf(db)
    /\ db' = [db EXCEPT !.hung[i] = @ \cup {"reread"}]
    /\ UNCHANGED <<keys, holds, queued, worker, retry, job>>

-----------------------------------------------------------------------------
(* plex_prune *)

Lane(at) == job.at = at
Quiet(d) == [d EXCEPT !.moved = {}, !.movedRefs = {}]
Stop == job' = NoJob /\ db' = Quiet(db)

\* find_prunable's candidates. An unhealthy server or an empty table is refused first.
PruneRead ==
    /\ Spend("runs")
    /\ Lane("idle") /\ RowsOf(db) /= {}
    /\ \E excl \in Exclusions :
          job' = [NoJob EXCEPT !.at = "p_read", !.cand = RowsOf(db), !.excl = excl,
                               !.parents = [i \in Ids |-> db.items[i].parent]]
    /\ db' = [db EXCEPT !.moved = {}]
    /\ UNCHANGED <<keys, holds, queued, worker, retry>>

\* _scan_stale_refs reads every ref with the title of its row, then asks the servers.
PruneReadRefs ==
    /\ Lane("p_read")
    /\ job' = [job EXCEPT !.at = "p_ask",
                          !.seen = {<<n, Title[db.items[db.refs[n]].key]>> :
                                        n \in {m \in Natives : db.refs[m] /= 0}}]
    /\ db' = [db EXCEPT !.movedRefs = {}]
    /\ UNCHANGED <<keys, holds, queued, worker, retry, left>>

\* exists_many: the stored id, or any other the server has for the title.
PruneAsk(s) ==
    /\ Lane("p_ask") /\ s \notin job.asked
    /\ job' = [job EXCEPT
          !.asked = @ \cup {s},
          !.stale = @ \cup {x[1] : x \in {y \in job.seen :
              /\ ServerOf[y[1]] = s
              /\ \/ y[1] \in job.excl
                 \/ \A m \in Natives : ServerOf[m] = s /\ Held(m) => Title[holds[m].key] /= y[2]}}]
    /\ UNCHANGED <<keys, holds, db, queued, worker, retry, left>>

\* What the scan found above a row: its parent and that one's.
AncestorsOf(i) ==
    LET p == job.parents[i] IN IF p = 0 THEN {} ELSE {p, job.parents[p]} \ {0}

\* The rows that still hold a ref which was not found gone, or was written since.
Remaining == {db.refs[n] : n \in {m \in Natives : m \notin job.stale \/ m \in db.movedRefs}} \ {0}

\* Mutant: the cascade guard is left out.
PrunableUnheld == job.cand \ Remaining

Prunable == (job.cand \ Remaining) \ UNION {AncestorsOf(i) : i \in job.cand \cap Remaining}

\* The list of these rows, sorted by depth.
DeepestFirst(S) ==
    {s \in [1 .. Cardinality(S) -> S] :
        /\ \A i \in S : \E k \in DOMAIN s : s[k] = i
        /\ \A k, l \in DOMAIN s : k < l =>
               Cardinality(AncestorsOf(s[k])) >= Cardinality(AncestorsOf(s[l]))}

PruneDecide ==
    /\ Lane("p_ask") /\ job.asked = Servers
    /\ Cardinality(Prunable) <= MaxPrunes
    /\ \E list \in DeepestFirst(Prunable) :
          job' = [job EXCEPT !.at = "p_apply", !.list = list]
    /\ UNCHANGED <<keys, holds, db, queued, worker, retry, left>>

\* A probe fails, the share or the count cannot be believed, it is a dry run, or the
\* process ends: nothing is written.
JobStops ==
    /\ ~Lane("idle")
    /\ Stop
    /\ UNCHANGED <<keys, holds, queued, worker, retry, left>>

\* One candidate of retire: deleted by (id, updated_at), or skipped, which shields its parent.
Retire(acc, i) ==
    IF i \in acc.blocked \/ i \notin RowsOf(acc.d) \/ i \in acc.d.moved
    THEN [acc EXCEPT !.blocked = @ \cup {job.parents[i]}]
    ELSE [acc EXCEPT !.d = Cascade(acc.d, {i}), !.pruned = @ \cup {i}]

\* The candidates one after the other.
Retired(list) ==
    LET f[k \in 0 .. Len(list)] ==
          IF k = 0 THEN [d |-> db, pruned |-> {}, blocked |-> {}] ELSE Retire(f[k - 1], list[k])
    IN f[Len(list)]

\* The apply branch, one transaction: the rows, the stale refs by (id, updated_at), and
\* the waiting jobs that name a pruned row.
PruneApply ==
    /\ Lane("p_apply")
    /\ LET out == Retired(job.list)
           doomed == job.stale \ db.movedRefs
       IN /\ db' = [Quiet(out.d) EXCEPT !.audit = @ \cup out.pruned,
                                 !.refs = [n \in Natives |-> IF n \in doomed THEN 0 ELSE out.d.refs[n]]]
          /\ queued' = {n \in queued : db.refs[n] \notin out.pruned}
    /\ job' = NoJob
    /\ UNCHANGED <<keys, holds, worker, retry, left>>

-----------------------------------------------------------------------------
(* plex_merge *)

PlexId(i) ==
    IF \E n \in Natives : db.refs[n] = i /\ ServerOf[n] = Plex
    THEN CHOOSE n \in Natives : db.refs[n] = i /\ ServerOf[n] = Plex ELSE None

\* find_mergeable elects, of two rows, the one written last.
Elected(stale, survivor) == <<stale, survivor>> \in db.later

\* The clusters of two rows of one title.
TwinPairs ==
    {[stale |-> p[1], survivor |-> p[2], sid |-> PlexId(p[1]), vid |-> PlexId(p[2])] : p \in
        {q \in RowsOf(db) \X RowsOf(db) :
            /\ q[1] /= q[2]
            /\ {i \in RowsOf(db) : Title[db.items[i].key] = Title[db.items[q[1]].key]} = {q[1], q[2]}
            /\ Elected(q[1], q[2])}}

MergeRead ==
    /\ Spend("runs")
    /\ Lane("idle") /\ RowsOf(db) /= {}
    /\ Cardinality(TwinPairs) <= MaxMerges
    /\ job' = [NoJob EXCEPT !.at = "m_read", !.pairs = TwinPairs]
    /\ db' = [db EXCEPT !.moved = {}]
    /\ UNCHANGED <<keys, holds, queued, worker, retry>>

\* _plan_merges reads what hangs off the rows of the pairs.
MergePlan ==
    /\ Lane("m_read")
    /\ job' = [job EXCEPT !.at = "m_ask", !.hung = db.hung]
    /\ UNCHANGED <<keys, holds, db, queued, worker, retry, left>>

\* keys_resolve: the stored id itself, never a search.
Accepts(n, i) ==
    n /= None /\ Held(n) /\ i \in RowsOf(db) /\ Title[holds[n].key] = Title[db.items[i].key]

\* verify_survivors: only the pairs whose survivor alone resolves by its own id.
MergeAsk ==
    /\ Lane("m_ask")
    /\ job' = [job EXCEPT !.at = "m_apply",
                          !.pairs = {p \in @ : Accepts(p.vid, p.survivor) /\ ~Accepts(p.sid, p.stale)}]
    /\ UNCHANGED <<keys, holds, db, queued, worker, retry, left>>

\* Mutant: only the stale row's stamp is compared.
UnmovedStale(p) == p.stale \in RowsOf(db) /\ p.survivor \in RowsOf(db) /\ p.stale \notin db.moved

\* Both rows as they were read, under the lock.
Unmoved(p) == {p.stale, p.survivor} \subseteq RowsOf(db) /\ {p.stale, p.survivor} \cap db.moved = {}

\* The cascade law: every child moves before the delete.
Repointed(d, p) ==
    Touch([d EXCEPT !.items = [i \in Ids |->
             IF d.items[i].parent = p.stale THEN [d.items[i] EXCEPT !.parent = p.survivor] ELSE d.items[i]]],
          Children(d, {p.stale}))

\* What moves to the survivor: the planned hangings its plan names, and all of the others.
Carried(p) ==
    {h \in db.hung[p.stale] : h = "planned" => h \in job.hung[p.stale] \ job.hung[p.survivor]}

\* merge, one pair and one transaction. The code takes the pairs by id; nothing here
\* depends on their order.
MergePair(p) ==
    /\ Lane("m_apply")
    /\ LET d1 == [db EXCEPT !.hung[p.survivor] = @ \cup Carried(p),
                            !.items[p.survivor].parent =
                                IF @ = 0 THEN db.items[p.stale].parent ELSE @]
           d2 == Repointed(Touch(d1, {p.survivor}), p)
       IN IF Unmoved(p)
          THEN /\ db' = [Cascade(d2, {p.stale}) EXCEPT !.audit = @ \cup {p.stale}]
               /\ job' = [job EXCEPT !.pairs = @ \ {p}, !.dead = @ \cup {p.sid, p.vid}]
          ELSE UNCHANGED db /\ job' = [job EXCEPT !.pairs = @ \ {p}]
    /\ UNCHANGED <<keys, holds, queued, worker, retry, left>>

\* The jobs that name either id of a merged pair are dismissed.
MergeEnds ==
    /\ Lane("m_apply") /\ job.pairs = {}
    /\ queued' = queued \ job.dead
    /\ Stop
    /\ UNCHANGED <<keys, holds, worker, retry, left>>

-----------------------------------------------------------------------------
LibraryInit ==
    /\ keys \in Libraries
    /\ db \in {d \in FirstRows : \A i \in RowsOf(d) : d.items[i].key \in keys}
    /\ holds = [n \in Natives |-> IF db.refs[n] = 0 THEN NoAnswer
                                  ELSE [key |-> db.items[db.refs[n]].key,
                                        parent |-> IF db.items[db.refs[n]].parent = 0 THEN None
                                                   ELSE db.items[db.items[db.refs[n]].parent].key]]
    /\ queued = {} /\ retry = <<>> /\ job = NoJob
    /\ left = [moves |-> MaxMoves, tasks |-> MaxTasks, runs |-> MaxRuns]
    /\ worker = [w \in Workers |-> <<>>]

Answers(n) ==
    {a \in Answer : /\ a.key \in keys /\ Title[a.key] \in MayHold[n]
                    /\ IF ParentTitle[Title[a.key]] = None THEN a.parent = None
                       ELSE a.parent \in keys /\ Title[a.parent] = ParentTitle[Title[a.key]]}

LibraryNext ==
    \/ \E n \in Natives : Loses(n) \/ Enqueue(n) \/ Unresolved(n) \/ \E a \in Answers(n) : Gains(n, a)
    \/ \E w \in Workers : Resolve(w) \/ WriteIdentity(w) \/ WriteArtifact(w)
    \/ \E i \in Ids : Declare(i) \/ \E n \in Natives : RetryResolve(i, n)
    \/ RetryWrite
    \/ PruneRead \/ PruneReadRefs \/ PruneDecide \/ PruneApply
    \/ \E s \in Servers : PruneAsk(s)
    \/ MergeRead \/ MergePlan \/ MergeAsk \/ MergeEnds
    \/ \E p \in job.pairs : MergePair(p)
    \/ JobStops

LibrarySpec == LibraryInit /\ [][LibraryNext]_libraryVars

-----------------------------------------------------------------------------
(* Properties *)

\* Types; and no ref or parent link names a row that is not there.
LibraryTypeOK ==
    /\ db \in Table
    /\ Linked(db)
    /\ queued \subseteq Natives

\* One ref per item and server, whatever upserts, retries, merges and prunes have done:
\* what upsert_server_ref deletes the item's other ids for.
OneRefPerServer ==
    \A m, n \in Natives : m /= n /\ db.refs[m] = db.refs[n] /\ db.refs[m] /= 0
                          => ServerOf[m] /= ServerOf[n]

\* A pair that passes the test under the lock hangs as it did when it was planned, so
\* the merge never meets uq_render_item_kind and never leaves a render to the cascade,
\* although the servers were asked in between.
PlanIsCurrent ==
    Lane("m_apply") =>
        \A p \in job.pairs :
            Unmoved(p) => \A i \in {p.stale, p.survivor} :
                             ("planned" \in db.hung[i]) = ("planned" \in job.hung[i])

\* A merge removes the stale row alone, and the survivor then has everything that hung
\* off either row, the declarations and children that came after the scan included.
MergeKeepsAll ==
    [][\A p \in job.pairs : MergePair(p) /\ RowsOf(db') /= RowsOf(db) =>
          /\ RowsOf(db') = RowsOf(db) \ {p.stale}
          /\ db'.hung[p.survivor] = db.hung[p.stale] \cup db.hung[p.survivor]
          /\ Children(db, {p.stale}) \subseteq Children(db', {p.survivor})]_libraryVars

\* The row hangs where the scan found it, and so does what it hangs under.
InPlace(i) ==
    LET p == db.items[i].parent
    IN /\ i \in job.cand \cap RowsOf(db)
       /\ p = job.parents[i]
       /\ p /= 0 => db.items[p].parent = job.parents[p]

\* Every candidate in its place that a prune removes, by itself or by a cascade, has its
\* own audit row.
RemovalsAreAudited ==
    [][Lane("p_apply") /\ job'.at = "idle" =>
         \A i \in Ids : InPlace(i) /\ i \notin RowsOf(db') => i \in db'.audit]_libraryVars

\* A candidate in its place that a worker has written since the scan outlives the prune,
\* although its parents' own stamps have not moved and would match.
RewrittenSurvive ==
    [][Lane("p_apply") /\ job'.at = "idle" =>
         \A i \in db.moved : InPlace(i) => i \in RowsOf(db')]_libraryVars

\* A row in its place, with a ref the scan did not find gone or that was written again
\* before the decision, outlives the prune, and so does each of its ancestors.
ResolvedSurvive ==
    [][Lane("p_apply") /\ job'.at = "idle" =>
         \A n \in Natives : /\ n \in {x[1] : x \in job.seen} \ job.stale
                            /\ n \notin db.movedRefs /\ db.refs[n] /= 0
                            /\ InPlace(db.refs[n])
                            => {db.refs[n]} \cup AncestorsOf(db.refs[n]) \subseteq RowsOf(db')]_libraryVars

\* retire's docstring: no live row is lost to a cascade. A row that some worker has
\* upserted since the scan, new ones included, outlives the prune.
NoLiveRowIsLost ==
    [][Lane("p_apply") /\ job'.at = "idle" => db.moved \cap RowsOf(db) \subseteq RowsOf(db')]_libraryVars

\* One ref per item and server, and a merge plan that passes the test under the lock is current.
LibrarySafety ==
    /\ LibraryTypeOK
    /\ OneRefPerServer
    /\ PlanIsCurrent

\* A merge keeps everything that hung off either row, a prune spares what was resolved
\* or written since its scan, and every removal is audited.
LibrarySteps ==
    /\ MergeKeepsAll
    /\ ResolvedSurvive
    /\ RewrittenSurvive
    /\ RemovalsAreAudited
====
