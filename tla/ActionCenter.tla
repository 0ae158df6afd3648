---------------------------- MODULE ActionCenter ----------------------------
(***************************************************************************)
(* The action center: the queue of render rows an operator should look at  *)
(* (actions/flags.py), what hides a row from it, and the presses that      *)
(* queue work from it (api/action_center.py), beside the worker pool that  *)
(* consumes the work and moves the very facts the queue is derived from.   *)
(*                                                                         *)
(* Every flag is a predicate over a render row and the live configuration. *)
(* A dismissal stores the row's facts and hides the row only while they    *)
(* are still its facts. A press selects rows under those predicates,       *)
(* clears their fingerprints (a pass over a row whose fingerprint still    *)
(* matches changes nothing) and queues one job per item.                   *)
(***************************************************************************)
EXTENDS Integers, Sequences, FiniteSets, SequencesExt

CONSTANTS
    Rows,     \* the render rows: their ids, which order a batch
    Item,     \* the media item of each row
    Kind,     \* the art kind of each row
    Library,  \* the library of each item
    Key,      \* the dedupe key of each item's job: its external ids
    Arts,     \* what a render may have found: [lang, textless, prov, size]
    Configs,  \* the configurations an operator may put in force
    Old,      \* the facts of a row rendered before they were recorded
    Batch,    \* scheduler.drift_batch_size
    Waiting,  \* the sets of items that may have a job waiting at first
    MaxJobs,  \* bound: jobs per key
    Events    \* bound: requests of the operator

ASSUME RowsAssumption == IsFiniteSet(Rows)
ASSUME ConfigsAssumption ==
    \A c \in Configs : \A r \in Rows : Library[Item[r]] \in DOMAIN c.override
ASSUME WaitingAssumption == \A waiting \in Waiting : waiting \subseteq {Item[r] : r \in Rows}
ASSUME JobsAssumption == MaxJobs \in Nat \ {0}

VARIABLES
    row,      \* renders: [status, art, scored, fp]
    hidden,   \* action_dismissals: the facts a row was dismissed with
    jobs,     \* the jobs of each key, oldest first: [state, item]
    config,   \* the configuration in force
    reading,  \* a dismissal between its read and its upsert
    answer,   \* what the last press did and answered
    seen,     \* ghost: the facts in force when the row's dismissal read them
    events

vars == <<row, hidden, jobs, config, reading, answer, seen, events>>

Items == {Item[r] : r \in Rows}
Keys == {Key[i] : i \in Items}
NoDismissal == <<>>
NoReading == <<>>
RowsOf(i) == {r \in Rows : Item[r] = i}
LibOf(r) == Library[Item[r]]

(***************************************************************************)
(* The flags                                                               *)
(***************************************************************************)
\* The order this art kind is ranked against: the library's own, else the kind's.
LanguageOrder(lib, kind) ==
    IF config.override[lib][kind] # <<>> THEN config.override[lib][kind]
    ELSE config.order[kind]

\* A textless image achieves "xx" whatever tag rode along with it.
Achieved(art) == IF art.textless THEN "xx" ELSE art.lang

\* The libraries that answer for themselves: an empty override is none.
Overridden(kind) ==
    {lib \in DOMAIN config.override : config.override[lib][kind] # <<>>}

LanguageMiss(r) ==
    /\ row[r].scored
    /\ \/ /\ LibOf(r) \in Overridden(Kind[r])
          /\ Achieved(row[r].art) # LanguageOrder(LibOf(r), Kind[r])[1]
       \/ /\ LibOf(r) \notin Overridden(Kind[r])
          /\ config.order[Kind[r]] # <<>>
          /\ Achieved(row[r].art) # config.order[Kind[r]][1]

ProviderDowngrade(r) == row[r].scored /\ row[r].art.prov # config.provider

\* The title fitted only at the floor as it stands now.
NearMiss(r) == row[r].scored /\ row[r].art.size <= config.floor

Missing(r) == row[r].status = "no_art"

Unscored(r) == row[r].status = "rendered" /\ ~row[r].scored

Flags == {"default", "missing", "language_miss", "provider_downgrade",
          "near_miss", "unscored"}

\* near_miss and unscored are off by default.
Fires(flag, r) ==
    CASE flag = "missing" -> Missing(r)
      [] flag = "language_miss" -> LanguageMiss(r)
      [] flag = "provider_downgrade" -> ProviderDowngrade(r)
      [] flag = "near_miss" -> NearMiss(r)
      [] flag = "unscored" -> Unscored(r)
      [] OTHER -> Missing(r) \/ LanguageMiss(r) \/ ProviderDowngrade(r)

InScope(r) == LibOf(r) \notin config.excluded

\* Mutant: the facts without where the image came from.
EvidenceOfStatus(r) == <<row[r].status, row[r].scored>>

\* What a dismissal is a dismissal of: scored-ness, never the time of it.
Evidence(r) == <<row[r].status, row[r].art, row[r].scored>>
Facts(r) == <<row[r].status, row[r].art, row[r].scored>>

Hidden(r) == hidden[r] = Evidence(r)

Queue(flag, lib, dismissed) ==
    {r \in Rows : /\ InScope(r)
                  /\ lib \in {"any", LibOf(r)}
                  /\ dismissed \/ ~Hidden(r)
                  /\ Fires(flag, r)}

(***************************************************************************)
(* The jobs, one line per dedupe key: two copies of one film in two        *)
(* libraries are two items under one key                                   *)
(***************************************************************************)
Has(k, states) == \E n \in DOMAIN jobs[k] : jobs[k][n].state \in states
Live(k) == Has(k, {"pending", "deferred"})
KeyOf(r) == Key[Item[r]]

\* The key whose most recent job, by id, is parked.
ParkedByLatest(k) == jobs[k] # <<>> /\ Last(jobs[k]).state = "parked"

\* enqueue_batch: a live job swallows the entry, a deferred one is not woken.
Enqueued(items) == {Key[i] : i \in {j \in items : ~Live(Key[j])}}

\* Entries of one key collapse into the first, whichever the query put first.
EnqueueBatch(items) ==
    \E named \in [Enqueued(items) -> items] :
       /\ \A k \in Enqueued(items) : Key[named[k]] = k /\ Len(jobs[k]) < MaxJobs
       /\ jobs' = [k \in Keys |->
                     IF k \in Enqueued(items)
                     THEN Append(jobs[k], [state |-> "pending", item |-> named[k]])
                     ELSE jobs[k]]

SetJob(k, n, s) == jobs' = [jobs EXCEPT ![k][n].state = s]

\* enqueue: a live job is woken instead, and keeps the payload it has.
EnqueueOne(i) ==
    LET k == Key[i] IN
    \/ \E n \in DOMAIN jobs[k] :
         jobs[k][n].state \in {"pending", "deferred"} /\ SetJob(k, n, "pending")
    \/ /\ ~Live(k)
       /\ Len(jobs[k]) < MaxJobs
       /\ jobs' = [jobs EXCEPT ![k] = Append(@, [state |-> "pending", item |-> i])]

Cleared(rs) == [r \in Rows |-> IF r \in rs THEN [row[r] EXCEPT !.fp = FALSE] ELSE row[r]]

\* The first n of a set of ids, in id order.
First(S, n) == {r \in S : Cardinality({q \in S : q < r}) < n}

Operator == events < Events /\ events' = events + 1

Silent == [by |-> "", rows |-> {}, items |-> {}, status |-> "", done |-> 0, total |-> 0]

\* What the header counts: [done, total, blocked, queued].
BackfillState(js) ==
    LET shown == {r \in Rows : InScope(r) /\ ~Hidden(r) /\ row[r].status = "rendered"}
        left == {r \in shown : ~row[r].scored}
        blocked == {r \in left : js[KeyOf(r)] # <<>> /\ Last(js[KeyOf(r)]).state = "parked"}
        queued == {r \in left \ blocked : \E n \in DOMAIN js[KeyOf(r)] :
                      js[KeyOf(r)][n].state \in {"pending", "running", "deferred"}}
    IN  [done |-> Cardinality(shown \ left),
         total |-> Cardinality(shown \ left) + Cardinality(left \ blocked),
         blocked |-> Cardinality(blocked),
         queued |-> Cardinality(queued)]

\* The next rows to score: neither in flight nor parked, at the item's level.
BackfillBatch ==
    First({r \in Rows : /\ Unscored(r)
                        /\ InScope(r)
                        /\ ~Hidden(r)
                        /\ ~Live(KeyOf(r))
                        /\ ~ParkedByLatest(KeyOf(r))}, Batch)

Backfill ==
    /\ Operator
    /\ row' = Cleared(BackfillBatch)
    /\ EnqueueBatch({Item[r] : r \in BackfillBatch})
    /\ \E after \in {BackfillState(jobs')} :
         answer' = [by |-> "backfill",
                    rows |-> BackfillBatch,
                    items |-> Enqueued({Item[r] : r \in BackfillBatch}),
                    status |-> IF BackfillBatch = {} THEN "complete" ELSE "enqueued",
                    done |-> after.done, total |-> after.total]
    /\ UNCHANGED <<hidden, config, reading, seen>>

(***************************************************************************)
(* The other presses                                                       *)
(***************************************************************************)
\* One named row, dismissed or not, or one batch of the filter; a dry run
\* answers before it assigns anything.
RebuildBatch(rs) == First(rs, Batch)

\* Mutant: the batch bounds the jobs and not the clears.
RebuildWhole(rs) ==
    /\ Operator
    /\ row' = Cleared(rs)
    /\ EnqueueBatch({Item[r] : r \in RebuildBatch(rs)})
    /\ answer' = [Silent EXCEPT !.by = "rebuild",
                    !.rows = RebuildBatch(rs),
                    !.items = Enqueued({Item[r] : r \in RebuildBatch(rs)}),
                    !.status = IF RebuildBatch(rs) = {} THEN "complete" ELSE "enqueued"]
    /\ UNCHANGED <<hidden, config, reading, seen>>

Rebuild(rs) ==
    /\ Operator
    /\ row' = Cleared(RebuildBatch(rs))
    /\ EnqueueBatch({Item[r] : r \in RebuildBatch(rs)})
    /\ answer' = [Silent EXCEPT !.by = "rebuild",
                    !.rows = RebuildBatch(rs),
                    !.items = Enqueued({Item[r] : r \in RebuildBatch(rs)}),
                    !.status = IF RebuildBatch(rs) = {} THEN "complete" ELSE "enqueued"]
    /\ UNCHANGED <<hidden, config, reading, seen>>

RebuildRow(r) == Rebuild({q \in Rows : InScope(q) /\ q = r})

RebuildFilter(flag, lib, dismissed) == Rebuild(Queue(flag, lib, dismissed))

\* Queues the first items of the filter; their fingerprints are left alone.
BulkRerender(flag, lib, dismissed) ==
    /\ Operator
    /\ LET items == First({Item[r] : r \in Queue(flag, lib, dismissed)}, Batch) IN
         /\ EnqueueBatch(items)
         /\ answer' = [Silent EXCEPT !.by = "bulk", !.items = Enqueued(items),
                         !.status = IF items = {} THEN "complete" ELSE "enqueued"]
    /\ UNCHANGED <<row, hidden, config, reading, seen>>

\* One item: every row of it is cleared, and the job takes the clear with it.
Rerender(i) ==
    /\ Operator
    /\ row' = Cleared(RowsOf(i))
    /\ EnqueueOne(i)
    /\ answer' = [Silent EXCEPT !.by = "rerender"]
    /\ UNCHANGED <<hidden, config, reading, seen>>

\* "Run the whole tool now": every known item, whatever its library.
FullPass ==
    /\ Operator
    /\ EnqueueBatch(Items)
    /\ answer' = [Silent EXCEPT !.by = "full pass", !.items = Enqueued(Items)]
    /\ UNCHANGED <<row, hidden, config, reading, seen>>

(***************************************************************************)
(* Dismissals                                                              *)
(***************************************************************************)
\* The evidence is read by one statement and stored by the next.
DismissRead(r) ==
    /\ Operator
    /\ reading = NoReading
    /\ reading' = <<r, Evidence(r), Facts(r)>>
    /\ UNCHANGED <<row, hidden, jobs, config, answer, seen>>

DismissWrite ==
    /\ reading # NoReading
    /\ hidden' = [hidden EXCEPT ![reading[1]] = reading[2]]
    /\ seen' = [seen EXCEPT ![reading[1]] = reading[3]]
    /\ reading' = NoReading
    /\ UNCHANGED <<row, jobs, config, answer, events>>

Undismiss(r) ==
    /\ Operator
    /\ hidden' = [hidden EXCEPT ![r] = NoDismissal]
    /\ UNCHANGED <<row, jobs, config, reading, answer, seen>>

(***************************************************************************)
(* The workers, the failures page and the settings                         *)
(***************************************************************************)
Claim(k) ==
    /\ \E n \in DOMAIN jobs[k] : jobs[k][n].state = "pending" /\ SetJob(k, n, "running")
    /\ UNCHANGED <<row, hidden, config, reading, answer, seen, events>>

\* A pass over the item: a row whose inputs have not moved is left as it is.
Passed(r, moved, art) ==
    IF row[r].fp /\ ~moved THEN [row[r] EXCEPT !.status = "rendered"]
    ELSE IF art = Old THEN [row[r] EXCEPT !.status = "no_art"]
    ELSE [status |-> "rendered", art |-> art, scored |-> TRUE, fp |-> TRUE]

\* Job n of key k ends in a state, and the key's rows in `swept` are dismissed.
Ends(k, n, state, swept) ==
    jobs' = [jobs EXCEPT ![k] = [m \in DOMAIN @ |->
                IF m = n THEN [@[m] EXCEPT !.state = state]
                ELSE IF @[m].state = swept THEN [@[m] EXCEPT !.state = "dismissed"]
                ELSE @[m]]]

\* A job of a copy in an excluded library finds no item.
Pass(k) ==
    \E n \in DOMAIN jobs[k], moved \in BOOLEAN, art \in Arts \cup {Old} :
       /\ jobs[k][n].state = "running"
       /\ Library[jobs[k][n].item] \notin config.excluded
       /\ Ends(k, n, "done", "deferred")
       /\ row' = [r \in Rows |-> IF Item[r] = jobs[k][n].item
                                 THEN Passed(r, moved, art) ELSE row[r]]
       /\ UNCHANGED <<hidden, config, reading, answer, seen, events>>

\* The item was not found, or the attempts ran out: parking dismisses the
\* key's earlier parked jobs.
GiveUp(k) ==
    /\ \E n \in DOMAIN jobs[k] :
         /\ jobs[k][n].state = "running"
         /\ \/ ~Live(k) /\ SetJob(k, n, "deferred")
            \/ Ends(k, n, "parked", "parked")
    /\ UNCHANGED <<row, hidden, config, reading, answer, seen, events>>

\* The deferral's horizon.
Due(k) ==
    /\ \E n \in DOMAIN jobs[k] : jobs[k][n].state = "deferred" /\ SetJob(k, n, "pending")
    /\ UNCHANGED <<row, hidden, config, reading, answer, seen, events>>

\* The failures page: a parked job that may be live again.
Retry(k) ==
    /\ Operator
    /\ ~Live(k)
    /\ \E n \in DOMAIN jobs[k] : jobs[k][n].state = "parked" /\ SetJob(k, n, "pending")
    /\ UNCHANGED <<row, hidden, config, reading, answer, seen>>

Settings ==
    /\ Operator
    /\ config' \in Configs
    /\ UNCHANGED <<row, hidden, jobs, reading, answer, seen>>

Init ==
    /\ row \in [Rows -> {[status |-> "rendered", art |-> Old, scored |-> FALSE, fp |-> TRUE],
                         [status |-> "no_art", art |-> Old, scored |-> FALSE, fp |-> FALSE]}]
    /\ hidden = [r \in Rows |-> NoDismissal]
    /\ \E waiting \in Waiting :
         /\ \A i, j \in waiting : Key[i] = Key[j] => i = j
         /\ jobs = [k \in Keys |->
                     IF \E i \in waiting : Key[i] = k
                     THEN <<[state |-> "pending",
                             item |-> CHOOSE i \in waiting : Key[i] = k]>>
                     ELSE <<>>]
    /\ config \in Configs
    /\ reading = NoReading
    /\ answer = Silent
    /\ seen = [r \in Rows |-> NoDismissal]
    /\ events = 0

Next ==
    \/ Backfill
    \/ \E r \in Rows : RebuildRow(r)
    \/ \E flag \in Flags, lib \in {"any"} \cup {LibOf(r) : r \in Rows}, d \in BOOLEAN :
         RebuildFilter(flag, lib, d)
    \/ \E flag \in Flags, lib \in {"any"} \cup {LibOf(r) : r \in Rows}, d \in BOOLEAN :
         BulkRerender(flag, lib, d)
    \/ \E i \in Items : Rerender(i)
    \/ FullPass
    \/ \E r \in Rows : DismissRead(r)
    \/ DismissWrite
    \/ \E r \in Rows : Undismiss(r)
    \/ \E k \in Keys : Claim(k)
    \/ \E k \in Keys : Pass(k)
    \/ \E k \in Keys : GiveUp(k)
    \/ \E k \in Keys : Due(k)
    \/ \E k \in Keys : Retry(k)
    \/ Settings

Spec == Init /\ [][Next]_vars

(***************************************************************************)
(* Properties                                                              *)
(***************************************************************************)
TypeOK ==
    /\ \A r \in Rows : /\ row[r].status \in {"rendered", "no_art"}
                       /\ row[r].art \in Arts \cup {Old}
                       /\ row[r].scored = (row[r].art # Old)
                       /\ row[r].fp \in BOOLEAN
    /\ \A k \in Keys : /\ Len(jobs[k]) <= MaxJobs
                       /\ Cardinality({n \in DOMAIN jobs[k] :
                             jobs[k][n].state \in {"pending", "deferred"}}) <= 1
    /\ config \in Configs

\* A press that clears fingerprints leaves a live job under the key of every
\* item it cleared: no row is stranded without a fingerprint and without the pass that
\* would draw it again (action_center.py, rebuild_action and
\* backfill_trigger: "clears nothing rather than clearing a batch's worth
\* with nothing queued behind it").
ClearsAreQueued ==
    [][\A r \in Rows : (row[r].fp /\ ~row'[r].fp) =>
         Has(KeyOf(r), {"pending", "deferred"})']_vars

\* A batch press touches no row outside its scope: it neither clears nor
\* queues anything in an excluded library, and the backfill clears no row the
\* operator has dismissed (_scope, _select_backfill_batch).
PressesStayInScope ==
    [][answer' # answer =>
         /\ answer'.by \in {"backfill", "rebuild", "bulk"} =>
              \A k \in Keys : \A n \in DOMAIN jobs'[k] \ DOMAIN jobs[k] :
                 Library[jobs'[k][n].item] \notin config.excluded
         /\ answer'.by = "backfill" =>
              \A r \in Rows : row'[r] # row[r] => ~Hidden(r) /\ InScope(r)]_vars

\* A backfill press mints no job for an item whose most recent job failed and
\* waits on the failures page: the failure is not reset behind the operator
\* (_select_backfill_batch, _parked_by_latest_job).
FailuresAreKept ==
    [][(answer' # answer /\ answer'.by = "backfill") =>
         \A k \in Keys : (jobs[k] # <<>> /\ Last(jobs[k]).state = "parked")
                          => jobs'[k] = jobs[k]]_vars

\* A backfill press that selected rows queued work for at least one of them:
\* the button is not dead while rows it could score sit elsewhere
\* (_select_backfill_batch: "a dead button").
PressIsNotDead ==
    answer.by = "backfill" /\ answer.rows # {} => answer.items # {}

\* The header's unscored rows and the chip's are the same rows: what is left
\* to score, blocked rows included, is the listing of the unscored flag
\* (_backfill_state, _undismissed).
HeaderMatchesChip ==
    LET header == BackfillState(jobs)
    IN  header.total - header.done + header.blocked
            = Cardinality(Queue("unscored", "any", FALSE))

\* The language flag judges each row by the list the renderer would rank it
\* by: the library's own if it names one, else the kind's (flags.py,
\* _language_miss; pipeline.py, language_order_for).
MissIsTheLadders ==
    \A r \in Rows :
       LET own == config.override[LibOf(r)][Kind[r]]
           ladder == IF own = <<>> THEN config.order[Kind[r]] ELSE own
       IN  LanguageMiss(r) <=> /\ row[r].scored
                               /\ ladder # <<>>
                               /\ Achieved(row[r].art) # ladder[1]

\* A dismissed row is out of sight only while every fact the dismissal read
\* still holds, however the row was rendered in between (flags.py,
\* evidence_expression; ActionDismissal).
HidesOnlyItsFacts ==
    \A r \in Rows : Hidden(r) => seen[r] = Facts(r)

\* What run_full_pass says of itself: it enqueues a job for every known item.
EveryItemIsQueued ==
    [][(answer' # answer /\ answer'.by = "full pass") =>
         \A i \in Items : \E n \in DOMAIN jobs'[Key[i]] :
            /\ jobs'[Key[i]][n].item = i
            /\ jobs'[Key[i]][n].state \in {"pending", "running", "deferred"}]_vars

\* What the comment above the GET's status says: the press answers
\* "complete" exactly when no unscored rendered row is left.
CompleteMeansScored ==
    answer.by = "backfill" /\ answer.status = "complete" => answer.done >= answer.total

\* A press does something when its header says so, a language miss is the ladder's own,
\* and a dismissal hides only the facts it was made on.
ActionCenterSafety ==
    /\ TypeOK
    /\ PressIsNotDead
    /\ HeaderMatchesChip
    /\ MissIsTheLadders
    /\ HidesOnlyItsFacts

\* Every fingerprint that is cleared belongs to a queued item, a press stays in the
\* scope it shows, and a parked failure is not queued over.
ActionCenterSteps ==
    /\ ClearsAreQueued
    /\ PressesStayInScope
    /\ FailuresAreKept
=============================================================================
