------------------------- MODULE ActionCenterProofs --------------------------
(***************************************************************************)
(* Proofs about ActionCenter, for any set of rows, items and keys, any     *)
(* configurations, batch size and number of presses. A key has at most one *)
(* live job, so a press that clears a row either finds that job or adds    *)
(* one; the dismissal on record carries the facts its read saw; and the    *)
(* header counts the rows the unscored chip lists, cut in two.             *)
(*                                                                         *)
(* And about Artwork, for any workers and requests, any provider ladder,   *)
(* catalogue and configurations, and any way the outside may turn.  The    *)
(* row is held by one pass at a time, so that its file, its fingerprint    *)
(* and what the next pass would make of them can be followed step by step. *)
(***************************************************************************)
EXTENDS ActionCenter, Artwork, FiniteSetTheorems, NaturalsInduction, WellFoundedInduction, TLAPS

(***************************************************************************)
(* The inductive invariant                                                 *)
(***************************************************************************)
States == {"pending", "running", "deferred", "done", "parked", "dismissed"}
Alive == {"pending", "deferred"}
JobType == [state : States, item : Items]
RowType == [status : {"rendered", "no_art"}, art : Arts \cup {Old}, scored : BOOLEAN,
            fp : BOOLEAN]

RowsTyped == row \in [Rows -> RowType] /\ \A r \in Rows : row[r].scored = (row[r].art # Old)

\* enqueue's unique index: one job of a key is live.
OneLive(s) == \A m, n \in DOMAIN s : s[m].state \in Alive /\ s[n].state \in Alive => m = n

JobsTyped ==
    /\ jobs \in [Keys -> Seq(JobType)]
    /\ \A k \in Keys : Len(jobs[k]) <= MaxJobs /\ OneLive(jobs[k])

\* A dismissal under way stores the facts it read, and so did each on record.
Remembered ==
    /\ hidden = [r \in Rows |-> hidden[r]]
    /\ seen = [r \in Rows |-> seen[r]]
    /\ reading # NoReading =>
          \E r \in Rows : \E e : reading = <<r, e, e>>
    /\ \A r \in Rows : hidden[r] # NoDismissal => seen[r] = hidden[r]

IInv ==
    /\ RowsTyped
    /\ JobsTyped
    /\ Remembered
    /\ config \in Configs
    /\ PressIsNotDead

(***************************************************************************)
(* The jobs of a key                                                       *)
(***************************************************************************)
\* One job of a key changes its state; it becomes live only if none other is.
LEMMA SetJobKeeps ==
  ASSUME JobsTyped, NEW k \in Keys, NEW n \in DOMAIN jobs[k], NEW s \in States,
         SetJob(k, n, s), s \in Alive => jobs[k][n].state \in Alive \/ ~Live(k)
  PROVE  JobsTyped' /\ DOMAIN jobs'[k] = DOMAIN jobs[k] /\ jobs'[k][n].state = s
         /\ \A h \in Keys \ {k} : jobs'[h] = jobs[h]
<1> DEFINE q == jobs[k]
           p == [q EXCEPT ![n].state = s]
<1>1. q \in Seq(JobType) /\ Len(q) <= MaxJobs /\ OneLive(q) /\ n \in DOMAIN q
  BY DEF JobsTyped
<1>2. jobs' = [jobs EXCEPT ![k] = p]
  BY DEF SetJob
<1>3. jobs'[k] = p /\ \A h \in Keys \ {k} : jobs'[h] = jobs[h]
  BY <1>2 DEF JobsTyped
<1>4. q[n] \in JobType /\ DOMAIN q = 1..Len(q) /\ Len(q) \in Nat
  BY <1>1
<1>5. /\ p \in Seq(JobType) /\ DOMAIN p = DOMAIN q /\ Len(p) = Len(q)
      /\ p[n].state = s
      /\ \A m \in DOMAIN q : m # n => p[m] = q[m]
  BY <1>1, <1>4 DEF JobType
<1> HIDE DEF p
<1>6. OneLive(p)
  <2>1. CASE s \notin Alive
    BY <1>1, <1>5, <2>1 DEF OneLive
  <2>2. CASE q[n].state \in Alive
    BY <1>1, <1>5, <2>2 DEF OneLive
  <2>3. CASE ~Live(k)
    <3>1. \A m \in DOMAIN q : q[m].state \notin Alive
      BY <2>3 DEF Live, Has, Alive
    <3> QED
      BY <1>5, <3>1 DEF OneLive
  <2> QED
    BY <2>1, <2>2, <2>3
<1>7. JobsTyped'
  BY <1>1, <1>2, <1>3, <1>5, <1>6 DEF JobsTyped
<1> QED
  BY <1>3, <1>5, <1>7

\* A job ends, and the others of its key in one state are dismissed.
LEMMA EndsKeeps ==
  ASSUME JobsTyped, NEW k \in Keys, NEW n \in DOMAIN jobs[k],
         NEW s \in States \ Alive, NEW swept, Ends(k, n, s, swept)
  PROVE  JobsTyped'
<1> DEFINE q == jobs[k]
           p == [m \in DOMAIN q |-> IF m = n THEN [q[m] EXCEPT !.state = s]
                                    ELSE IF q[m].state = swept
                                         THEN [q[m] EXCEPT !.state = "dismissed"]
                                    ELSE q[m]]
<1>1. q \in Seq(JobType) /\ Len(q) <= MaxJobs /\ OneLive(q)
      /\ DOMAIN q = 1..Len(q) /\ Len(q) \in Nat
  BY DEF JobsTyped
<1>2. jobs' = [jobs EXCEPT ![k] = p]
  BY DEF Ends
<1>3. ASSUME NEW m \in DOMAIN q PROVE p[m] \in JobType
  <2>1. q[m] \in JobType
    BY <1>1
  <2>2. [q[m] EXCEPT !.state = s] \in JobType /\ [q[m] EXCEPT !.state = "dismissed"] \in JobType
    BY <2>1 DEF JobType, States
  <2> QED
    BY <2>1, <2>2
<1>4. \A m \in DOMAIN q : p[m].state \in Alive => q[m].state \in Alive
  BY <1>1 DEF JobType, Alive
<1>5. p \in Seq(JobType) /\ DOMAIN p = DOMAIN q /\ Len(p) = Len(q)
  <2>1. p \in [1..Len(q) -> JobType]
    BY <1>1, <1>3
  <2> QED
    BY <1>1, <2>1
<1> HIDE DEF p
<1>6. OneLive(p)
  BY <1>1, <1>4, <1>5 DEF OneLive
<1> QED
  BY <1>1, <1>2, <1>5, <1>6 DEF JobsTyped

\* A key that has no live job gets one at its end.
LEMMA AppendKeeps ==
  ASSUME JobsTyped, NEW k \in Keys, ~Live(k), Len(jobs[k]) < MaxJobs, NEW i \in Items
  PROVE  LET p == Append(jobs[k], [state |-> "pending", item |-> i])
         IN  /\ p \in Seq(JobType) /\ Len(p) <= MaxJobs /\ OneLive(p)
             /\ DOMAIN p = DOMAIN jobs[k] \cup {Len(jobs[k]) + 1}
             /\ Len(jobs[k]) + 1 \in DOMAIN p
             /\ p[Len(jobs[k]) + 1] = [state |-> "pending", item |-> i]
<1> DEFINE q == jobs[k]
           e == [state |-> "pending", item |-> i]
           p == Append(q, e)
<1>1. q \in Seq(JobType) /\ DOMAIN q = 1..Len(q) /\ Len(q) \in Nat
  BY DEF JobsTyped
<1>2. e \in JobType
  BY DEF JobType, States
<1> HIDE DEF e
<1>3. /\ p \in Seq(JobType) /\ Len(p) = Len(q) + 1 /\ DOMAIN p = 1..(Len(q) + 1)
      /\ p[Len(q) + 1] = e
      /\ \A m \in 1..Len(q) : p[m] = q[m]
  BY <1>1, <1>2
<1>4. DOMAIN p = DOMAIN q \cup {Len(q) + 1}
  BY <1>1, <1>3
<1> HIDE DEF p
<1>5. \A m \in DOMAIN q : q[m].state \notin Alive
  BY DEF Live, Has, Alive
<1>6. OneLive(p)
  BY <1>1, <1>3, <1>5 DEF OneLive
<1>7. Len(p) <= MaxJobs
  BY <1>1, <1>3, JobsAssumption
<1> QED
  BY <1>1, <1>3, <1>4, <1>6, <1>7 DEF p, e

\* enqueue_batch: afterwards every key of the batch has a live job; a key that
\* had one is left alone, and what is new names an item of the batch.
LEMMA BatchKeeps ==
  ASSUME JobsTyped, NEW items \in SUBSET Items, EnqueueBatch(items)
  PROVE  /\ JobsTyped'
         /\ \A k \in Keys \ Enqueued(items) : jobs'[k] = jobs[k]
         /\ \A k \in {Key[i] : i \in items} : Has(k, Alive)'
         /\ \A k \in Keys : \A n \in DOMAIN jobs'[k] \ DOMAIN jobs[k] : jobs'[k][n].item \in items
<1> DEFINE E == Enqueued(items)
<1>1. PICK named \in [E -> items] :
         /\ \A k \in E : Key[named[k]] = k /\ Len(jobs[k]) < MaxJobs
         /\ jobs' = [k \in Keys |-> IF k \in E
                       THEN Append(jobs[k], [state |-> "pending", item |-> named[k]])
                       ELSE jobs[k]]
  BY DEF EnqueueBatch
<1>2. E \subseteq Keys /\ \A k \in E : ~Live(k) /\ named[k] \in items
  BY DEF Enqueued, Keys
<1>3. \A i \in items : Key[i] \in Keys /\ (Key[i] \in E \/ Live(Key[i]))
  BY DEF Enqueued, Keys
<1> HIDE DEF E
<1>4. ASSUME NEW k \in E
      PROVE  /\ jobs'[k] \in Seq(JobType) /\ Len(jobs'[k]) <= MaxJobs /\ OneLive(jobs'[k])
             /\ DOMAIN jobs'[k] = DOMAIN jobs[k] \cup {Len(jobs[k]) + 1}
             /\ Len(jobs[k]) + 1 \in DOMAIN jobs'[k]
             /\ jobs'[k][Len(jobs[k]) + 1] = [state |-> "pending", item |-> named[k]]
  <2>1. k \in Keys /\ ~Live(k) /\ Len(jobs[k]) < MaxJobs /\ named[k] \in Items
    BY <1>1, <1>2
  <2>2. jobs'[k] = Append(jobs[k], [state |-> "pending", item |-> named[k]])
    BY <1>1, <2>1
  <2> QED
    BY <2>1, <2>2, AppendKeeps
<1>5. \A k \in Keys \ E : jobs'[k] = jobs[k]
  BY <1>1
<1>6. ASSUME NEW k \in E
      PROVE  /\ DOMAIN jobs'[k] = DOMAIN jobs[k] \cup {Len(jobs[k]) + 1}
             /\ jobs'[k][Len(jobs[k]) + 1].state = "pending"
             /\ jobs'[k][Len(jobs[k]) + 1].item = named[k]
  <2> DEFINE e == jobs'[k][Len(jobs[k]) + 1]
  <2>1. DOMAIN jobs'[k] = DOMAIN jobs[k] \cup {Len(jobs[k]) + 1}
        /\ e = [state |-> "pending", item |-> named[k]]
    BY <1>4, Zenon
  <2> HIDE DEF e
  <2>2. e.state = "pending" /\ e.item = named[k]
    BY <2>1
  <2> QED
    BY <2>1, <2>2 DEF e
<1>7. JobsTyped'
  <2>1. DOMAIN jobs' = Keys /\ jobs' = [k \in Keys |-> jobs'[k]]
    BY <1>1
  <2>2. \A k \in Keys : jobs'[k] \in Seq(JobType) /\ Len(jobs'[k]) <= MaxJobs /\ OneLive(jobs'[k])
    BY <1>4, <1>5 DEF JobsTyped
  <2> QED
    BY <2>1, <2>2 DEF JobsTyped
<1>8. ASSUME NEW i \in items PROVE Has(Key[i], Alive)'
  <2>1. CASE Key[i] \in E
    <3> DEFINE h == Len(jobs[Key[i]]) + 1
    <3>1. h \in DOMAIN jobs'[Key[i]] /\ jobs'[Key[i]][h].state = "pending"
      BY <1>6, <2>1
    <3> QED
      BY <3>1 DEF Has, Alive
  <2>2. CASE Key[i] \notin E
    BY <1>3, <1>5, <2>2 DEF Has, Live, Alive
  <2> QED
    BY <2>1, <2>2
<1>9. ASSUME NEW k \in Keys, NEW n \in DOMAIN jobs'[k] \ DOMAIN jobs[k]
      PROVE  jobs'[k][n].item \in items
  <2>1. k \in E
    BY <1>5
  <2>2. n = Len(jobs[k]) + 1
    BY <1>4, <2>1
  <2> QED
    BY <1>2, <1>6, <2>1, <2>2
<1> QED
  BY <1>5, <1>7, <1>8, <1>9 DEF E

\* enqueue: the item's key has a live job afterwards.
LEMMA OneKeeps ==
  ASSUME JobsTyped, NEW i \in Items, EnqueueOne(i)
  PROVE  JobsTyped' /\ Has(Key[i], Alive)'
<1> DEFINE k == Key[i]
<1>0. k \in Keys
  BY DEF Keys
<1>1. ASSUME NEW n \in DOMAIN jobs[k], jobs[k][n].state \in Alive, SetJob(k, n, "pending")
      PROVE  JobsTyped' /\ Has(Key[i], Alive)'
  <2>1. "pending" \in States /\ "pending" \in Alive
    BY DEF States, Alive
  <2>2. JobsTyped' /\ DOMAIN jobs'[k] = DOMAIN jobs[k] /\ jobs'[k][n].state = "pending"
    BY <1>0, <1>1, <2>1, SetJobKeeps
  <2> QED
    BY <2>1, <2>2 DEF Has
<1>2. ASSUME ~Live(k), Len(jobs[k]) < MaxJobs,
             jobs' = [jobs EXCEPT ![k] = Append(@, [state |-> "pending", item |-> i])]
      PROVE  JobsTyped' /\ Has(Key[i], Alive)'
  <2> DEFINE p == Append(jobs[k], [state |-> "pending", item |-> i])
  <2>1. /\ p \in Seq(JobType) /\ Len(p) <= MaxJobs /\ OneLive(p)
        /\ Len(jobs[k]) + 1 \in DOMAIN p
        /\ p[Len(jobs[k]) + 1] = [state |-> "pending", item |-> i]
    BY <1>0, <1>2, AppendKeeps
  <2>2. jobs' = [jobs EXCEPT ![k] = p] /\ jobs'[k] = p
    BY <1>0, <1>2 DEF JobsTyped
  <2> HIDE DEF p
  <2> QED
    BY <2>1, <2>2 DEF JobsTyped, Has, Alive
<1> QED
  BY <1>1, <1>2 DEF EnqueueOne, Alive

(***************************************************************************)
(* The steps                                                               *)
(***************************************************************************)
\* A batch is cut out of the rows it was selected from.
LEMMA FirstIsPart == \A S, n : First(S, n) \subseteq S
BY DEF First

\* Clearing takes fingerprints and nothing else, and from the named rows alone.
LEMMA ClearedKeeps ==
  ASSUME RowsTyped, NEW S \in SUBSET Rows, row' = Cleared(S)
  PROVE  /\ RowsTyped'
         /\ \A r \in Rows : row'[r] # row[r] => r \in S
<1>1. \A r \in Rows : row'[r] = IF r \in S THEN [row[r] EXCEPT !.fp = FALSE] ELSE row[r]
  BY DEF Cleared
<1>2. ASSUME NEW r \in Rows
      PROVE  /\ row'[r] \in RowType
             /\ row'[r].scored = row[r].scored /\ row'[r].art = row[r].art
  <2>1. row[r] \in RowType
    BY DEF RowsTyped
  <2>2. CASE r \in S
    <3> DEFINE q == row[r]
    <3>1. row'[r] = [q EXCEPT !.fp = FALSE]
      BY <1>1, <2>2
    <3> HIDE DEF q
    <3>2. q \in RowType
      BY <2>1 DEF q
    <3> DEFINE p == [q EXCEPT !.fp = FALSE]
    <3>3. p \in RowType /\ p.scored = q.scored /\ p.art = q.art
      BY <3>2 DEF RowType
    <3> HIDE DEF p
    <3> QED
      BY <3>1, <3>3 DEF p, q
  <2>3. CASE r \notin S
    BY <1>1, <2>1, <2>3
  <2> QED
    BY <2>2, <2>3
<1>3. row' \in [Rows -> RowType]
  BY <1>2 DEF Cleared
<1>4. \A r \in Rows : row'[r].scored = (row'[r].art # Old)
  BY <1>2 DEF RowsTyped
<1> QED
  BY <1>1, <1>3, <1>4 DEF RowsTyped

\* What the press of the backfill selects: rows whose key has neither a live
\* job nor a parked one on top.
LEMMA BackfillBatchIs ==
  /\ BackfillBatch \subseteq Rows
  /\ \A r \in BackfillBatch : /\ InScope(r) /\ ~Hidden(r)
                              /\ ~Live(KeyOf(r)) /\ ~ParkedByLatest(KeyOf(r))
BY FirstIsPart DEF BackfillBatch

\* A press of the backfill that selects rows names a job for one.
LEMMA BackfillKeeps == ASSUME IInv, Backfill PROVE IInv'
<1> DEFINE items == {Item[r] : r \in BackfillBatch}
<1>1. items \in SUBSET Items
  BY BackfillBatchIs DEF Items
<1>2. JobsTyped'
  BY <1>1, BatchKeeps DEF Backfill, IInv
<1>3. RowsTyped'
  BY BackfillBatchIs, ClearedKeeps DEF Backfill, IInv
<1>4. PressIsNotDead'
  <2>1. answer'.rows = BackfillBatch /\ answer'.items = Enqueued(items)
    BY DEF Backfill
  <2>2. BackfillBatch # {} => Enqueued(items) # {}
    BY BackfillBatchIs DEF Enqueued, KeyOf
  <2> QED
    BY <2>1, <2>2 DEF PressIsNotDead
<1> QED
  BY <1>2, <1>3, <1>4 DEF Backfill, IInv, Remembered

\* The rebuild of a row or of a filter, each a batch of rows in scope.
LEMMA RebuildKeeps == ASSUME IInv, NEW rs \in SUBSET Rows, Rebuild(rs) PROVE IInv'
<1>0. RebuildBatch(rs) \in SUBSET Rows
  BY FirstIsPart DEF RebuildBatch
<1>1. {Item[r] : r \in RebuildBatch(rs)} \in SUBSET Items
  BY <1>0 DEF Items
<1>2. JobsTyped'
  BY <1>1, BatchKeeps DEF Rebuild, IInv
<1>3. RowsTyped'
  BY <1>0, ClearedKeeps DEF Rebuild, IInv
<1>4. answer'.by = "rebuild"
  BY DEF Rebuild, Silent
<1> QED
  BY <1>2, <1>3, <1>4 DEF Rebuild, IInv, Remembered, PressIsNotDead

\* The presses that select nothing to clear, and the one that clears an item.
LEMMA OtherPressesKeep ==
  ASSUME IInv,
         \/ \E flag \in Flags, lib \in {"any"} \cup {LibOf(r) : r \in Rows}, d \in BOOLEAN :
              BulkRerender(flag, lib, d)
         \/ \E i \in Items : Rerender(i)
         \/ FullPass
  PROVE  IInv'
<1>1. ASSUME NEW flag, NEW lib, NEW d, BulkRerender(flag, lib, d) PROVE IInv'
  <2> DEFINE items == First({Item[r] : r \in Queue(flag, lib, d)}, Batch)
  <2>1. items \in SUBSET Items
    BY FirstIsPart DEF Queue, Items
  <2>2. EnqueueBatch(items) /\ answer'.by = "bulk" /\ UNCHANGED <<row, hidden, config, reading, seen>>
    BY <1>1 DEF BulkRerender, Silent
  <2> HIDE DEF items
  <2>3. JobsTyped'
    BY <2>1, <2>2, BatchKeeps DEF IInv
  <2> QED
    BY <2>2, <2>3 DEF IInv, RowsTyped, Remembered, PressIsNotDead
<1>2. ASSUME NEW i \in Items, Rerender(i) PROVE IInv'
  <2>1. RowsOf(i) \in SUBSET Rows
    BY DEF RowsOf
  <2>2. RowsTyped'
    BY <1>2, <2>1, ClearedKeeps DEF Rerender, IInv
  <2>3. JobsTyped'
    BY <1>2, OneKeeps DEF Rerender, IInv
  <2>4. answer'.by = "rerender"
    BY <1>2 DEF Rerender, Silent
  <2> QED
    BY <1>2, <2>2, <2>3, <2>4 DEF Rerender, IInv, Remembered, PressIsNotDead
<1>3. CASE FullPass
  <2>1. JobsTyped'
    BY <1>3, BatchKeeps DEF FullPass, IInv
  <2>2. answer'.by = "full pass"
    BY <1>3 DEF FullPass, Silent
  <2> QED
    BY <1>3, <2>1, <2>2 DEF FullPass, IInv, RowsTyped, Remembered, PressIsNotDead
<1> QED
  BY <1>1, <1>2, <1>3

\* A dismissal is read by one statement and stored by the next.
LEMMA DismissalsKeep ==
  ASSUME IInv,
         \/ \E r \in Rows : DismissRead(r) \/ Undismiss(r)
         \/ DismissWrite
  PROVE  IInv'
<1>1. UNCHANGED <<row, jobs, config, answer>>
  BY DEF DismissRead, Undismiss, DismissWrite
<1>2. Remembered'
  <2>1. ASSUME NEW r \in Rows, DismissRead(r) PROVE Remembered'
    <3>1. reading' = <<r, Evidence(r), Evidence(r)>> /\ UNCHANGED <<hidden, seen>>
      BY <2>1 DEF DismissRead, Evidence, Facts
    <3> QED
      BY <3>1 DEF IInv, Remembered
  <2>2. ASSUME NEW r \in Rows, Undismiss(r) PROVE Remembered'
    BY <2>2 DEF Undismiss, IInv, Remembered
  <2>3. CASE DismissWrite
    <3>1. PICK r \in Rows : \E e : reading = <<r, e, e>>
      BY <2>3 DEF DismissWrite, IInv, Remembered
    <3>2. PICK e : reading = <<r, e, e>>
      BY <3>1
    <3>3. /\ hidden' = [hidden EXCEPT ![r] = e] /\ seen' = [seen EXCEPT ![r] = e]
          /\ reading' = NoReading
      BY <2>3, <3>2 DEF DismissWrite
    <3> QED
      BY <3>3 DEF IInv, Remembered
  <2> QED
    BY <2>1, <2>2, <2>3
<1> QED
  BY <1>1, <1>2 DEF IInv, RowsTyped, JobsTyped, PressIsNotDead

\* The workers and the failures page move jobs; only a pass writes rows.
LEMMA JobStepsKeep ==
  ASSUME IInv, NEW k \in Keys, Claim(k) \/ Pass(k) \/ GiveUp(k) \/ Due(k) \/ Retry(k)
  PROVE  IInv'
<1>0. /\ UNCHANGED <<hidden, config, reading, answer, seen>>
      /\ {"pending", "running", "deferred"} \subseteq States
      /\ {"done", "parked"} \subseteq States \ Alive
      /\ "running" \notin Alive
  BY DEF Claim, Pass, GiveUp, Due, Retry, States, Alive
<1>1. JobsTyped'
  <2>0. JobsTyped
    BY DEF IInv
  <2>1. CASE Claim(k)
    <3>1. PICK n \in DOMAIN jobs[k] : jobs[k][n].state = "pending" /\ SetJob(k, n, "running")
      BY <2>1 DEF Claim
    <3> QED
      BY <1>0, <2>0, <3>1, SetJobKeeps
  <2>2. CASE Pass(k)
    <3>1. PICK n \in DOMAIN jobs[k], moved \in BOOLEAN, art \in Arts \cup {Old} :
             Ends(k, n, "done", "deferred")
      BY <2>2 DEF Pass
    <3> QED
      BY <1>0, <2>0, <3>1, EndsKeeps
  <2>3. CASE GiveUp(k)
    <3>1. PICK n \in DOMAIN jobs[k] :
             \/ ~Live(k) /\ SetJob(k, n, "deferred")
             \/ Ends(k, n, "parked", "parked")
      BY <2>3 DEF GiveUp
    <3> QED
      BY <1>0, <2>0, <3>1, SetJobKeeps, EndsKeeps
  <2>4. CASE Due(k)
    <3>1. PICK n \in DOMAIN jobs[k] : jobs[k][n].state = "deferred" /\ SetJob(k, n, "pending")
      BY <2>4 DEF Due
    <3>2. jobs[k][n].state \in Alive
      BY <3>1 DEF Alive
    <3> QED
      BY <1>0, <2>0, <3>1, <3>2, SetJobKeeps
  <2>5. CASE Retry(k)
    <3>1. PICK n \in DOMAIN jobs[k] : ~Live(k) /\ SetJob(k, n, "pending")
      BY <2>5 DEF Retry
    <3> QED
      BY <1>0, <2>0, <3>1, SetJobKeeps
  <2> QED
    BY <2>1, <2>2, <2>3, <2>4, <2>5
<1>2. RowsTyped'
  <2>1. CASE UNCHANGED row
    BY <2>1 DEF IInv, RowsTyped
  <2>2. CASE Pass(k)
    <3>1. PICK n \in DOMAIN jobs[k], moved \in BOOLEAN, art \in Arts \cup {Old} :
             row' = [r \in Rows |-> IF Item[r] = jobs[k][n].item
                                    THEN Passed(r, moved, art) ELSE row[r]]
      BY <2>2 DEF Pass
    <3>2. ASSUME NEW r \in Rows
          PROVE  /\ Passed(r, moved, art) \in RowType
                 /\ Passed(r, moved, art).scored = (Passed(r, moved, art).art # Old)
      <4>1. row[r] \in RowType /\ row[r].scored = (row[r].art # Old)
        BY DEF IInv, RowsTyped
      <4> QED
        BY <4>1 DEF Passed, RowType
    <3> QED
      BY <3>1, <3>2 DEF IInv, RowsTyped
  <2> QED
    BY <2>1, <2>2 DEF Claim, GiveUp, Due, Retry
<1> QED
  BY <1>0, <1>1, <1>2 DEF IInv, Remembered, PressIsNotDead

LEMMA SettingsKeep == ASSUME IInv, Settings PROVE IInv'
BY DEF Settings, IInv, RowsTyped, JobsTyped, Remembered, PressIsNotDead

LEMMA InitIInv == Init => IInv
<1> SUFFICES ASSUME Init PROVE IInv
  OBVIOUS
<1>1. RowsTyped
  <2> DEFINE drawn == [status |-> "rendered", art |-> Old, scored |-> FALSE, fp |-> TRUE]
             bare == [status |-> "no_art", art |-> Old, scored |-> FALSE, fp |-> FALSE]
  <2>1. row \in [Rows -> {drawn, bare}]
    BY DEF Init
  <2>2. drawn \in RowType /\ bare \in RowType
    BY DEF RowType
  <2>3. drawn.scored = (drawn.art # Old) /\ bare.scored = (bare.art # Old)
    OBVIOUS
  <2> HIDE DEF drawn, bare
  <2> QED
    BY <2>1, <2>2, <2>3 DEF RowsTyped
<1>2. JobsTyped
  <2>1. PICK waiting \in Waiting :
           jobs = [k \in Keys |-> IF \E i \in waiting : Key[i] = k
                                  THEN <<[state |-> "pending",
                                          item |-> CHOOSE i \in waiting : Key[i] = k]>>
                                  ELSE <<>>]
    BY DEF Init
  <2>2. ASSUME NEW k \in Keys
        PROVE  jobs[k] \in Seq(JobType) /\ Len(jobs[k]) <= MaxJobs /\ OneLive(jobs[k])
    <3>1. CASE \E i \in waiting : Key[i] = k
      <4>1. (CHOOSE i \in waiting : Key[i] = k) \in Items
        BY <3>1, WaitingAssumption DEF Items
      <4>2. PICK i \in Items : jobs[k] = <<[state |-> "pending", item |-> i]>>
        BY <2>1, <3>1, <4>1
      <4>3. [state |-> "pending", item |-> i] \in JobType
        BY DEF JobType, States
      <4> QED
        BY <4>2, <4>3, JobsAssumption DEF OneLive
    <3>2. CASE ~\E i \in waiting : Key[i] = k
      BY <2>1, <3>2, JobsAssumption DEF OneLive
    <3> QED
      BY <3>1, <3>2
  <2> QED
    BY <2>1, <2>2 DEF JobsTyped
<1>3. Remembered
  BY DEF Init, Remembered
<1>4. PressIsNotDead
  BY DEF Init, PressIsNotDead, Silent
<1> QED
  BY <1>1, <1>2, <1>3, <1>4 DEF Init, IInv

LEMMA NextIInv == IInv /\ [Next]_vars => IInv'
<1> SUFFICES ASSUME IInv, [Next]_vars PROVE IInv'
  OBVIOUS
<1>1. ASSUME NEW rs, Rebuild(rs), rs \subseteq Rows PROVE IInv'
  BY <1>1, RebuildKeeps
<1>2. CASE \/ \E r \in Rows : RebuildRow(r)
           \/ \E flag \in Flags, lib \in {"any"} \cup {LibOf(r) : r \in Rows}, d \in BOOLEAN :
                RebuildFilter(flag, lib, d)
  <2>1. ASSUME NEW r \in Rows, RebuildRow(r) PROVE IInv'
    BY <1>1, <2>1 DEF RebuildRow
  <2>2. ASSUME NEW flag, NEW lib, NEW d, RebuildFilter(flag, lib, d) PROVE IInv'
    <3>1. Queue(flag, lib, d) \subseteq Rows
      BY DEF Queue
    <3> QED
      BY <1>1, <2>2, <3>1 DEF RebuildFilter
  <2> QED
    BY <1>2, <2>1, <2>2
<1>3. CASE \E k \in Keys : Claim(k) \/ Pass(k) \/ GiveUp(k) \/ Due(k) \/ Retry(k)
  BY <1>3, JobStepsKeep
<1>4. CASE UNCHANGED vars
  BY <1>4 DEF vars, IInv, RowsTyped, JobsTyped, Remembered, PressIsNotDead
<1>5. CASE \/ \E r \in Rows : DismissRead(r) \/ Undismiss(r)
           \/ DismissWrite
  BY <1>5, DismissalsKeep
<1>6. CASE \/ \E flag \in Flags, lib \in {"any"} \cup {LibOf(r) : r \in Rows}, d \in BOOLEAN :
                BulkRerender(flag, lib, d)
           \/ \E i \in Items : Rerender(i)
           \/ FullPass
  BY <1>6, OtherPressesKeep
<1> QED
  BY <1>2, <1>3, <1>4, <1>5, <1>6, BackfillKeeps, SettingsKeep DEF Next

\* The invariant holds throughout.
THEOREM JobsAndFacts == Spec => []IInv
BY InitIInv, NextIInv, PTL DEF Spec

(***************************************************************************)
(* The safety properties                                                   *)
(***************************************************************************)
\* One live job is what the type invariant's count says.
LEMMA LiveIsOne ==
  ASSUME JobsTyped, NEW k \in Keys
  PROVE  Cardinality({n \in DOMAIN jobs[k] : jobs[k][n].state \in {"pending", "deferred"}}) <= 1
<1> DEFINE L == {n \in DOMAIN jobs[k] : jobs[k][n].state \in {"pending", "deferred"}}
<1>1. \A m, n \in L : m = n
  BY DEF JobsTyped, OneLive, Alive
<1> HIDE DEF L
<1>2. CASE L = {}
  BY <1>2, FS_EmptySet DEF L
<1>3. CASE L # {}
  <2>1. PICK n : n \in L
    BY <1>3
  <2>2. L = {n}
    BY <1>1, <2>1
  <2>3. Cardinality(L) = 1
    BY <2>2, FS_Singleton
  <2> QED
    BY <2>3 DEF L
<1> QED
  BY <1>2, <1>3

\* The header cuts the rows of the unscored chip into those it counts as left
\* and those it counts as blocked.
LEMMA HeaderIsTheChip == HeaderMatchesChip
<1> DEFINE shown == {r \in Rows : InScope(r) /\ ~Hidden(r) /\ row[r].status = "rendered"}
           left == {r \in shown : ~row[r].scored}
           blocked == {r \in left : jobs[KeyOf(r)] # <<>> /\ Last(jobs[KeyOf(r)]).state = "parked"}
           header == BackfillState(jobs)
<1>1. /\ header.done = Cardinality(shown \ left)
      /\ header.total = Cardinality(shown \ left) + Cardinality(left \ blocked)
      /\ header.blocked = Cardinality(blocked)
  BY DEF BackfillState
<1>2. Queue("unscored", "any", FALSE) = left
  BY DEF Queue, Fires, Unscored
<1>3. shown \subseteq Rows /\ left \subseteq Rows /\ blocked \subseteq left
  OBVIOUS
<1> HIDE DEF shown, left, blocked, header
<1>4. IsFiniteSet(shown \ left) /\ IsFiniteSet(left) /\ IsFiniteSet(blocked)
      /\ IsFiniteSet(left \ blocked)
  BY <1>3, RowsAssumption, FS_Subset, FS_Difference
<1>5. Cardinality(left \ blocked) = Cardinality(left) - Cardinality(blocked)
  <2>1. left \cap blocked = blocked
    BY <1>3
  <2> QED
    BY <1>4, <2>1, FS_Difference
<1>6. /\ Cardinality(shown \ left) \in Nat /\ Cardinality(left) \in Nat
      /\ Cardinality(blocked) \in Nat
  BY <1>4, FS_CardinalityType
<1>7. header.total - header.done + header.blocked = Cardinality(left)
  BY <1>1, <1>5, <1>6
<1> QED
  BY <1>2, <1>7 DEF HeaderMatchesChip, header

\* A library overrides a kind exactly when its own list is not empty.
LEMMA OwnListWins == ASSUME config \in Configs PROVE MissIsTheLadders
<1> SUFFICES ASSUME NEW r \in Rows
             PROVE  LET own == config.override[LibOf(r)][Kind[r]]
                        ladder == IF own = <<>> THEN config.order[Kind[r]] ELSE own
                    IN  LanguageMiss(r) <=> /\ row[r].scored
                                            /\ ladder # <<>>
                                            /\ Achieved(row[r].art) # ladder[1]
  BY DEF MissIsTheLadders
<1> DEFINE own == config.override[LibOf(r)][Kind[r]]
<1>1. LibOf(r) \in Overridden(Kind[r]) <=> own # <<>>
  BY ConfigsAssumption DEF Overridden, LibOf
<1>2. own # <<>> => LanguageOrder(LibOf(r), Kind[r]) = own
  BY DEF LanguageOrder
<1>3. CASE own = <<>>
  BY <1>1, <1>3 DEF LanguageMiss
<1>4. CASE own # <<>>
  BY <1>1, <1>2, <1>4 DEF LanguageMiss
<1> QED
  BY <1>3, <1>4

\* A hidden row carries a dismissal, and the dismissal the facts its read saw.
LEMMA HiddenIsRemembered == ASSUME Remembered PROVE HidesOnlyItsFacts
<1>1. \A r \in Rows : Evidence(r) = Facts(r) /\ Evidence(r) # NoDismissal
  BY DEF Evidence, Facts, NoDismissal
<1> QED
  BY <1>1 DEF Remembered, HidesOnlyItsFacts, Hidden

\* A press of the backfill that selects rows queues work for one of them, its
\* header counts the rows its chip lists, a language miss is the ladder's own,
\* and a dismissal hides a row only while the facts it was made on hold
\* (_select_backfill_batch, _backfill_state, _language_miss, evidence_expression).
THEOREM ActionCenterIsSafe == Spec => []ActionCenterSafety
<1>1. IInv => TypeOK
  BY LiveIsOne DEF IInv, RowsTyped, RowType, JobsTyped, TypeOK
<1>2. IInv => ActionCenterSafety
  BY <1>1, HeaderIsTheChip, OwnListWins, HiddenIsRemembered DEF IInv, ActionCenterSafety
<1> QED
  BY <1>2, JobsAndFacts, PTL

(***************************************************************************)
(* The steps of the presses                                                *)
(***************************************************************************)
\* A fingerprint that is cleared is cleared by a press that queues its item.
LEMMA ClearIsQueued ==
  ASSUME IInv, [Next]_vars, NEW r \in Rows, row[r].fp, ~row'[r].fp
  PROVE  Has(KeyOf(r), Alive)'
<1>0. JobsTyped /\ RowsTyped
  BY DEF IInv
<1>1. CASE Backfill
  <2>1. r \in BackfillBatch
    BY <1>0, <1>1, BackfillBatchIs, ClearedKeeps DEF Backfill
  <2>2. {Item[q] : q \in BackfillBatch} \in SUBSET Items
    BY BackfillBatchIs DEF Items
  <2> QED
    BY <1>0, <1>1, <2>1, <2>2, BatchKeeps DEF Backfill, KeyOf, Has
<1>2. ASSUME NEW rs \in SUBSET Rows, Rebuild(rs) PROVE Has(KeyOf(r), Alive)'
  <2>1. RebuildBatch(rs) \in SUBSET Rows
    BY FirstIsPart DEF RebuildBatch
  <2>2. r \in RebuildBatch(rs)
    BY <1>0, <1>2, <2>1, ClearedKeeps DEF Rebuild
  <2>3. {Item[q] : q \in RebuildBatch(rs)} \in SUBSET Items
    BY <2>1 DEF Items
  <2> QED
    BY <1>0, <1>2, <2>2, <2>3, BatchKeeps DEF Rebuild, KeyOf, Has
<1>3. ASSUME NEW i \in Items, Rerender(i) PROVE Has(KeyOf(r), Alive)'
  <2>1. r \in RowsOf(i)
    BY <1>0, <1>3, ClearedKeeps DEF Rerender, RowsOf
  <2> QED
    BY <1>0, <1>3, <2>1, OneKeeps DEF Rerender, RowsOf, KeyOf, Has
<1>4. ASSUME NEW k \in Keys, Pass(k) PROVE FALSE
  <2>1. PICK n \in DOMAIN jobs[k], moved \in BOOLEAN, art \in Arts \cup {Old} :
           row' = [q \in Rows |-> IF Item[q] = jobs[k][n].item
                                  THEN Passed(q, moved, art) ELSE row[q]]
    BY <1>4 DEF Pass
  <2>2. row[r] \in RowType
    BY <1>0 DEF RowsTyped
  <2>3. Passed(r, moved, art).fp
    BY <2>2 DEF Passed, RowType
  <2> QED
    BY <2>1, <2>3
<1>5. CASE UNCHANGED row
  BY <1>5
<1>6. ASSUME NEW q \in Rows, RebuildRow(q) PROVE Has(KeyOf(r), Alive)'
  BY <1>2, <1>6 DEF RebuildRow
<1>7. ASSUME NEW flag, NEW lib, NEW d, RebuildFilter(flag, lib, d)
      PROVE  Has(KeyOf(r), Alive)'
  BY <1>2, <1>7 DEF RebuildFilter, Queue
<1>8. \/ UNCHANGED row
      \/ Backfill
      \/ \E q \in Rows : RebuildRow(q)
      \/ \E flag, lib, d : RebuildFilter(flag, lib, d)
      \/ \E i \in Items : Rerender(i)
      \/ \E k \in Keys : Pass(k)
  BY DEF Next, vars, BulkRerender, FullPass, DismissRead, DismissWrite, Undismiss,
         Claim, GiveUp, Due, Retry, Settings
<1> QED
  BY <1>1, <1>3, <1>4, <1>5, <1>6, <1>7, <1>8

\* The answer of a batch press is written by that press, over the rows or the
\* items of its scope.
LEMMA WhoAnswers ==
  ASSUME [Next]_vars, answer' # answer
  PROVE  /\ answer'.by = "backfill" => Backfill
         /\ answer'.by = "rebuild" =>
              \E rs \in SUBSET Rows : Rebuild(rs) /\ \A r \in rs : InScope(r)
         /\ answer'.by = "bulk" =>
              \E flag, lib, d : BulkRerender(flag, lib, d)
<1>1. ASSUME NEW rs, Rebuild(rs) PROVE answer'.by = "rebuild"
  BY <1>1 DEF Rebuild, Silent
<1>2. ASSUME NEW flag, NEW lib, NEW d, BulkRerender(flag, lib, d) PROVE answer'.by = "bulk"
  BY <1>2 DEF BulkRerender, Silent
<1>3. ASSUME NEW i, Rerender(i) PROVE answer'.by = "rerender"
  BY <1>3 DEF Rerender, Silent
<1>4. FullPass => answer'.by = "full pass"
  BY DEF FullPass, Silent
<1>5. Backfill => answer'.by = "backfill"
  BY DEF Backfill
<1>6. ASSUME NEW q \in Rows, RebuildRow(q)
      PROVE  \E rs \in SUBSET Rows : Rebuild(rs) /\ \A r \in rs : InScope(r)
  BY <1>6 DEF RebuildRow
<1>7. ASSUME NEW flag, NEW lib, NEW d, RebuildFilter(flag, lib, d)
      PROVE  \E rs \in SUBSET Rows : Rebuild(rs) /\ \A r \in rs : InScope(r)
  BY <1>7 DEF RebuildFilter, Queue
<1>8. \/ Backfill
      \/ \E rs \in SUBSET Rows : Rebuild(rs) /\ \A r \in rs : InScope(r)
      \/ \E flag, lib, d : BulkRerender(flag, lib, d)
      \/ \E i : Rerender(i)
      \/ FullPass
  BY <1>6, <1>7 DEF Next, vars, DismissRead, DismissWrite, Undismiss,
         Claim, Pass, GiveUp, Due, Retry, Settings
<1> QED
  BY <1>1, <1>2, <1>3, <1>4, <1>5, <1>8

\* What a batch press queues is an item of a row in scope.
LEMMA PressIsInScope ==
  ASSUME JobsTyped, NEW rs \in SUBSET Rows, NEW items, items \subseteq {Item[r] : r \in rs},
         \A r \in rs : InScope(r), EnqueueBatch(items),
         NEW k \in Keys, NEW n \in DOMAIN jobs'[k] \ DOMAIN jobs[k]
  PROVE  Library[jobs'[k][n].item] \notin config.excluded
<1>1. items \in SUBSET Items
  BY DEF Items
<1>2. jobs'[k][n].item \in items
  BY <1>1, BatchKeeps
<1> QED
  BY <1>2 DEF InScope, LibOf

\* A press clears no fingerprint without a job behind it, stays in its scope,
\* and mints nothing over a failure that waits for the operator
\* (rebuild_action, backfill_trigger, _scope, _parked_by_latest_job).
THEOREM PressesAreSafe == Spec => ActionCenterSteps
<1>1. IInv /\ [Next]_vars =>
        [\A r \in Rows : (row[r].fp /\ ~row'[r].fp) =>
            Has(KeyOf(r), {"pending", "deferred"})']_vars
  BY ClearIsQueued DEF Alive
<1>2. IInv /\ [Next]_vars =>
        [answer' # answer =>
           /\ answer'.by \in {"backfill", "rebuild", "bulk"} =>
                \A k \in Keys : \A n \in DOMAIN jobs'[k] \ DOMAIN jobs[k] :
                   Library[jobs'[k][n].item] \notin config.excluded
           /\ answer'.by = "backfill" =>
                \A r \in Rows : row'[r] # row[r] => ~Hidden(r) /\ InScope(r)]_vars
  <2> SUFFICES ASSUME IInv, [Next]_vars, answer' # answer
               PROVE  /\ answer'.by \in {"backfill", "rebuild", "bulk"} =>
                           \A k \in Keys : \A n \in DOMAIN jobs'[k] \ DOMAIN jobs[k] :
                              Library[jobs'[k][n].item] \notin config.excluded
                      /\ answer'.by = "backfill" =>
                           \A r \in Rows : row'[r] # row[r] => ~Hidden(r) /\ InScope(r)
    OBVIOUS
  <2>0. JobsTyped /\ RowsTyped
    BY DEF IInv
  <2>1. CASE answer'.by = "backfill"
    <3>1. Backfill
      BY <2>1, WhoAnswers
    <3>2. \A r \in Rows : row'[r] # row[r] => ~Hidden(r) /\ InScope(r)
      BY <2>0, <3>1, BackfillBatchIs, ClearedKeeps DEF Backfill
    <3>3. ASSUME NEW k \in Keys, NEW n \in DOMAIN jobs'[k] \ DOMAIN jobs[k]
          PROVE  Library[jobs'[k][n].item] \notin config.excluded
      BY <2>0, <3>1, <3>3, BackfillBatchIs, PressIsInScope DEF Backfill
    <3> QED
      BY <3>2, <3>3
  <2>2. CASE answer'.by = "rebuild"
    <3>1. PICK rs \in SUBSET Rows : Rebuild(rs) /\ \A r \in rs : InScope(r)
      BY <2>2, WhoAnswers
    <3>2. RebuildBatch(rs) \in SUBSET Rows /\ RebuildBatch(rs) \subseteq rs
      BY FirstIsPart DEF RebuildBatch
    <3>3. ASSUME NEW k \in Keys, NEW n \in DOMAIN jobs'[k] \ DOMAIN jobs[k]
          PROVE  Library[jobs'[k][n].item] \notin config.excluded
      BY <2>0, <3>1, <3>2, <3>3, PressIsInScope DEF Rebuild
    <3> QED
      BY <2>2, <3>3
  <2>3. CASE answer'.by = "bulk"
    <3>1. PICK flag, lib, d : BulkRerender(flag, lib, d)
      BY <2>3, WhoAnswers
    <3> DEFINE rs == Queue(flag, lib, d)
               items == First({Item[r] : r \in rs}, Batch)
    <3>2. rs \in SUBSET Rows /\ (\A r \in rs : InScope(r)) /\ items \subseteq {Item[r] : r \in rs}
      BY FirstIsPart DEF Queue
    <3>3. EnqueueBatch(items)
      BY <3>1 DEF BulkRerender
    <3> HIDE DEF rs, items
    <3>4. ASSUME NEW k \in Keys, NEW n \in DOMAIN jobs'[k] \ DOMAIN jobs[k]
          PROVE  Library[jobs'[k][n].item] \notin config.excluded
      BY <2>0, <3>2, <3>3, <3>4, PressIsInScope
    <3> QED
      BY <2>3, <3>4
  <2> QED
    BY <2>1, <2>2, <2>3
<1>3. IInv /\ [Next]_vars =>
        [(answer' # answer /\ answer'.by = "backfill") =>
           \A k \in Keys : (jobs[k] # <<>> /\ Last(jobs[k]).state = "parked")
                            => jobs'[k] = jobs[k]]_vars
  <2> SUFFICES ASSUME IInv, [Next]_vars, answer' # answer, answer'.by = "backfill",
                      NEW k \in Keys, ParkedByLatest(k)
               PROVE  jobs'[k] = jobs[k]
    BY DEF ParkedByLatest
  <2> DEFINE items == {Item[r] : r \in BackfillBatch}
  <2>1. Backfill
    BY WhoAnswers
  <2>2. items \in SUBSET Items /\ EnqueueBatch(items)
    BY <2>1, BackfillBatchIs DEF Backfill, Items
  <2>3. k \notin Enqueued(items)
    BY BackfillBatchIs DEF Enqueued, KeyOf
  <2> HIDE DEF items
  <2> QED
    BY <2>2, <2>3, BatchKeeps DEF IInv
<1> QED
  BY <1>1, <1>2, <1>3, JobsAndFacts, PTL
     DEF Spec, ActionCenterSteps, ClearsAreQueued, PressesStayInScope, FailuresAreKept

(***************************************************************************)
(* Artwork: the inductive invariant                                        *)
(***************************************************************************)
\* The stages of a pass that holds the rows: with a source, and with
\* everything that was put off read.
AfterDraw == {"publish", "stage", "fill", "replace", "record"}
Settled == {"compose"} \cup AfterDraw
AfterSource == {"logo", "compare", "fetch"} \cup Settled
Working == {"source"} \cup AfterSource

PassParts ==
  {"pc", "cfg", "title", "src", "base", "local", "deferred", "fallback", "suppressStyling", "logo", "logoUrl",
   "logoFirst", "logoDeferred", "suppressText", "fp", "picture", "handle"}

\* A function on these arguments.
Over(f, S) == f = [x \in S |-> f[x]]

IsPass(p) == Over(p, PassParts)

\* A pass at another stage, with a fingerprint, with its picture, with the
\* staging copy open or closed.
Put(p, s) == [p EXCEPT !.pc = s]
Printed(p, x, s) == [p EXCEPT !.fp = x, !.pc = s]
Drawn(p, x) == [p EXCEPT !.pc = "publish", !.picture = x]
Holding(p, s, h) == [p EXCEPT !.pc = s, !.handle = h]

\* What the records are made of.
Shapes ==
  /\ kind \in Kinds /\ world \in Worlds /\ cfg \in DOMAIN ArtworkConfigs
  /\ Over(mount, {"base", "logo"})
  /\ Over(render, {"fp", "status", "src", "base", "logoUrl", "logo", "adopted", "mode"})
  /\ Over(ghost, {"moved", "dirty", "torn", "swapped", "spoilt", "promised", "latest"})
  /\ Over(pass, Workers) /\ Over(press, Requests)
  /\ \A w \in Workers : IsPass(pass[w]) /\ pass[w].cfg \in DOMAIN ArtworkConfigs
  /\ \A r \in Requests : Over(press[r], {"pc", "what"})

\* The rows are held by the one pass between its first upsert and its end,
\* which found them as they are and knows nothing before it looked.
LockHolds ==
  /\ locked \in Workers \cup {"free"}
  /\ \A w \in Workers : pass[w].pc \in {"idle", "start"} \cup Working
  /\ \A w \in Workers : pass[w].pc \in Working <=> locked = w
  /\ \A w \in Workers : pass[w].pc \in {"start", "source"} =>
        pass[w] = Put(Begun(pass[w].cfg, pass[w].title), pass[w].pc)

\* What a pass has put on disk so far.
StageOf(w) ==
  /\ pass[w].handle = IF pass[w].pc = "fill" THEN "staging" ELSE "closed"
  /\ pass[w].pc = "replace" => staging = pass[w].picture
  /\ pass[w].pc = "record" => asset = pass[w].picture \/ asset = NoFile
  /\ pass[w].pc \in AfterDraw =>
        /\ pass[w].picture.ver # 0 /\ pass[w].picture.base = pass[w].base
        /\ ~ghost.swapped => pass[w].picture = Depicted(pass[w].fp)

StageHolds == \A w \in Workers : StageOf(w)

\* The fingerprint in hand is that of what is drawn.
PrintOf(w) ==
  LET p == pass[w]
      c == ArtworkConfigs[p.cfg]
  IN  /\ p.pc \in {"start", "source", "logo"} => p.logo = None /\ p.logoUrl = None /\ ~p.logoDeferred
      /\ p.logoUrl # None => p.logo # None
      /\ p.logoDeferred => p.logoFirst \in LogoUrls
      /\ p.pc \in Settled =>
            /\ ~p.deferred /\ ~p.logoDeferred
            /\ p.fp.ver = c.ver /\ p.fp.base = p.base /\ p.fp.logo = p.logo
            /\ ~ghost.swapped => p.fp = ComputeFingerprint(c, p, HasLogo(p))

PrintHolds == \A w \in Workers : PrintOf(w)

\* The row remembers what its fingerprint was taken from.
RowHolds ==
  /\ render.status \in {"new", "rendered", "skipped", "no_art", "failed", "truncated"}
  /\ render.mode \in {"generate", "show_fallback", "plex_generated"}
  /\ render.logoUrl = None <=> render.logo = None
  /\ render.fp # NoFingerprint =>
        render.base = render.fp.base /\ (render.logo # None => render.fp.logo = render.logo)

\* A backup is a picture that was replaced, or is about to be.
BackupHolds ==
  ~ghost.spoilt =>
     /\ asset = NoFile => backup = NoFile
     /\ \A w \in Workers : pass[w].pc \in {"stage", "fill", "replace"} =>
           (backup = NoFile \/ backup = asset) /\ pass[w].picture # asset
     /\ (\A w \in Workers : pass[w].pc \notin {"stage", "fill", "replace"}) =>
           backup = NoFile \/ backup # asset

\* The fallback a pass will record is that of its source.
ModeHolds ==
  /\ ModeTellsTheSource
  /\ \A w \in Workers : pass[w].pc \in AfterSource =>
        /\ pass[w].fallback \in {None, "show_fallback", "plex_generated"}
        /\ pass[w].fallback = "show_fallback" <=> pass[w].src \in ShowUrls
        /\ pass[w].fallback = "plex_generated" => pass[w].src = "plex"

\* No pass, and no row a later pass might trust, is left from before the pick.
Shows(b) == asset # NoFile => asset.base = b

PickStands(b) ==
  /\ mount.base = b
  /\ \A w \in Workers : pass[w].pc \in AfterSource => pass[w].base = b /\ ~pass[w].deferred
  /\ render.fp # NoFingerprint => render.fp.base = b /\ ~render.adopted /\ Shows(b)

PickHolds ==
  /\ \A r \in Requests : ghost.latest = r =>
        /\ press[r].pc \in {"installed", "cleared"}
        /\ press[r].what # None /\ mount.base = press[r].what
        /\ press[r].pc = "cleared" => PickStands(press[r].what)
  /\ ghost.promised # None =>
        /\ PickStands(ghost.promised)
        /\ Shows(ghost.promised) \/ render.status # "rendered" \/ queued \/ \E w \in Workers : pass[w].pc # "idle"

\* What a pass begun now would come to.
Current == ArtworkConfigs[cfg]
Begins == Begun(cfg, world.title)
Finds == Sourced(Current, Begins)
Comes == Logoed(Current, Finds)
Yields == Completed(Current, Comes)

Matches(w) == pass[w].cfg = cfg /\ pass[w].title = world.title

\* A pass under which nothing has moved is on the way a pass begun now would go.
OnItsWay(w) ==
  /\ Matches(w)
  /\ pass[w].pc \in {"source", "logo", "compare"} => ~Skips(Current, Begins) /\ ~StillAdopted(Current, Begins)
  /\ pass[w].pc = "logo" => pass[w] = Put(Finds, "logo")
  /\ pass[w].pc = "compare" => pass[w] = Put(Comes, "compare")
  /\ pass[w].pc = "fetch" => pass[w] = Printed(Comes, pass[w].fp, "fetch") /\ ghost.moved
  /\ pass[w].pc \in Settled =>
        /\ ghost.moved
        /\ pass[w].src = Yields.src /\ pass[w].base = Yields.base
        /\ pass[w].logoUrl = Yields.logoUrl /\ pass[w].logo = Yields.logo
        /\ pass[w].fp = ComputeFingerprint(Current, Yields, HasLogo(Yields))
  /\ pass[w].pc = "record" => asset # NoFile

WayHolds ==
  \A w \in Workers : locked = w =>
     /\ ~ghost.moved /\ Matches(w) => ~ghost.dirty
     /\ ~ghost.dirty => OnItsWay(w)

\* While nothing has moved since a pass finished, a pass begun now draws nothing.
Steady == render.fp = ComputeFingerprint(Current, Comes, HasLogo(Comes)) /\ asset # NoFile

SteadyHolds ==
  ~ghost.moved /\ (\A w \in Workers : pass[w].pc # "record") =>
     Skips(Current, Begins) \/ StillAdopted(Current, Begins) \/ Steady

ArtworkInv ==
  /\ Shapes
  /\ LockHolds
  /\ StageHolds
  /\ PrintHolds
  /\ RowHolds
  /\ FileIsWhatTheRowSays
  /\ NoHalfWrittenAsset
  /\ BackupHolds
  /\ ModeHolds
  /\ PickHolds
  /\ WayHolds
  /\ SteadyHolds

(***************************************************************************)
(* Artwork: what the operators of a pass keep                              *)
(***************************************************************************)
LEMMA BegunIs ==
  ASSUME NEW i, NEW t
  PROVE  /\ IsPass(Begun(i, t))
         /\ Begun(i, t).pc = "idle" /\ Begun(i, t).cfg = i /\ Begun(i, t).title = t
         /\ Begun(i, t).logo = None /\ Begun(i, t).logoUrl = None /\ ~Begun(i, t).logoDeferred
         /\ ~Begun(i, t).suppressText /\ ~Begun(i, t).suppressStyling /\ ~Begun(i, t).local
         /\ ~Begun(i, t).deferred /\ Begun(i, t).fallback = None /\ Begun(i, t).src = None
         /\ Begun(i, t).base = None
         /\ Begun(i, t).handle = "closed" /\ Begun(i, t).picture = NoFile /\ Begun(i, t).fp = NoFingerprint
<1>1. IsPass(Idle)
  BY DEF Idle, IsPass, Over, PassParts
<1>2. \A p : IsPass(p) => IsPass([p EXCEPT !.cfg = i, !.title = t])
  BY DEF IsPass, Over, PassParts
<1>3. IsPass(Begun(i, t))
  BY <1>1, <1>2 DEF Begun
<1>4. /\ Begun(i, t).pc = "idle" /\ Begun(i, t).cfg = i /\ Begun(i, t).title = t
      /\ Begun(i, t).logo = None /\ Begun(i, t).logoUrl = None
      /\ Begun(i, t).fallback = None /\ Begun(i, t).src = None
      /\ Begun(i, t).base = None
      /\ Begun(i, t).handle = "closed" /\ Begun(i, t).picture = NoFile /\ Begun(i, t).fp = NoFingerprint
  BY DEF Begun, Idle
<1>5. /\ ~Begun(i, t).logoDeferred
      /\ ~Begun(i, t).suppressText /\ ~Begun(i, t).suppressStyling /\ ~Begun(i, t).local
      /\ ~Begun(i, t).deferred
  BY DEF Begun, Idle
<1> QED
  BY <1>3, <1>4, <1>5

\* The ladder answers with a pass.
LEMMA SourcedShape == ASSUME NEW c, NEW p, IsPass(p) PROVE IsPass(Sourced(c, p))
BY DEF Sourced, FromProvider, IsPass, Over, PassParts

\* The ladder decides only the source: stage, title, logo and print are kept.
LEMMA SourcedKeeps ==
  ASSUME NEW c, NEW p, IsPass(p)
  PROVE  LET q == Sourced(c, p)
         IN  /\ q.pc = p.pc /\ q.cfg = p.cfg /\ q.title = p.title /\ q.handle = p.handle /\ q.picture = p.picture
             /\ q.logo = p.logo /\ q.logoUrl = p.logoUrl /\ q.logoDeferred = p.logoDeferred
             /\ q.logoFirst = p.logoFirst /\ q.suppressText = p.suppressText /\ q.fp = p.fp
BY DEF Sourced, FromProvider, IsPass, Over, PassParts

\* A logo walk answers with a pass.
LEMMA WalkedShape == ASSUME NEW c, NEW p, NEW walk, IsPass(p) PROVE IsPass(Walked(c, p, walk))
<1> DEFINE b == walk.url = None /\ ~c.logoTextFallback
<1>1. Walked(c, p, walk) = [p EXCEPT !.logo = walk.bytes, !.logoUrl = walk.url, !.logoDeferred = FALSE, !.suppressText = b]
  BY DEF Walked
<1> HIDE DEF b
<1> QED
  BY <1>1 DEF IsPass, Over, PassParts

\* A logo walk decides only the logo and the text.
LEMMA WalkedKeeps ==
  ASSUME NEW c, NEW p, NEW walk, IsPass(p)
  PROVE  LET q == Walked(c, p, walk)
         IN  /\ q.pc = p.pc /\ q.cfg = p.cfg /\ q.title = p.title /\ q.handle = p.handle /\ q.picture = p.picture
             /\ q.src = p.src /\ q.base = p.base /\ q.local = p.local /\ q.deferred = p.deferred
             /\ q.fallback = p.fallback /\ q.suppressStyling = p.suppressStyling /\ q.fp = p.fp
             /\ q.logoFirst = p.logoFirst /\ ~q.logoDeferred
<1> DEFINE b == walk.url = None /\ ~c.logoTextFallback
<1>1. Walked(c, p, walk) = [p EXCEPT !.logo = walk.bytes, !.logoUrl = walk.url, !.logoDeferred = FALSE, !.suppressText = b]
  BY DEF Walked
<1> HIDE DEF b
<1> QED
  BY <1>1 DEF b, IsPass, Over, PassParts

\* What a logo walk takes: its bytes, its URL, and no text when there is neither.
LEMMA WalkedTakes ==
  ASSUME NEW c, NEW p, NEW walk, IsPass(p)
  PROVE  /\ Walked(c, p, walk).logo = walk.bytes /\ Walked(c, p, walk).logoUrl = walk.url
         /\ Walked(c, p, walk).suppressText <=> walk.url = None /\ ~c.logoTextFallback
<1> DEFINE b == walk.url = None /\ ~c.logoTextFallback
<1>1. Walked(c, p, walk) = [p EXCEPT !.logo = walk.bytes, !.logoUrl = walk.url, !.logoDeferred = FALSE, !.suppressText = b]
  BY DEF Walked
<1> HIDE DEF b
<1> QED
  BY <1>1 DEF b, IsPass, Over, PassParts

\* The logo ladder answers with a pass.
LEMMA LogoedShape == ASSUME NEW c, NEW p, IsPass(p) PROVE IsPass(Logoed(c, p))
<1>1. IsPass([p EXCEPT !.logoFirst = FirstLogo(c)])
  BY DEF IsPass, Over, PassParts
<1>2. IsPass([p EXCEPT !.logo = PickedLogo])
      /\ IsPass([p EXCEPT !.logo = render.logo, !.logoUrl = FirstLogo(c), !.logoFirst = FirstLogo(c), !.logoDeferred = TRUE])
  BY DEF IsPass, Over, PassParts
<1> QED
  BY <1>1, <1>2, WalkedShape DEF Logoed

\* The logo ladder leaves the source alone.
LEMMA LogoedKeeps ==
  ASSUME NEW c, NEW p, IsPass(p)
  PROVE  LET q == Logoed(c, p)
         IN  /\ q.pc = p.pc /\ q.cfg = p.cfg /\ q.title = p.title /\ q.handle = p.handle /\ q.picture = p.picture
             /\ q.src = p.src /\ q.base = p.base /\ q.local = p.local /\ q.deferred = p.deferred
             /\ q.fallback = p.fallback /\ q.suppressStyling = p.suppressStyling /\ q.fp = p.fp
<1> DEFINE p1 == [p EXCEPT !.logoFirst = FirstLogo(c)]
           walk == LogoWalk(world, c.logoOrder, FirstLogo(c))
<1>1. /\ IsPass(p1)
      /\ p1.pc = p.pc /\ p1.cfg = p.cfg /\ p1.title = p.title /\ p1.handle = p.handle /\ p1.picture = p.picture
      /\ p1.src = p.src /\ p1.base = p.base /\ p1.local = p.local /\ p1.deferred = p.deferred
      /\ p1.fallback = p.fallback /\ p1.suppressStyling = p.suppressStyling /\ p1.fp = p.fp
  BY DEF IsPass, Over, PassParts
<1>3. CASE kind # "poster" \/ ~c.useLogo
  BY <1>3 DEF Logoed
<1>4. CASE kind = "poster" /\ c.useLogo /\ PickedLogo # None
  BY <1>4 DEF Logoed, IsPass, Over, PassParts
<1>5. CASE kind = "poster" /\ c.useLogo /\ PickedLogo = None /\ c.offline
  BY <1>5 DEF Logoed
<1>6. CASE kind = "poster" /\ c.useLogo /\ PickedLogo = None /\ ~c.offline /\ LogoIsKnown(FirstLogo(c))
  BY <1>6 DEF Logoed, IsPass, Over, PassParts
<1>7. CASE kind = "poster" /\ c.useLogo /\ PickedLogo = None /\ ~c.offline /\ ~LogoIsKnown(FirstLogo(c))
  <2>1. Logoed(c, p) = Walked(c, p1, walk)
    BY <1>7 DEF Logoed
  <2> HIDE DEF p1, walk
  <2> QED
    BY <2>1, <1>1, WalkedKeeps
<1> QED
  BY <1>3, <1>4, <1>5, <1>6, <1>7

\* Reading what was put off answers with a pass.
LEMMA CompletedShape == ASSUME NEW c, NEW p, IsPass(p) PROVE IsPass(Completed(c, p))
<1>1. \A q, b : IsPass(q) => IsPass([q EXCEPT !.base = b, !.deferred = FALSE])
  BY DEF IsPass, Over, PassParts
<1> QED
  BY <1>1, WalkedShape DEF Completed

\* Reading what was put off changes the bytes, never the source.
LEMMA CompletedKeeps ==
  ASSUME NEW c, NEW p, IsPass(p)
  PROVE  LET q == Completed(c, p)
         IN  /\ q.pc = p.pc /\ q.cfg = p.cfg /\ q.title = p.title /\ q.handle = p.handle /\ q.picture = p.picture
             /\ q.src = p.src /\ q.local = p.local /\ ~q.deferred /\ (~p.logoDeferred \/ ~q.logoDeferred)
             /\ q.fallback = p.fallback /\ q.suppressStyling = p.suppressStyling /\ q.fp = p.fp
             /\ q.base = IF p.deferred THEN Fetched(world, p.src) ELSE p.base
<1> DEFINE walk == LogoWalk(world, c.logoOrder, p.logoFirst)
           W == Walked(c, p, walk)
           r == IF p.logoDeferred THEN W ELSE p
           b == IF p.deferred THEN Fetched(world, p.src) ELSE p.base
<1>1. /\ IsPass(W)
      /\ W.pc = p.pc /\ W.cfg = p.cfg /\ W.title = p.title /\ W.handle = p.handle /\ W.picture = p.picture
      /\ W.src = p.src /\ W.base = p.base /\ W.local = p.local /\ W.deferred = p.deferred
      /\ W.fallback = p.fallback /\ W.suppressStyling = p.suppressStyling /\ W.fp = p.fp /\ ~W.logoDeferred
  <2> HIDE DEF walk
  <2> QED BY WalkedKeeps, WalkedShape
<1> HIDE DEF W
<1>2. /\ IsPass(r)
      /\ r.pc = p.pc /\ r.cfg = p.cfg /\ r.title = p.title /\ r.handle = p.handle /\ r.picture = p.picture
      /\ r.src = p.src /\ r.local = p.local /\ (~p.logoDeferred \/ ~r.logoDeferred)
      /\ r.fallback = p.fallback /\ r.suppressStyling = p.suppressStyling /\ r.fp = p.fp
  BY <1>1
<1>3. Completed(c, p) = [r EXCEPT !.base = b, !.deferred = FALSE]
  BY DEF Completed, W
<1> HIDE DEF r, b
<1> QED
  BY <1>2, <1>3 DEF IsPass, Over, PassParts, b

(***************************************************************************)
(* Artwork: the ladder answers with what it was offered                    *)
(***************************************************************************)
\* A nonempty set has a member of least rank.
LEMMA LeastMember ==
  ASSUME NEW S, S # {}, NEW f, \A x \in S : f[x] \in Nat
  PROVE  \E x \in S : \A y \in S : f[x] <= f[y]
<1> DEFINE T == {f[x] : x \in S}
<1>1. T \subseteq Nat /\ T # {}
  OBVIOUS
<1>2. \E n \in T : \A m \in T : ~(<<m, n>> \in OpToRel(<, Nat))
  BY <1>1, NatLessThanWellFounded, WFMin
<1>3. PICK n \in T : \A m \in T : ~(<<m, n>> \in OpToRel(<, Nat))
  BY <1>2
<1>4. ASSUME NEW m \in T PROVE n <= m
  <2>1. m \in Nat /\ n \in Nat /\ ~(<<m, n>> \in OpToRel(<, Nat))
    BY <1>1, <1>3
  <2>2. m < n => <<m, n>> \in OpToRel(<, Nat)
    BY <2>1 DEF OpToRel
  <2>3. m \in Nat /\ n \in Nat /\ ~(m < n)
    BY <2>1, <2>2, Zenon
  <2> QED
    BY ONLY <2>3
<1> QED
  BY <1>4

\* A language has a rank, listed or not.
LEMMA RankIsNat ==
  ASSUME NEW url, NEW order \in Seq(STRING)
  PROVE  LanguageRank(url, order) \in Nat
BY DEF LanguageRank, Listed, Position, Unranked

Urls == ShowUrls \cup OwnUrls \cup LogoUrls

\* best_candidate is one of the candidates in a wanted language.
LEMMA BestIsUsable ==
  ASSUME NEW urls, urls \subseteq Urls, NEW order \in Seq(STRING), Usable(urls, order) # {}
  PROVE  BestCandidate(urls, order) \in urls
<1> DEFINE S == Usable(urls, order)
           f == [u \in S |-> LanguageRank(u, order)]
           A == {u \in S : \A v \in S : f[u] <= f[v]}
           g == [u \in A |-> IF Catalogue[u].textless THEN 0 ELSE 1]
           B == {u \in A : \A v \in A : g[u] <= g[v]}
           h == [u \in B |-> TopScore - Catalogue[u].score]
<1>0. S \subseteq urls
  BY DEF Usable
<1>1. A # {} /\ \A u \in S : f[u] \in Nat
  BY RankIsNat, LeastMember
<1>2. B # {} /\ \A u \in A : g[u] \in Nat
  <2>1. \A u \in A : g[u] \in Nat
    OBVIOUS
  <2> HIDE DEF g, A
  <2> QED
    BY <1>1, <2>1, LeastMember
<1>3. \A u \in B : h[u] \in Nat
  <2>1. \A u \in B : Catalogue[u].score \in 0..TopScore
    BY <1>0, ArtworkUrlsAssumption DEF Urls
  <2> QED
    <3>1. \A u \in B : TopScore - Catalogue[u].score \in Nat
      <4> HIDE DEF B
      <4> QED BY <2>1 DEF TopScore
    <3> HIDE DEF B
    <3> QED
      BY <3>1
<1>4. PICK u \in B : \A v \in B : h[u] <= h[v]
  BY <1>2, <1>3, LeastMember
<1>5. u \in S /\ \A v \in S \ {u} : ~Before(v, u, order)
  <2>1. ASSUME NEW v \in S, f[v] < f[u] PROVE FALSE
    BY <2>1, <1>1
  <2>2. ASSUME NEW v \in S, f[v] = f[u], g[v] < g[u] PROVE FALSE
    <3>1. v \in A
      BY <1>1, <2>2
    <3> QED
      <4>1. g[u] <= g[v] /\ g[u] \in Nat /\ g[v] \in Nat
        BY <3>1, <1>2
      <4> HIDE DEF g
      <4> QED BY <4>1, <2>2
  <2>3. ASSUME NEW v \in S, f[v] = f[u], g[v] = g[u], h[v] < h[u] PROVE FALSE
    <3>1. v \in A
      BY <1>1, <2>3
    <3>2. v \in B
      BY <1>2, <2>3, <3>1
    <3> QED
      <4>1. h[u] <= h[v] /\ h[u] \in Nat /\ h[v] \in Nat
        BY <3>2, <1>3, <1>4
      <4> HIDE DEF h
      <4> QED BY <4>1, <2>3
  <2>4. ASSUME NEW v \in S \ {u}, Before(v, u, order) PROVE FALSE
    <3> DEFINE k(x) == <<LanguageRank(x, order), IF Catalogue[x].textless THEN 0 ELSE 1, TopScore - Catalogue[x].score>>
    <3>1. \/ f[v] < f[u]
          \/ f[v] = f[u] /\ k(v)[2] < k(u)[2]
          \/ f[v] = f[u] /\ k(v)[2] = k(u)[2] /\ k(v)[3] < k(u)[3]
      BY <2>4 DEF Before
    <3>2. f[v] = f[u] => v \in A
      BY <1>1
    <3>3. f[v] = f[u] => k(v)[2] = g[v] /\ k(u)[2] = g[u]
      BY <3>2
    <3>4. f[v] = f[u] /\ k(v)[2] = k(u)[2] => v \in B
      BY <3>2, <3>3, <1>2
    <3>5. f[v] = f[u] /\ k(v)[2] = k(u)[2] => k(v)[3] = h[v] /\ k(u)[3] = h[u]
      BY <3>4
    <3> HIDE DEF k, f, g, h
    <3> QED
      BY <3>1, <3>3, <3>5, <2>1, <2>2, <2>3
  <2> QED
    BY <2>4
<1> HIDE DEF S
<1>6. \E x \in S : \A v \in S \ {x} : ~Before(v, x, order)
  BY <1>5
<1>7. BestCandidate(urls, order) = CHOOSE x \in S : \A v \in S \ {x} : ~Before(v, x, order)
  BY DEF BestCandidate, S
<1> QED
  BY <1>0, <1>6, <1>7

\* select_artwork's answer was offered, or is nothing.
LEMMA SelectedIsOffered ==
  ASSUME NEW offers, NEW down, NEW order \in Seq(STRING), NEW excluded,
         NEW Offered, Offered \subseteq Urls,
         \A i \in DOMAIN Providers : offers[Providers[i]] \subseteq Offered
  PROVE  SelectArtwork(offers, down, order, excluded).url \in Offered \cup {None}
<1> DEFINE answers == {i \in DOMAIN Providers :
                       /\ Providers[i] \notin down
                       /\ Usable(offers[Providers[i]] \ excluded, order) # {}}
           best(i) == BestCandidate(offers[Providers[i]] \ excluded, order)
           taken == {i \in answers : ~PrefersTextless(order) \/ Catalogue[best(i)].textless}
           first(S) == CHOOSE i \in S : \A j \in S : i <= j
<1>1. ASSUME NEW S, S # {}, S \subseteq answers PROVE first(S) \in S
  <2>1. S \subseteq Nat
    BY <1>1, ArtworkUrlsAssumption
  <2>2. \E i \in S : \A j \in S : [x \in S |-> x][i] <= [x \in S |-> x][j]
    <3> DEFINE f == [x \in S |-> x]
    <3>1. \A x \in S : f[x] \in Nat
      BY <2>1
    <3> HIDE DEF f
    <3> QED
      BY <3>1, <1>1, LeastMember DEF f
  <2>3. \E i \in S : \A j \in S : i <= j
    BY <2>2
  <2> QED
    BY <2>3
<1>2. ASSUME NEW i \in answers PROVE best(i) \in Offered
  <2>1. offers[Providers[i]] \ excluded \subseteq Urls /\ Usable(offers[Providers[i]] \ excluded, order) # {}
    OBVIOUS
  <2>2. best(i) \in offers[Providers[i]] \ excluded
    BY <2>1, BestIsUsable
  <2> QED
    BY <2>2
<1>3. taken \subseteq answers
  OBVIOUS
<1>4. SelectArtwork(offers, down, order, excluded).url =
        IF taken # {} THEN best(first(taken))
        ELSE IF answers # {} /\ ~TextlessOnly(order) THEN best(first(answers)) ELSE None
  BY DEF SelectArtwork
<1> HIDE DEF answers, best, taken, first
<1> QED
  BY <1>1, <1>2, <1>3, <1>4

\* Each rung's answer is one of the URLs of its kind.
LEMMA RungsAnswer ==
  ASSUME NEW i \in DOMAIN ArtworkConfigs, world \in Worlds
  PROVE  LET c == ArtworkConfigs[i]
         IN  /\ OwnUrl(c) \in OwnUrls \cup {None}
             /\ ShowUrl(c) \in ShowUrls \cup {None}
             /\ FirstLogo(c) \in LogoUrls \cup {None}
             /\ \A tried : SelectArtwork(world.logos, world.down, c.logoOrder, tried).url \in LogoUrls \cup {None}
<1>1. /\ ArtworkConfigs[i].order \in Seq(STRING) /\ ArtworkConfigs[i].logoOrder \in Seq(STRING)
      /\ OwnUrls \subseteq Urls /\ ShowUrls \subseteq Urls /\ LogoUrls \subseteq Urls
      /\ \A j \in DOMAIN Providers : /\ world.offers[Providers[j]] \subseteq OwnUrls
                                     /\ world.show[Providers[j]] \subseteq ShowUrls
                                     /\ world.logos[Providers[j]] \subseteq LogoUrls
  BY ArtworkConfigsAssumption DEF OwnUrls, ShowUrls, LogoUrls, Urls
<1> HIDE DEF OwnUrls, ShowUrls, LogoUrls
<1> QED
  BY <1>1, SelectedIsOffered DEF OwnUrl, ShowUrl, FirstLogo

\* A walk that took a logo has its bytes, and one that took none has none.
LEMMA WalkAnswers ==
  ASSUME NEW i \in DOMAIN ArtworkConfigs, world \in Worlds, NEW first \in LogoUrls \cup {None}
  PROVE  LET walk == LogoWalk(world, ArtworkConfigs[i].logoOrder, first)
         IN  walk.url = None <=> walk.bytes = None
<1> DEFINE order == ArtworkConfigs[i].logoOrder
           Good(st) == /\ st = [f \in {"n", "first", "tried", "done", "url", "bytes"} |-> st[f]]
                       /\ st.first = first
                       /\ (st.url = None <=> st.bytes = None)
<1>1. Good(LogoStart(first))
  BY DEF LogoStart
<1>2. ASSUME NEW st, Good(st) PROVE Good(LogoStep(world, order, st))
  <2> DEFINE url == IF st.n = 0 THEN st.first ELSE SelectArtwork(world.logos, world.down, order, st.tried).url
             next == [st EXCEPT !.n = @ + 1, !.tried = @ \cup {url}]
  <2>1. url \in LogoUrls \cup {None} /\ (url # None => Fetched(world, url) # None)
    BY <1>2, RungsAnswer, ArtworkUrlsAssumption DEF Fetched
  <2>2. LogoStep(world, order, st) \in
          {st, [st EXCEPT !.done = TRUE], next} \cup
          (IF url = None THEN {} ELSE {[next EXCEPT !.done = TRUE, !.url = url, !.bytes = Fetched(world, url)]})
    BY DEF LogoStep
  <2> HIDE DEF url
  <2>3. Good([st EXCEPT !.done = TRUE])
    BY <1>2
  <2>4. Good(next)
    BY <1>2
  <2>5. url # None => Good([next EXCEPT !.done = TRUE, !.url = url, !.bytes = Fetched(world, url)])
    BY <2>1, <2>4
  <2> HIDE DEF Good, next
  <2> QED
    BY <1>2, <2>2, <2>3, <2>4, <2>5
<1>3. Good(LogoWalk(world, order, first))
  <2> HIDE DEF Good
  <2> QED
    BY <1>1, <1>2 DEF LogoWalk
<1> QED
  BY <1>3

(***************************************************************************)
(* Artwork: what a step of a pass does to the passes                       *)
(***************************************************************************)
\* Every other pass stays where it is; a finished one is as it was before.
LEMMA IdleIs ==
  /\ IsPass(Idle) /\ Idle.pc = "idle" /\ Idle.handle = "closed" /\ Idle.cfg = 1
  /\ Idle.logo = None /\ Idle.logoUrl = None /\ ~Idle.logoDeferred /\ ~Idle.deferred
  /\ Idle.src = None /\ Idle.base = None /\ ~Idle.local
BY DEF Idle, IsPass, Over, PassParts

\* One pass set, the others as they were.
LEMMA SetPass ==
  ASSUME Shapes, NEW w \in Workers, NEW q, IsPass(q), q.cfg \in DOMAIN ArtworkConfigs,
         pass' = [pass EXCEPT ![w] = q]
  PROVE  /\ Over(pass, Workers)'
         /\ \A v \in Workers : IsPass(pass'[v]) /\ pass'[v].cfg \in DOMAIN ArtworkConfigs
         /\ pass'[w] = q /\ \A v \in Workers \ {w} : pass'[v] = pass[v]
BY DEF Shapes, Over

\* A pass at another stage is the same otherwise.
LEMMA StageIs ==
  ASSUME NEW p, IsPass(p), NEW s
  PROVE  LET q == Put(p, s)
         IN  /\ IsPass(q)
             /\ q.pc = s /\ q.cfg = p.cfg /\ q.title = p.title /\ q.src = p.src /\ q.base = p.base
             /\ q.local = p.local /\ q.deferred = p.deferred /\ q.fallback = p.fallback /\ q.suppressStyling = p.suppressStyling /\ q.logo = p.logo
             /\ q.logoUrl = p.logoUrl /\ q.logoFirst = p.logoFirst /\ q.logoDeferred = p.logoDeferred /\ q.suppressText = p.suppressText /\ q.fp = p.fp
             /\ q.picture = p.picture /\ q.handle = p.handle
BY DEF Put, IsPass, Over, PassParts

\* A pass with a fingerprint is the same otherwise.
LEMMA PrintedIs ==
  ASSUME NEW p, IsPass(p), NEW x, NEW s
  PROVE  LET q == Printed(p, x, s)
         IN  /\ IsPass(q)
             /\ q.pc = s /\ q.cfg = p.cfg /\ q.title = p.title /\ q.src = p.src /\ q.base = p.base
             /\ q.local = p.local /\ q.deferred = p.deferred /\ q.fallback = p.fallback /\ q.suppressStyling = p.suppressStyling /\ q.logo = p.logo
             /\ q.logoUrl = p.logoUrl /\ q.logoFirst = p.logoFirst /\ q.logoDeferred = p.logoDeferred /\ q.suppressText = p.suppressText /\ q.fp = x
             /\ q.picture = p.picture /\ q.handle = p.handle
BY DEF Printed, IsPass, Over, PassParts

\* A pass with a picture is the same otherwise.
LEMMA DrawnIs ==
  ASSUME NEW p, IsPass(p), NEW x
  PROVE  LET q == Drawn(p, x)
         IN  /\ IsPass(q)
             /\ q.pc = "publish" /\ q.cfg = p.cfg /\ q.title = p.title /\ q.src = p.src /\ q.base = p.base
             /\ q.local = p.local /\ q.deferred = p.deferred /\ q.fallback = p.fallback /\ q.suppressStyling = p.suppressStyling /\ q.logo = p.logo
             /\ q.logoUrl = p.logoUrl /\ q.logoFirst = p.logoFirst /\ q.logoDeferred = p.logoDeferred /\ q.suppressText = p.suppressText /\ q.fp = p.fp
             /\ q.picture = x /\ q.handle = p.handle
BY DEF Drawn, IsPass, Over, PassParts

\* A pass that opens or closes the staging copy is the same otherwise.
LEMMA HoldingIs ==
  ASSUME NEW p, IsPass(p), NEW s, NEW h
  PROVE  LET q == Holding(p, s, h)
         IN  /\ IsPass(q)
             /\ q.pc = s /\ q.cfg = p.cfg /\ q.title = p.title /\ q.src = p.src /\ q.base = p.base
             /\ q.local = p.local /\ q.deferred = p.deferred /\ q.fallback = p.fallback /\ q.suppressStyling = p.suppressStyling /\ q.logo = p.logo
             /\ q.logoUrl = p.logoUrl /\ q.logoFirst = p.logoFirst /\ q.logoDeferred = p.logoDeferred /\ q.suppressText = p.suppressText /\ q.fp = p.fp
             /\ q.picture = p.picture /\ q.handle = h
BY DEF Holding, IsPass, Over, PassParts

\* The passes after a step of one of them.
OthersStay(w) ==
  /\ Over(pass, Workers)'
  /\ \A v \in Workers : IsPass(pass'[v]) /\ pass'[v].cfg \in DOMAIN ArtworkConfigs
  /\ \A v \in Workers \ {w} : pass'[v] = pass[v]

\* A transaction that ends leaves its pass idle and the row free.
LEMMA FinishIs ==
  ASSUME Shapes, NEW w \in Workers, NEW columns, Finish(w, columns)
  PROVE  OthersStay(w) /\ pass'[w] = Idle /\ render' = columns /\ locked' = "free"
BY SetPass, IdleIs, ArtworkConfigsAssumption DEF Finish, OthersStay

\* A claimed job is a pass that knows its configuration and title.
LEMMA ClaimIs ==
  ASSUME Shapes, NEW w \in Workers, ClaimItem(w)
  PROVE  OthersStay(w) /\ pass'[w] = Put(Begun(cfg, world.title), "start")
<1> DEFINE q == Put(Begun(cfg, world.title), "start")
<1>1. IsPass(q) /\ q.cfg = cfg
  BY BegunIs, StageIs
<1>2. cfg \in DOMAIN ArtworkConfigs
  BY DEF Shapes
<1>3. pass' = [pass EXCEPT ![w] = q]
  BY DEF ClaimItem, Put
<1> HIDE DEF q
<1>4. OthersStay(w) /\ pass'[w] = q
  BY <1>1, <1>2, <1>3, SetPass DEF OthersStay
<1> QED
  BY <1>4 DEF q

\* The first upsert ends the pass or takes the row.
LEMMA StartIs ==
  ASSUME Shapes, NEW w \in Workers, Start(w)
  PROVE  /\ OthersStay(w)
         /\ \/ locked' = "free" /\ pass'[w] = Idle
            \/ locked' = w /\ pass'[w] = Put(pass[w], "source") /\ render' = render
<1> DEFINE p == pass[w]
           c == ArtworkConfigs[p.cfg]
<1>1. CASE \E columns : Finish(w, columns)
  BY <1>1, FinishIs
<1>2. CASE ~\E columns : Finish(w, columns)
  <2>1. locked' = w /\ pass' = [pass EXCEPT ![w].pc = "source"] /\ render' = render
    BY <1>2 DEF Start
  <2>2. pass' = [pass EXCEPT ![w] = Put(pass[w], "source")]
    BY <2>1 DEF Put
  <2>3. IsPass(Put(pass[w], "source")) /\ Put(pass[w], "source").cfg \in DOMAIN ArtworkConfigs
    <3>1. IsPass(pass[w]) /\ pass[w].cfg \in DOMAIN ArtworkConfigs
      BY DEF Shapes
    <3> QED
      BY <3>1, StageIs
  <2> QED
    BY <2>1, <2>2, <2>3, SetPass DEF OthersStay
<1> QED
  BY <1>1, <1>2

\* The source rung ends the pass or hands it a source that was read.
LEMMA SourceIs ==
  ASSUME Shapes, NEW w \in Workers, Source(w)
  PROVE  LET q == Sourced(ArtworkConfigs[pass[w].cfg], pass[w])
         IN  /\ OthersStay(w) /\ IsPass(q) /\ q.cfg = pass[w].cfg
             /\ \/ locked' = "free" /\ pass'[w] = Idle
                \/ /\ q.src # None /\ ~Unreadable(q)
                   /\ pass'[w] = Put(q, "logo") /\ UNCHANGED <<render, locked>>
<1> DEFINE q == Sourced(ArtworkConfigs[pass[w].cfg], pass[w])
<1>1. IsPass(pass[w]) /\ pass[w].cfg \in DOMAIN ArtworkConfigs
  BY DEF Shapes
<1>2. IsPass(q) /\ q.cfg = pass[w].cfg
  BY <1>1, SourcedShape, SourcedKeeps
<1> HIDE DEF q
<1>3. IsPass(Put(q, "logo")) /\ Put(q, "logo").cfg \in DOMAIN ArtworkConfigs
  BY <1>1, <1>2, StageIs
<1>4. CASE \E columns : Finish(w, columns)
  BY <1>2, <1>4, FinishIs DEF q
<1>5. CASE ~\E columns : Finish(w, columns)
  <2>1. q.src # None /\ ~Unreadable(q) /\ pass' = [pass EXCEPT ![w] = Put(q, "logo")] /\ UNCHANGED <<render, locked>>
    BY <1>5 DEF Source, q, Abandon, Put
  <2> QED
    BY <2>1, <1>2, <1>3, SetPass DEF OthersStay, q
<1> QED
  BY <1>4, <1>5

\* The logo rung ends the pass in an error or hands it a logo.
LEMMA LogoIs ==
  ASSUME Shapes, NEW w \in Workers, Logo(w)
  PROVE  LET q == Logoed(ArtworkConfigs[pass[w].cfg], pass[w])
         IN  /\ OthersStay(w) /\ IsPass(q) /\ q.cfg = pass[w].cfg
             /\ \/ locked' = "free" /\ pass'[w] = Idle /\ render' = render /\ queued' = TRUE
                \/ pass'[w] = Put(q, "compare") /\ UNCHANGED <<render, locked, queued>>
<1> DEFINE q == Logoed(ArtworkConfigs[pass[w].cfg], pass[w])
<1>1. IsPass(pass[w]) /\ pass[w].cfg \in DOMAIN ArtworkConfigs
  BY DEF Shapes
<1>2. IsPass(q) /\ q.cfg = pass[w].cfg
  BY <1>1, LogoedShape, LogoedKeeps
<1> HIDE DEF q
<1>3. IsPass(Put(q, "compare")) /\ Put(q, "compare").cfg \in DOMAIN ArtworkConfigs
  BY <1>1, <1>2, StageIs
<1>4. CASE q.logo = Failing
  <2>1. Finish(w, render) /\ queued' = TRUE
    BY <1>4 DEF Logo, q, Abandon
  <2> QED
    BY <1>2, <2>1, FinishIs DEF q
<1>5. CASE q.logo # Failing
  <2>1. pass' = [pass EXCEPT ![w] = Put(q, "compare")] /\ UNCHANGED <<render, locked, queued>>
    BY <1>5 DEF Logo, q, Put
  <2> QED
    BY <2>1, <1>2, <1>3, SetPass DEF OthersStay, q
<1> QED
  BY <1>4, <1>5

\* The fingerprint ends the pass, or is kept for what is drawn.
LEMMA CompareIs ==
  ASSUME Shapes, NEW w \in Workers, Compare(w)
  PROVE  LET p == pass[w]
             fp == ComputeFingerprint(ArtworkConfigs[p.cfg], p, HasLogo(p))
             s == IF p.deferred \/ p.logoDeferred THEN "fetch" ELSE "compose"
         IN  /\ OthersStay(w)
             /\ \/ Unchanged(fp) /\ RecordUnchanged(w, p) /\ locked' = "free" /\ pass'[w] = Idle
                \/ /\ ~Unchanged(fp) /\ UNCHANGED <<render, locked, ghost>>
                   /\ pass'[w] = Printed(p, fp, s)
<1> DEFINE p == pass[w]
           fp == ComputeFingerprint(ArtworkConfigs[p.cfg], p, HasLogo(p))
           s == IF p.deferred \/ p.logoDeferred THEN "fetch" ELSE "compose"
           q == Printed(p, fp, s)
<1>1. CASE Unchanged(fp)
  <2>1. RecordUnchanged(w, p)
    BY <1>1 DEF Compare
  <2> QED
    BY <1>1, <2>1, FinishIs DEF RecordUnchanged
<1>2. CASE ~Unchanged(fp)
  <2>1. pass' = [pass EXCEPT ![w] = Printed(p, fp, s)] /\ UNCHANGED <<render, locked, ghost>>
    BY <1>2 DEF Compare, Printed
  <2> HIDE DEF fp, s
  <2>2. IsPass(q) /\ q.cfg \in DOMAIN ArtworkConfigs
    <3>1. IsPass(p) /\ p.cfg \in DOMAIN ArtworkConfigs
      BY DEF Shapes
    <3> QED
      BY <3>1, PrintedIs
  <2> HIDE DEF q
  <2>3. pass'[w] = q /\ OthersStay(w)
    BY <2>1, <2>2, SetPass DEF OthersStay, q
  <2> QED
    BY <1>2, <2>1, <2>3 DEF q, fp, s
<1> QED
  BY <1>1, <1>2

\* The bytes that were put off end the pass, or are in hand.
LEMMA FetchIs ==
  ASSUME Shapes, NEW w \in Workers, Fetch(w)
  PROVE  LET c == ArtworkConfigs[pass[w].cfg]
             q == Completed(c, pass[w])
             fp == ComputeFingerprint(c, q, HasLogo(q))
         IN  /\ OthersStay(w) /\ IsPass(q) /\ q.cfg = pass[w].cfg
             /\ \/ \E refused \in BOOLEAN : Abandon(w, refused) /\ locked' = "free" /\ pass'[w] = Idle
                \/ /\ Unchanged(fp) /\ RecordUnchanged(w, q) /\ locked' = "free" /\ pass'[w] = Idle
                   /\ UNCHANGED <<asset, backup, staging, queued>>
                \/ /\ ~Unchanged(fp) /\ UNCHANGED <<render, locked, ghost, asset, backup, staging, queued>>
                   /\ pass'[w] = Printed(q, fp, "compose")
<1> DEFINE c == ArtworkConfigs[pass[w].cfg]
           q == Completed(c, pass[w])
           fp == ComputeFingerprint(c, q, HasLogo(q))
           z == Printed(q, fp, "compose")
<1>1. IsPass(pass[w]) /\ pass[w].cfg \in DOMAIN ArtworkConfigs
  BY DEF Shapes
<1>2. IsPass(q) /\ q.cfg = pass[w].cfg
  BY <1>1, CompletedShape, CompletedKeeps
<1>3. \/ \E refused \in BOOLEAN : Abandon(w, refused)
      \/ Unchanged(fp) /\ RecordUnchanged(w, q) /\ UNCHANGED <<asset, backup, staging, queued>>
      \/ ~Unchanged(fp) /\ pass' = [pass EXCEPT ![w] = z] /\ UNCHANGED <<render, locked, ghost, asset, backup, staging, queued>>
  BY DEF Fetch, Printed
<1> HIDE DEF q
<1>4. CASE \E refused \in BOOLEAN : Abandon(w, refused)
  BY <1>2, <1>4, FinishIs DEF Abandon, q
<1>5. CASE Unchanged(fp) /\ RecordUnchanged(w, q) /\ UNCHANGED <<asset, backup, staging, queued>>
  <2>1. OthersStay(w) /\ locked' = "free" /\ pass'[w] = Idle
    BY <1>5, FinishIs DEF RecordUnchanged
  <2> QED
    BY <1>2, <1>5, <2>1 DEF q
<1>6. CASE ~Unchanged(fp) /\ pass' = [pass EXCEPT ![w] = z] /\ UNCHANGED <<render, locked, ghost, asset, backup, staging, queued>>
  <2> HIDE DEF fp
  <2>1. IsPass(z) /\ z.cfg \in DOMAIN ArtworkConfigs
    BY <1>1, <1>2, PrintedIs
  <2> HIDE DEF z
  <2>2. OthersStay(w) /\ pass'[w] = z
    BY <1>6, <2>1, SetPass DEF OthersStay
  <2> QED
    BY <1>2, <1>6, <2>2 DEF q, fp, z
<1> QED
  BY <1>3, <1>4, <1>5, <1>6

\* A picture that does not fit ends the pass; another is in hand.
LEMMA ComposeIs ==
  ASSUME Shapes, NEW w \in Workers, Compose(w)
  PROVE  /\ OthersStay(w)
         /\ \/ Finish(w, [render EXCEPT !.status = "truncated"]) /\ locked' = "free" /\ pass'[w] = Idle
            \/ /\ UNCHANGED <<render, locked>>
               /\ pass'[w] = Drawn(pass[w], Composed(ArtworkConfigs[pass[w].cfg], pass[w]))
<1> DEFINE picture == Composed(ArtworkConfigs[pass[w].cfg], pass[w])
           q == Drawn(pass[w], picture)
<1>1. CASE Finish(w, [render EXCEPT !.status = "truncated"])
  BY <1>1, FinishIs
<1>2. CASE UNCHANGED <<render, locked>> /\ pass' = [pass EXCEPT ![w] = q]
  <2> HIDE DEF picture
  <2>1. IsPass(pass[w]) /\ pass[w].cfg \in DOMAIN ArtworkConfigs
    BY DEF Shapes
  <2>2. IsPass(q) /\ q.cfg \in DOMAIN ArtworkConfigs
    BY <2>1, DrawnIs
  <2> HIDE DEF q
  <2>3. pass'[w] = q /\ OthersStay(w)
    BY <1>2, <2>2, SetPass DEF OthersStay
  <2> QED
    BY <1>2, <2>3 DEF q, picture
<1> QED
  BY <1>1, <1>2 DEF Compose, Drawn

\* The same bytes are not staged again.
LEMMA PublishIs ==
  ASSUME Shapes, NEW w \in Workers, Publish(w)
  PROVE  /\ OthersStay(w)
         /\ pass'[w] = Put(pass[w], IF SameBytes(pass[w]) THEN "record" ELSE "stage")
<1> DEFINE s == IF SameBytes(pass[w]) THEN "record" ELSE "stage"
<1>1. pass' = [pass EXCEPT ![w] = Put(pass[w], s)]
  BY DEF Publish, Put
<1> HIDE DEF s
<1>2. IsPass(pass[w]) /\ pass[w].cfg \in DOMAIN ArtworkConfigs
  BY DEF Shapes
<1>3. IsPass(Put(pass[w], s)) /\ Put(pass[w], s).cfg \in DOMAIN ArtworkConfigs
  BY <1>2, StageIs
<1>4. OthersStay(w) /\ pass'[w] = Put(pass[w], s)
  BY <1>1, <1>3, SetPass DEF OthersStay
<1> QED
  BY <1>4 DEF s

\* The staging copy is opened by the pass that fills it.
LEMMA OpenStagingIs ==
  ASSUME Shapes, NEW w \in Workers, OpenStaging(w)
  PROVE  OthersStay(w) /\ pass'[w] = Holding(pass[w], "fill", "staging")
<1> DEFINE q == Holding(pass[w], "fill", "staging")
<1>1. pass' = [pass EXCEPT ![w] = q]
  BY DEF OpenStaging, Shapes, Over, Holding
<1>2. IsPass(pass[w]) /\ pass[w].cfg \in DOMAIN ArtworkConfigs
  BY DEF Shapes
<1>3. IsPass(q) /\ q.cfg \in DOMAIN ArtworkConfigs
  BY <1>2, HoldingIs
<1> HIDE DEF q
<1>4. OthersStay(w) /\ pass'[w] = q
  BY <1>1, <1>3, SetPass DEF OthersStay
<1> QED
  BY <1>4 DEF q

\* The staging copy is filled and closed.
LEMMA FillStagingIs ==
  ASSUME Shapes, NEW w \in Workers, FillStaging(w)
  PROVE  OthersStay(w) /\ pass'[w] = Holding(pass[w], "replace", "closed")
<1> DEFINE q == Holding(pass[w], "replace", "closed")
<1>1. pass' = [pass EXCEPT ![w] = q]
  BY DEF FillStaging, Shapes, Over, Holding
<1>2. IsPass(pass[w]) /\ pass[w].cfg \in DOMAIN ArtworkConfigs
  BY DEF Shapes
<1>3. IsPass(q) /\ q.cfg \in DOMAIN ArtworkConfigs
  BY <1>2, HoldingIs
<1> HIDE DEF q
<1>4. OthersStay(w) /\ pass'[w] = q
  BY <1>1, <1>3, SetPass DEF OthersStay
<1> QED
  BY <1>4 DEF q

\* The copy is there when it is renamed, and nobody else has it open.
LEMMA ReplaceIs ==
  ASSUME Shapes, LockHolds, StageHolds, NEW w \in Workers, Replace(w)
  PROVE  /\ OthersStay(w) /\ pass'[w] = Put(pass[w], "record")
         /\ asset' = pass[w].picture /\ staging' = NoFile
         /\ UNCHANGED <<Kept, render, locked, backup, queued, ghost>>
<1>1. staging = pass[w].picture /\ pass[w].picture.ver # 0
  BY DEF StageHolds, StageOf, Replace, AfterDraw
<1>2. staging # NoFile
  BY <1>1 DEF NoFile
<1>3. IsPass(pass[w]) /\ pass[w].cfg \in DOMAIN ArtworkConfigs
  BY DEF Shapes
<1>4. IsPass(Put(pass[w], "record")) /\ Put(pass[w], "record").cfg \in DOMAIN ArtworkConfigs
  BY <1>3, StageIs
<1>5. \A v \in Workers \ {w} : pass[v].handle # "staging"
  BY DEF StageHolds, StageOf, LockHolds, Replace, Working, AfterSource, Settled, AfterDraw
<1>6. pass' = [v \in Workers |-> IF v = w THEN [pass[v] EXCEPT !.pc = "record"] ELSE pass[v]]
      /\ asset' = staging /\ staging' = NoFile /\ UNCHANGED <<Kept, render, locked, backup, queued, ghost>>
  BY <1>2, <1>5 DEF Replace
<1>7. pass' = [pass EXCEPT ![w] = Put(pass[w], "record")]
  BY <1>6 DEF Shapes, Over, Put
<1> QED
  BY <1>1, <1>4, <1>6, <1>7, SetPass DEF OthersStay

\* What the row says once it is written.
Written(p) ==
  [fp |-> p.fp, status |-> "rendered", src |-> p.src, base |-> p.base, logoUrl |-> p.logoUrl,
   logo |-> StoredLogo(p), adopted |-> FALSE, mode |-> Mode(p)]

\* The row is written whole, and the pass ends.
LEMMA RecordIs ==
  ASSUME Shapes, NEW w \in Workers, Record(w)
  PROVE  OthersStay(w) /\ pass'[w] = Idle /\ locked' = "free" /\ render' = Written(pass[w])
BY FinishIs DEF Record, Written

\* No pass changes what it is given; a step of one ends it or moves it on.
LEMMA PassIs ==
  ASSUME Shapes, LockHolds, StageHolds, NEW w \in Workers, RenderPass(w)
  PROVE  OthersStay(w) /\ UNCHANGED Kept
<1>1. OthersStay(w)
  BY ClaimIs, StartIs, SourceIs, LogoIs, CompareIs, FetchIs, ComposeIs, PublishIs, OpenStagingIs, FillStagingIs,
     ReplaceIs, RecordIs DEF RenderPass
<1>2. UNCHANGED Kept
  BY ReplaceIs DEF RenderPass, Kept, ClaimItem, Start, Source, Logo, Compare, Fetch, Compose, Publish, OpenStaging, FillStaging,
                   Record, Abandon
<1> QED
  BY <1>1, <1>2


(***************************************************************************)
(* Artwork: the shapes and the lock                                        *)
(***************************************************************************)
\* A step that is no pass's leaves the passes, their files and the lock; a
\* crash ends every pass.
Outside ==
  \/ \E r \in Requests : Request(r)
  \/ Enqueue \/ WorldMoves \/ ConfigMoves \/ AssetLost

\* What is outside leaves the passes, their files and the lock alone.
LEMMA OutsideIs ==
  ASSUME Outside
  PROVE  UNCHANGED <<kind, pass, locked, backup, staging>>
BY DEF Outside, Request, InstallBase, InstallLogo, ClearStaleLogoOverrides, ClearManualOverride, ClearFingerprints,
       EnqueueReprocess, ReprocessItem, Enqueue, WorldMoves, ConfigMoves, AssetLost

RowParts == {"fp", "status", "src", "base", "logoUrl", "logo", "adopted", "mode"}
GhostParts == {"moved", "dirty", "torn", "swapped", "spoilt", "promised", "latest"}

\* A pass writes rows and history of the same shape.
LEMMA PassShapes ==
  ASSUME Shapes, LockHolds, StageHolds, NEW w \in Workers, RenderPass(w)
  PROVE  Over(render, RowParts)' /\ Over(ghost, GhostParts)'
<1>0. Over(render, RowParts) /\ Over(ghost, GhostParts)
  BY DEF Shapes, RowParts, GhostParts
<1>1. CASE UNCHANGED <<render, ghost>>
  BY <1>0, <1>1 DEF Over
<1>2. CASE ClaimItem(w) \/ Publish(w) \/ OpenStaging(w) \/ FillStaging(w) \/ Replace(w)
  BY <1>2, <1>1, ReplaceIs DEF ClaimItem, Publish, OpenStaging, FillStaging
<1>3. CASE Start(w)
  BY <1>0, <1>3 DEF Start, Finish, Over, RowParts, GhostParts
<1>4. CASE Source(w) \/ Logo(w)
  BY <1>0, <1>4 DEF Source, Logo, Abandon, Finish, Over, RowParts, GhostParts
<1>5. CASE Compare(w)
  <2>1. UNCHANGED <<render, ghost>> \/ RecordUnchanged(w, pass[w])
    BY <1>5 DEF Compare
  <2> QED
    BY <1>0, <2>1 DEF RecordUnchanged, Finish, Over, RowParts, GhostParts
<1>6. CASE Fetch(w)
  <2>1. \/ UNCHANGED <<render, ghost>>
        \/ \E refused \in BOOLEAN : Abandon(w, refused)
        \/ \E q : RecordUnchanged(w, q)
    BY <1>6 DEF Fetch
  <2> QED
    BY <1>0, <2>1 DEF Abandon, RecordUnchanged, Finish, Over, RowParts, GhostParts
<1>7. CASE Compose(w)
  BY <1>0, <1>7 DEF Compose, Finish, Over, RowParts, GhostParts
<1>8. CASE Record(w)
  BY <1>0, <1>8 DEF Record, Finish, Over, RowParts, GhostParts
<1> QED
  BY <1>2, <1>3, <1>4, <1>5, <1>6, <1>7, <1>8 DEF RenderPass

\* So does what is outside, with the mount and the requests.
LEMMA OutsideShapes ==
  ASSUME Shapes, Outside
  PROVE  /\ world' \in Worlds /\ cfg' \in DOMAIN ArtworkConfigs
         /\ Over(mount, {"base", "logo"})' /\ Over(render, RowParts)' /\ Over(ghost, GhostParts)'
         /\ Over(press, Requests)' /\ \A r \in Requests : Over(press[r], {"pc", "what"})'
<1>0. /\ world \in Worlds /\ cfg \in DOMAIN ArtworkConfigs /\ kind \in Kinds
      /\ Over(mount, {"base", "logo"}) /\ Over(render, RowParts) /\ Over(ghost, GhostParts)
      /\ Over(press, Requests) /\ \A r \in Requests : Over(press[r], {"pc", "what"})
  BY DEF Shapes, RowParts, GhostParts
<1>a. \A g : Over(g, GhostParts) => Over([g EXCEPT !.moved = TRUE, !.dirty = TRUE], GhostParts)
  BY DEF Over, GhostParts
<1>b. Over(Touched, GhostParts)
  BY <1>0, <1>a DEF Touched
<1>c. \A g, x, y : Over(g, GhostParts) => Over([g EXCEPT !.promised = x, !.latest = y], GhostParts)
  BY DEF Over, GhostParts
<1>d. \A r \in Requests : \A x : press' = [press EXCEPT ![r] = x] /\ Over(x, {"pc", "what"}) =>
         Over(press, Requests)' /\ \A s \in Requests : Over(press[s], {"pc", "what"})'
  BY <1>0 DEF Over
<1>e. \A x, y : Over([pc |-> x, what |-> y], {"pc", "what"})
  BY DEF Over
<1>1. ASSUME NEW r \in Requests, NEW b \in Uploads, InstallBase(r, b)
      PROVE  Over(mount, {"base", "logo"})' /\ Over(press, Requests)' /\ (\A s \in Requests : Over(press[s], {"pc", "what"})')
             /\ Over(ghost, GhostParts)'
  <2>1. Over(mount, {"base", "logo"})'
    BY <1>0, <1>1 DEF InstallBase, Over
  <2>2. Over(press, Requests)' /\ (\A s \in Requests : Over(press[s], {"pc", "what"})')
    BY <1>1, <1>d, <1>e DEF InstallBase
  <2>3. Over(ghost, GhostParts)'
    BY <1>1, <1>b, <1>c DEF InstallBase
  <2> QED BY <2>1, <2>2, <2>3
<1>2. ASSUME NEW r \in Requests, NEW s, NEW b, InstallLogo(r, s, b)
      PROVE  Over(mount, {"base", "logo"})' /\ Over(press, Requests)' /\ (\A t \in Requests : Over(press[t], {"pc", "what"})')
             /\ Over(ghost, GhostParts)'
  <2>1. Over(mount, {"base", "logo"})'
    BY <1>0, <1>2 DEF InstallLogo, Over
  <2>2. Over(press, Requests)' /\ (\A t \in Requests : Over(press[t], {"pc", "what"})')
    BY <1>2, <1>d, <1>e DEF InstallLogo
  <2>3. Over(ghost, GhostParts)'
    BY <1>2, <1>b DEF InstallLogo
  <2> QED BY <2>1, <2>2, <2>3
<1>3. ASSUME NEW r \in Requests, ClearStaleLogoOverrides(r)
      PROVE  Over(mount, {"base", "logo"})' /\ Over(press, Requests)' /\ (\A t \in Requests : Over(press[t], {"pc", "what"})')
             /\ Over(ghost, GhostParts)'
  <2>1. Over(mount, {"base", "logo"})'
    BY <1>0, <1>3 DEF ClearStaleLogoOverrides, Over
  <2>2. Over(press, Requests)' /\ (\A t \in Requests : Over(press[t], {"pc", "what"})')
    BY <1>3, <1>d, <1>e DEF ClearStaleLogoOverrides, NoPress
  <2>3. Over(ghost, GhostParts)'
    BY <1>0, <1>3, <1>b DEF ClearStaleLogoOverrides, Over
  <2> QED BY <2>1, <2>2, <2>3
<1>4. ASSUME NEW r \in Requests, ClearManualOverride(r)
      PROVE  Over(mount, {"base", "logo"})' /\ Over(press, Requests)' /\ (\A t \in Requests : Over(press[t], {"pc", "what"})')
             /\ Over(ghost, GhostParts)'
  <2>1. Over(mount, {"base", "logo"})'
    BY <1>0, <1>4 DEF ClearManualOverride, Over
  <2>2. Over(press, Requests)' /\ (\A t \in Requests : Over(press[t], {"pc", "what"})')
    BY <1>4, <1>d, <1>e DEF ClearManualOverride
  <2>3. Over(ghost, GhostParts)'
    BY <1>4, <1>b, <1>c DEF ClearManualOverride
  <2> QED BY <2>1, <2>2, <2>3
<1>5. ASSUME NEW r \in Requests, ClearFingerprints(r)
      PROVE  Over(press, Requests)' /\ (\A t \in Requests : Over(press[t], {"pc", "what"})')
             /\ Over(ghost, GhostParts)' /\ Over(render, RowParts)'
  <2>1. press' = [press EXCEPT ![r] = [press[r] EXCEPT !.pc = "cleared"]]
    BY <1>5 DEF ClearFingerprints
  <2>2. Over([press[r] EXCEPT !.pc = "cleared"], {"pc", "what"})
    BY <1>0 DEF Over
  <2>3. Over(press, Requests)' /\ (\A t \in Requests : Over(press[t], {"pc", "what"})')
    BY <2>1, <2>2, <1>d
  <2>4. Over(ghost, GhostParts)'
    BY <1>5, <1>b DEF ClearFingerprints
  <2>5. Over(render, RowParts)'
    BY <1>0, <1>5 DEF ClearFingerprints, WithoutFingerprint, Over, RowParts
  <2> QED BY <2>3, <2>4, <2>5
<1>6. ASSUME NEW r \in Requests, EnqueueReprocess(r)
      PROVE  Over(press, Requests)' /\ (\A t \in Requests : Over(press[t], {"pc", "what"})')
             /\ Over(ghost, GhostParts)'
  <2>2. Over(press, Requests)' /\ (\A t \in Requests : Over(press[t], {"pc", "what"})')
    BY <1>6, <1>d, <1>e DEF EnqueueReprocess, NoPress
  <2>3. Over(ghost, GhostParts)'
    BY <1>0, <1>6, <1>c DEF EnqueueReprocess
  <2> QED BY <2>2, <2>3
<1>7. ASSUME NEW r \in Requests, ReprocessItem(r)
      PROVE  Over(ghost, GhostParts)' /\ Over(render, RowParts)'
  <2>4. Over(ghost, GhostParts)'
    BY <1>7, <1>b DEF ReprocessItem
  <2>5. Over(render, RowParts)'
    BY <1>0, <1>7 DEF ReprocessItem, WithoutFingerprint, Over, RowParts
  <2> QED BY <2>4, <2>5
<1>8. CASE \E r \in Requests : Request(r)
  <2>1. PICK r \in Requests : Request(r)
    BY <1>8
  <2>2. CASE \E b \in Uploads : InstallBase(r, b)
    BY <1>0, <1>1, <2>2 DEF InstallBase
  <2>3. CASE \E s \in DOMAIN mount.logo, b \in PickedLogos : InstallLogo(r, s, b)
    BY <1>0, <1>2, <2>3 DEF InstallLogo
  <2>4. CASE ClearStaleLogoOverrides(r)
    BY <1>0, <1>3, <2>4 DEF ClearStaleLogoOverrides
  <2>5. CASE ClearManualOverride(r)
    BY <1>0, <1>4, <2>5 DEF ClearManualOverride
  <2>6. CASE ClearFingerprints(r)
    <3>1. UNCHANGED <<mount, world, cfg>>
      BY <2>6 DEF ClearFingerprints
    <3> QED BY <1>0, <1>5, <2>6, <3>1
  <2>7. CASE EnqueueReprocess(r)
    <3>1. UNCHANGED <<mount, world, cfg, render>>
      BY <2>7 DEF EnqueueReprocess
    <3> QED BY <1>0, <1>6, <2>7, <3>1
  <2>8. CASE ReprocessItem(r)
    <3>1. UNCHANGED <<mount, world, cfg, press>>
      BY <2>8 DEF ReprocessItem
    <3> QED BY <1>0, <1>7, <2>8, <3>1
  <2> QED
    BY <2>1, <2>2, <2>3, <2>4, <2>5, <2>6, <2>7, <2>8 DEF Request
<1>9. CASE Enqueue
  <2>1. UNCHANGED <<world, cfg, mount, render, press, ghost>>
    BY <1>9 DEF Enqueue
  <2> QED BY <1>0, <2>1
<1>10. CASE WorldMoves
  <2>1. world' \in Worlds /\ UNCHANGED <<cfg, mount, render, press>>
    BY <1>0, <1>10, ArtworkWorldsAssumption DEF WorldMoves
  <2>2. Over(ghost, GhostParts)'
    BY <1>10, <1>b DEF WorldMoves, Over, GhostParts
  <2> QED BY <1>0, <2>1, <2>2
<1>11. CASE ConfigMoves
  <2>1. cfg' \in DOMAIN ArtworkConfigs /\ UNCHANGED <<world, mount, render, press>>
    BY <1>11 DEF ConfigMoves
  <2>2. Over(ghost, GhostParts)'
    BY <1>11, <1>b DEF ConfigMoves
  <2> QED BY <1>0, <2>1, <2>2
<1>12. CASE AssetLost
  <2>1. UNCHANGED <<world, cfg, mount, render, press>>
    BY <1>12 DEF AssetLost
  <2>2. Over(ghost, GhostParts)'
    BY <1>12, <1>b DEF AssetLost, Over, GhostParts
  <2> QED BY <1>0, <2>1, <2>2
<1> QED
  BY <1>8, <1>9, <1>10, <1>11, <1>12 DEF Outside

\* A crash ends every pass and every request, and moves nothing else.
LEMMA CrashIs ==
  ASSUME Shapes, Crash
  PROVE  /\ Over(pass, Workers)' /\ \A w \in Workers : pass'[w] = Idle
         /\ Over(press, Requests)' /\ \A r \in Requests : press'[r] = NoPress
         /\ locked' = "free" /\ Over(ghost, GhostParts)'
         /\ UNCHANGED <<kind, world, cfg, mount, render, asset, backup, staging>>
<1>1. Over(ghost, GhostParts)
  BY DEF Shapes, GhostParts
<1>2. Over(ghost, GhostParts)'
  <2> DEFINE t == Touched.torn \/ \E w \in Workers : pass[w].pc \in Publishing
  <2>1. ghost' = [Touched EXCEPT !.spoilt = TRUE, !.latest = None, !.torn = t]
    BY DEF Crash
  <2> HIDE DEF t
  <2> QED
    BY <1>1, <2>1 DEF Touched, Over, GhostParts
<1> QED
  BY <1>2 DEF Crash, Over

\* Every step is a pass's, one from outside, a crash or a stutter.
LEMMA Steps ==
  ASSUME [ArtworkNext]_artworkVars
  PROVE  (\E w \in Workers : RenderPass(w)) \/ Outside \/ Crash \/ UNCHANGED artworkVars
BY DEF ArtworkNext, Outside

\* No step changes what the records are made of.
LEMMA ShapesStand ==
  ASSUME Shapes, LockHolds, StageHolds, [ArtworkNext]_artworkVars
  PROVE  Shapes'
<1>1. ASSUME NEW w \in Workers, RenderPass(w) PROVE Shapes'
  <2>1. OthersStay(w) /\ UNCHANGED Kept
    BY <1>1, PassIs
  <2>2. Over(render, RowParts)' /\ Over(ghost, GhostParts)'
    BY <1>1, PassShapes
  <2> QED
    BY <2>1, <2>2 DEF Shapes, OthersStay, Kept, RowParts, GhostParts
<1>2. CASE Outside
  BY <1>2, OutsideIs, OutsideShapes DEF Shapes, RowParts, GhostParts
<1>3. CASE Crash
  <2>1. \A r \in Requests : Over(press[r], {"pc", "what"})'
    BY <1>3, CrashIs DEF NoPress, Over
  <2> QED
    BY <1>3, <2>1, CrashIs, IdleIs, ArtworkConfigsAssumption DEF Shapes, RowParts, GhostParts
<1>4. CASE UNCHANGED artworkVars
  BY <1>4 DEF Shapes, artworkVars
<1> QED
  BY <1>1, <1>2, <1>3, <1>4, Steps

\* What is outside marks what it moved, and takes no mark away.
LEMMA GhostMoves ==
  ASSUME Shapes, Outside
  PROVE  /\ ghost.moved => ghost'.moved
         /\ ghost.dirty => ghost'.dirty
         /\ ghost.torn => ghost'.torn
         /\ ghost.swapped => ghost'.swapped
         /\ ghost.spoilt => ghost'.spoilt
         /\ UNCHANGED <<world, cfg, mount, render, asset, ghost.moved, ghost.dirty>> \/ (ghost'.moved /\ ghost'.dirty)
         /\ ghost'.swapped \/ world'.overlay = world.overlay
         /\ asset' = asset \/ (asset' = NoFile /\ ghost'.spoilt)
         /\ render' = render \/ render' = WithoutFingerprint
<1>0. Over(ghost, GhostParts)
  BY DEF Shapes, GhostParts
<1> DEFINE Later(g) == /\ ghost.moved => g.moved
                       /\ ghost.dirty => g.dirty
                       /\ ghost.torn => g.torn
                       /\ ghost.swapped => g.swapped
                       /\ ghost.spoilt => g.spoilt
<1>1. Later(ghost)
  OBVIOUS
<1>2. \A x, y : LET g == [Touched EXCEPT !.promised = x, !.latest = y] IN Later(g) /\ g.moved /\ g.dirty
  BY <1>0 DEF Touched, Over, GhostParts
<1>3. Later(Touched) /\ Touched.moved /\ Touched.dirty /\ Over(Touched, GhostParts)
  BY <1>0 DEF Touched, Over, GhostParts
<1>5. CASE \E r \in Requests : (\E b \in Uploads : InstallBase(r, b)) \/ ClearManualOverride(r)
  BY <1>2, <1>5 DEF InstallBase, ClearManualOverride
<1>6. CASE \E r \in Requests : (\E s \in DOMAIN mount.logo, b \in PickedLogos : InstallLogo(r, s, b)) \/ ClearStaleLogoOverrides(r)
  BY <1>1, <1>3, <1>6 DEF InstallLogo, ClearStaleLogoOverrides
<1>7. CASE \E r \in Requests : ClearFingerprints(r) \/ ReprocessItem(r)
  BY <1>3, <1>7 DEF ClearFingerprints, ReprocessItem
<1>8. CASE \E r \in Requests : EnqueueReprocess(r)
  BY <1>0, <1>8 DEF EnqueueReprocess, Over, GhostParts
<1>9. CASE Enqueue
  BY <1>9 DEF Enqueue
<1>10. CASE WorldMoves
  <2>1. ghost' = [Touched EXCEPT !.swapped = @ \/ world'.overlay # world.overlay] /\ UNCHANGED <<asset, render>>
    BY <1>10 DEF WorldMoves
  <2> QED
    BY <1>3, <2>1 DEF Over, GhostParts
<1>11. CASE ConfigMoves
  BY <1>3, <1>11 DEF ConfigMoves
<1>12. CASE AssetLost
  <2>1. ghost' = [Touched EXCEPT !.spoilt = TRUE] /\ UNCHANGED <<world, cfg, mount, render>> /\ asset' = NoFile
    BY <1>12 DEF AssetLost
  <2> QED
    BY <1>3, <2>1 DEF Over, GhostParts
<1> QED
  BY <1>5, <1>6, <1>7, <1>8, <1>9, <1>10, <1>11, <1>12 DEF Outside, Request

\* A pass begins, takes the rows, goes on with them, or ends and lets go.
LEMMA PassGoes ==
  ASSUME Shapes, LockHolds, StageHolds, NEW w \in Workers, RenderPass(w)
  PROVE  /\ OthersStay(w)
         /\ \/ /\ pass[w].pc = "idle" /\ locked' = locked
               /\ pass'[w] = Put(Begun(cfg, world.title), "start")
            \/ /\ pass[w].pc = "start" /\ locked = "free" /\ locked' = w
               /\ pass'[w] = Put(pass[w], "source")
            \/ /\ pass[w].pc \in Working /\ locked' = locked /\ pass'[w].pc \in AfterSource
            \/ /\ (pass[w].pc = "start" /\ locked = "free") \/ (pass[w].pc \in Working /\ locked = w)
               /\ pass'[w] = Idle /\ locked' = "free"
<1> DEFINE Goes == pass[w].pc \in Working /\ locked' = locked /\ pass'[w].pc \in AfterSource
           Stops == /\ (pass[w].pc = "start" /\ locked = "free") \/ (pass[w].pc \in Working /\ locked = w)
                   /\ pass'[w] = Idle /\ locked' = "free"
<1>0. IsPass(pass[w]) /\ (pass[w].pc \in Working => locked = w)
  BY DEF Shapes, LockHolds
<1>a. /\ {"source", "logo", "compare", "fetch", "compose", "publish", "stage", "fill", "replace", "record"} \subseteq Working
      /\ {"logo", "compare", "fetch", "compose", "publish", "stage", "fill", "replace", "record"} \subseteq AfterSource
  BY DEF Working, AfterSource, Settled, AfterDraw
<1>b. \A p, x, s : IsPass(p) => /\ Put(p, s).pc = s /\ Printed(p, x, s).pc = s
                               /\ Drawn(p, x).pc = "publish" /\ Holding(p, s, x).pc = s
  BY StageIs, PrintedIs, DrawnIs, HoldingIs
<1>1. CASE ClaimItem(w)
  <2>1. pass[w].pc = "idle" /\ locked' = locked
    BY <1>1 DEF ClaimItem
  <2> QED
    BY <1>1, <2>1, ClaimIs
<1>2. CASE Start(w)
  <2>1. pass[w].pc = "start" /\ locked = "free"
    BY <1>2 DEF Start, RowIsFree
  <2>2. OthersStay(w)
    BY <1>2, StartIs
  <2>3. \/ locked' = "free" /\ pass'[w] = Idle
        \/ locked' = w /\ pass'[w] = Put(pass[w], "source")
    BY <1>2, StartIs
  <2>4. CASE locked' = "free" /\ pass'[w] = Idle
    <3>1. Stops
      BY <2>1, <2>4
    <3> QED
      BY <2>2, <3>1
  <2>5. CASE locked' = w /\ pass'[w] = Put(pass[w], "source")
    BY <2>1, <2>2, <2>5
  <2> QED
    BY <2>3, <2>4, <2>5
<1>3. CASE Source(w)
  <2>1. pass[w].pc = "source" /\ pass[w].pc \in Working /\ locked = w
    BY <1>0, <1>a, <1>3 DEF Source
  <2>2. OthersStay(w)
    BY <1>3, SourceIs
  <2>3. (locked' = "free" /\ pass'[w] = Idle) \/ (locked' = locked /\ pass'[w].pc \in {"logo"})
    BY <1>3, <1>0, <1>b, SourceIs
  <2> QED
    BY <1>a, <2>1, <2>2, <2>3
<1>4. CASE Logo(w)
  <2>1. pass[w].pc = "logo" /\ pass[w].pc \in Working /\ locked = w
    BY <1>0, <1>a, <1>4 DEF Logo
  <2>2. OthersStay(w)
    BY <1>4, LogoIs
  <2>3. (locked' = "free" /\ pass'[w] = Idle) \/ (locked' = locked /\ pass'[w].pc \in {"compare"})
    <3>1. IsPass(Logoed(ArtworkConfigs[pass[w].cfg], pass[w]))
      BY <1>4, LogoIs
    <3>2. \/ locked' = "free" /\ pass'[w] = Idle
          \/ locked' = locked /\ pass'[w] = Put(Logoed(ArtworkConfigs[pass[w].cfg], pass[w]), "compare")
      BY <1>4, LogoIs
    <3> QED
      BY <1>b, <3>1, <3>2
  <2> QED
    BY <1>a, <2>1, <2>2, <2>3
<1>5. CASE Compare(w)
  <2>1. pass[w].pc = "compare" /\ pass[w].pc \in Working /\ locked = w
    BY <1>0, <1>a, <1>5 DEF Compare
  <2>2. OthersStay(w)
    BY <1>5, CompareIs
  <2>3. (locked' = "free" /\ pass'[w] = Idle) \/ (locked' = locked /\ pass'[w].pc \in {"fetch", "compose"})
    BY <1>5, <1>0, <1>b, CompareIs
  <2> QED
    BY <1>a, <2>1, <2>2, <2>3
<1>6. CASE Fetch(w)
  <2>1. pass[w].pc = "fetch" /\ pass[w].pc \in Working /\ locked = w
    BY <1>0, <1>a, <1>6 DEF Fetch
  <2>2. OthersStay(w)
    BY <1>6, FetchIs
  <2>3. (locked' = "free" /\ pass'[w] = Idle) \/ (locked' = locked /\ pass'[w].pc \in {"compose"})
    BY <1>6, <1>0, <1>b, FetchIs
  <2> QED
    BY <1>a, <2>1, <2>2, <2>3
<1>7. CASE Compose(w)
  <2>1. pass[w].pc = "compose" /\ pass[w].pc \in Working /\ locked = w
    BY <1>0, <1>a, <1>7 DEF Compose
  <2>2. OthersStay(w)
    BY <1>7, ComposeIs
  <2>3. (locked' = "free" /\ pass'[w] = Idle) \/ (locked' = locked /\ pass'[w].pc \in {"publish"})
    BY <1>7, <1>0, <1>b, ComposeIs
  <2> QED
    BY <1>a, <2>1, <2>2, <2>3
<1>8. CASE Publish(w)
  <2>1. pass[w].pc = "publish" /\ pass[w].pc \in Working /\ locked = w
    BY <1>0, <1>a, <1>8 DEF Publish
  <2>2. OthersStay(w)
    BY <1>8, PublishIs
  <2>3. locked' = locked
    BY <1>8 DEF Publish
  <2>4. pass'[w].pc \in {"record", "stage"}
    BY <1>8, <1>0, <1>b, PublishIs
  <2> QED
    BY <1>a, <2>1, <2>2, <2>3, <2>4
<1>9. CASE OpenStaging(w)
  <2>1. pass[w].pc = "stage" /\ pass[w].pc \in Working /\ locked = w
    BY <1>0, <1>a, <1>9 DEF OpenStaging
  <2>2. OthersStay(w)
    BY <1>9, OpenStagingIs
  <2>3. locked' = locked
    BY <1>9 DEF OpenStaging
  <2>4. pass'[w].pc \in {"fill"}
    BY <1>9, <1>0, <1>b, OpenStagingIs
  <2> QED
    BY <1>a, <2>1, <2>2, <2>3, <2>4
<1>10. CASE FillStaging(w)
  <2>1. pass[w].pc = "fill" /\ pass[w].pc \in Working /\ locked = w
    BY <1>0, <1>a, <1>10 DEF FillStaging
  <2>2. OthersStay(w)
    BY <1>10, FillStagingIs
  <2>3. locked' = locked
    BY <1>10 DEF FillStaging
  <2>4. pass'[w].pc \in {"replace"}
    BY <1>10, <1>0, <1>b, FillStagingIs
  <2> QED
    BY <1>a, <2>1, <2>2, <2>3, <2>4
<1>11. CASE Replace(w)
  <2>1. pass[w].pc = "replace" /\ pass[w].pc \in Working /\ locked = w
    BY <1>0, <1>a, <1>11 DEF Replace
  <2>2. OthersStay(w)
    BY <1>11, ReplaceIs
  <2>3. locked' = locked
    BY <1>11, ReplaceIs
  <2>4. pass'[w].pc \in {"record"}
    BY <1>11, <1>0, <1>b, ReplaceIs
  <2> QED
    BY <1>a, <2>1, <2>2, <2>3, <2>4
<1>12. CASE Record(w)
  <2>1. pass[w].pc = "record" /\ pass[w].pc \in Working /\ locked = w
    BY <1>0, <1>a, <1>12 DEF Record
  <2>2. OthersStay(w)
    BY <1>12, RecordIs
  <2>3. Stops
    BY <1>12, <2>1, RecordIs
  <2> QED
    BY <2>2, <2>3
<1> QED
  BY <1>1, <1>2, <1>3, <1>4, <1>5, <1>6, <1>7, <1>8, <1>9, <1>10, <1>11, <1>12 DEF RenderPass

\* The rows go from one pass to nobody before they go to another.
LEMMA LockStands ==
  ASSUME Shapes, LockHolds, StageHolds, [ArtworkNext]_artworkVars
  PROVE  LockHolds'
<1> DEFINE Fresh(p) == p.pc \in {"start", "source"} => p = Put(Begun(p.cfg, p.title), p.pc)
<1>1. ASSUME NEW w \in Workers, RenderPass(w) PROVE LockHolds'
  <2>1. OthersStay(w)
    BY <1>1, PassGoes
  <2>2. Fresh(pass[w]) /\ IsPass(pass[w])
    BY DEF LockHolds, Shapes
  <2>3. CASE pass[w].pc = "idle" /\ locked' = locked /\ pass'[w] = Put(Begun(cfg, world.title), "start")
    <3>1. pass'[w].pc = "start" /\ pass'[w].cfg = cfg /\ pass'[w].title = world.title
      BY <2>3, BegunIs, StageIs
    <3>2. Fresh(pass'[w])
      BY <2>3, <3>1
    <3>3. "start" \notin Working /\ "idle" \notin Working
      BY DEF Working, AfterSource, Settled, AfterDraw
    <3> QED
      BY <2>1, <2>3, <3>1, <3>2, <3>3 DEF LockHolds, OthersStay
  <2>4. CASE pass[w].pc = "start" /\ locked = "free" /\ locked' = w /\ pass'[w] = Put(pass[w], "source")
    <3>1. pass'[w].pc = "source" /\ pass'[w].cfg = pass[w].cfg /\ pass'[w].title = pass[w].title
      BY <2>2, <2>4, StageIs
    <3>2. IsPass(Begun(pass[w].cfg, pass[w].title))
      BY BegunIs
    <3>3. \A p : Put(Put(p, "start"), "source") = Put(p, "source")
      BY DEF Put
    <3>4. Fresh(pass'[w])
      BY <2>2, <2>4, <3>1, <3>3
    <3>5. "source" \in Working /\ \A v \in Workers : pass[v].pc \notin Working
      BY <2>4, ArtworkWorkersAssumption DEF LockHolds, Working
    <3>6. \A v \in Workers \ {w} : /\ pass'[v] = pass[v] /\ pass[v].pc \in {"idle", "start"} \cup Working
                                   /\ Fresh(pass[v]) /\ locked' # v
      BY <2>1, <2>4 DEF LockHolds, OthersStay
    <3> HIDE DEF Fresh
    <3>7. \A v \in Workers : pass'[v].pc \in {"idle", "start"} \cup Working /\ (pass'[v].pc \in Working <=> locked' = v)
      BY <2>4, <3>1, <3>5, <3>6
    <3>8. \A v \in Workers : Fresh(pass'[v])
      BY <3>4, <3>6
    <3> QED
      BY <2>4, <3>7, <3>8 DEF LockHolds, Fresh
  <2>5. CASE pass[w].pc \in Working /\ locked' = locked /\ pass'[w].pc \in AfterSource
    <3>1. Fresh(pass'[w]) /\ pass'[w].pc \in Working
      BY <2>5 DEF Working, AfterSource, Settled, AfterDraw
    <3> QED
      BY <2>1, <2>5, <3>1 DEF LockHolds, OthersStay
  <2>6. CASE /\ (pass[w].pc = "start" /\ locked = "free") \/ (pass[w].pc \in Working /\ locked = w)
             /\ pass'[w] = Idle /\ locked' = "free"
    <3>1. pass'[w].pc = "idle"
      BY <2>6, IdleIs
    <3>2. Fresh(pass'[w]) /\ pass'[w].pc \notin Working
      BY <3>1 DEF Working, AfterSource, Settled, AfterDraw
    <3> QED
      BY <2>1, <2>6, <3>1, <3>2, ArtworkWorkersAssumption DEF LockHolds, OthersStay
  <2> QED
    BY <1>1, <2>3, <2>4, <2>5, <2>6, PassGoes
<1>2. CASE Outside
  BY <1>2, OutsideIs DEF LockHolds
<1>3. CASE Crash
  <2>1. "idle" \notin Working
    BY DEF Working, AfterSource, Settled, AfterDraw
  <2> QED
    BY <1>3, <2>1, CrashIs, IdleIs, ArtworkWorkersAssumption DEF LockHolds
<1>4. CASE UNCHANGED artworkVars
  BY <1>4 DEF LockHolds, artworkVars
<1> QED
  BY <1>1, <1>2, <1>3, <1>4, Steps

(***************************************************************************)
(* Artwork: what a pass has in hand and on disk                            *)
(***************************************************************************)
\* While one pass works, the only step of another is to begin.
LEMMA OneWorks ==
  ASSUME Shapes, LockHolds, StageHolds, NEW w \in Workers, RenderPass(w)
  PROVE  /\ ClaimItem(w) \/ pass[w].pc \in {"start"} \cup Working
         /\ \A v \in Workers \ {w} : ClaimItem(w) \/ pass[v].pc \in {"idle", "start"}
<1>1. ClaimItem(w) \/ pass[w].pc # "idle"
  BY DEF RenderPass, Start, Source, Logo, Compare, Fetch, Compose, Publish, OpenStaging, FillStaging, Replace, Record
<1>2. ClaimItem(w) \/ (pass[w].pc = "start" /\ locked = "free") \/ pass[w].pc \in Working
  BY <1>1, PassGoes
<1> QED
  BY <1>2, ArtworkWorkersAssumption DEF LockHolds

\* A claim moves no file, row or history.
LEMMA ClaimKeeps ==
  ASSUME NEW w \in Workers, ClaimItem(w)
  PROVE  UNCHANGED <<kind, world, cfg, mount, render, locked, asset, backup, staging, press, budget, ghost>>
BY DEF ClaimItem

\* The stages, from the first upsert to the last write.
LEMMA Stages ==
  /\ {"idle", "start"} \cap Working = {}
  /\ AfterDraw \subseteq Settled /\ Settled \subseteq AfterSource /\ AfterSource \subseteq Working
  /\ AfterDraw = {"publish", "stage", "fill", "replace", "record"}
  /\ Settled = {"compose", "publish", "stage", "fill", "replace", "record"}
  /\ AfterSource = {"logo", "compare", "fetch", "compose", "publish", "stage", "fill", "replace", "record"}
  /\ Working = {"source", "logo", "compare", "fetch", "compose", "publish", "stage", "fill", "replace", "record"}
BY DEF Working, AfterSource, Settled, AfterDraw

\* What is drawn with everything read is what its fingerprint stands for.
LEMMA DrawnAsPrinted ==
  ASSUME NEW c, NEW p, ~p.logoDeferred
  PROVE  Composed(c, p) = Depicted(ComputeFingerprint(c, p, HasLogo(p)))
BY DEF Composed, Depicted, ComputeFingerprint, HasLogo

\* A fingerprint's own fields.
LEMMA PrintFields ==
  ASSUME NEW c, NEW p, NEW h
  PROVE  LET fp == ComputeFingerprint(c, p, h)
         IN  fp.ver = c.ver /\ fp.src = p.src /\ fp.base = p.base /\ fp.logo = p.logo
BY DEF ComputeFingerprint

\* A picture has the configuration's version and the base it was drawn on.
LEMMA DrawnFields ==
  ASSUME NEW c, NEW p
  PROVE  Composed(c, p).ver = c.ver /\ Composed(c, p).base = p.base
BY DEF Composed

\* A pass keeps account of what it put on disk.
LEMMA StageOfPass ==
  ASSUME Shapes, LockHolds, StageHolds, PrintHolds, NEW w \in Workers, RenderPass(w)
  PROVE  StageOf(w)'
<1>0. IsPass(pass[w]) /\ pass[w].cfg \in DOMAIN ArtworkConfigs /\ StageOf(w) /\ PrintOf(w)
  BY DEF Shapes, StageHolds, PrintHolds
<1>a. /\ AfterDraw = {"publish", "stage", "fill", "replace", "record"}
      /\ Settled = {"compose", "publish", "stage", "fill", "replace", "record"}
  BY Stages
<1>1. CASE pass'[w].handle = "closed" /\ pass'[w].pc \notin AfterDraw
  BY <1>1, <1>a DEF StageOf
<1>2. CASE pass'[w] = Idle
  BY <1>1, <1>2, <1>a, IdleIs
<1>3. CASE ClaimItem(w)
  <2>1. pass'[w].handle = "closed" /\ pass'[w].pc = "start"
    BY <1>3, ClaimIs, BegunIs, StageIs
  <2> QED
    BY <1>1, <1>a, <2>1
<1>4. CASE Start(w)
  <2>1. pass[w].handle = "closed"
    BY <1>0, <1>4 DEF StageOf, Start
  <2>2. CASE pass'[w] = Put(pass[w], "source")
    <3>1. pass'[w].handle = "closed" /\ pass'[w].pc = "source"
      BY <1>0, <2>1, <2>2, StageIs
    <3> QED
      BY <1>1, <1>a, <3>1
  <2> QED
    BY <1>2, <1>4, <2>2, StartIs
<1>5. CASE Source(w)
  <2> DEFINE q == Sourced(ArtworkConfigs[pass[w].cfg], pass[w])
  <2>1. pass[w].handle = "closed"
    BY <1>0, <1>5 DEF StageOf, Source
  <2>2. CASE pass'[w] = Put(q, "logo")
    <3>1. IsPass(q) /\ q.handle = "closed"
      BY <1>0, <2>1, SourcedShape, SourcedKeeps
    <3> HIDE DEF q
    <3>2. pass'[w].handle = "closed" /\ pass'[w].pc = "logo"
      BY <2>2, <3>1, StageIs
    <3> QED
      BY <1>1, <1>a, <3>2
  <2> QED
    BY <1>2, <1>5, <2>2, SourceIs
<1>6. CASE Logo(w)
  <2> DEFINE q == Logoed(ArtworkConfigs[pass[w].cfg], pass[w])
  <2>1. pass[w].handle = "closed"
    BY <1>0, <1>6 DEF StageOf, Logo
  <2>2. CASE pass'[w] = Put(q, "compare")
    <3>1. IsPass(q) /\ q.handle = "closed"
      BY <1>0, <2>1, LogoedShape, LogoedKeeps
    <3> HIDE DEF q
    <3>2. pass'[w].handle = "closed" /\ pass'[w].pc = "compare"
      BY <2>2, <3>1, StageIs
    <3> QED
      BY <1>1, <1>a, <3>2
  <2> QED
    BY <1>2, <1>6, <2>2, LogoIs
<1>7. CASE Compare(w)
  <2>1. pass[w].handle = "closed"
    BY <1>0, <1>7 DEF StageOf, Compare
  <2>2. CASE \E x : \E s \in {"fetch", "compose"} : pass'[w] = Printed(pass[w], x, s)
    <3>1. pass'[w].handle = "closed" /\ pass'[w].pc \in {"fetch", "compose"}
      BY <1>0, <2>1, <2>2, PrintedIs
    <3> QED
      BY <1>1, <1>a, <3>1
  <2> QED
    BY <1>2, <1>7, <2>2, CompareIs
<1>8. CASE Fetch(w)
  <2> DEFINE q == Completed(ArtworkConfigs[pass[w].cfg], pass[w])
  <2>1. pass[w].handle = "closed"
    BY <1>0, <1>8 DEF StageOf, Fetch
  <2>2. CASE \E x : pass'[w] = Printed(q, x, "compose")
    <3>1. IsPass(q) /\ q.handle = "closed"
      BY <1>0, <2>1, CompletedShape, CompletedKeeps
    <3> HIDE DEF q
    <3>2. pass'[w].handle = "closed" /\ pass'[w].pc = "compose"
      BY <2>2, <3>1, PrintedIs
    <3> QED
      BY <1>1, <1>a, <3>2
  <2> QED
    BY <1>2, <1>8, <2>2, FetchIs
<1>9. CASE Compose(w)
  <2> DEFINE c == ArtworkConfigs[pass[w].cfg]
             picture == Composed(c, pass[w])
  <2>1. pass[w].handle = "closed" /\ pass[w].pc = "compose" /\ ghost' = ghost
    BY <1>0, <1>9 DEF StageOf, Compose
  <2>2. CASE pass'[w] = Drawn(pass[w], picture)
    <3>1. picture.ver # 0 /\ picture.base = pass[w].base
      BY <1>0, DrawnFields, ArtworkConfigsAssumption
    <3>2. ~ghost.swapped => picture = Depicted(pass[w].fp)
      BY <1>0, <1>a, <2>1, DrawnAsPrinted DEF PrintOf
    <3> HIDE DEF picture
    <3>3. /\ pass'[w].pc = "publish" /\ pass'[w].handle = "closed" /\ pass'[w].picture = picture
          /\ pass'[w].base = pass[w].base /\ pass'[w].fp = pass[w].fp
      BY <1>0, <2>1, <2>2, DrawnIs
    <3> QED
      BY <2>1, <3>1, <3>2, <3>3 DEF StageOf, Depicted
  <2> QED
    BY <1>2, <1>9, <2>2, ComposeIs
<1>10. CASE Publish(w)
  <2>1. pass[w].handle = "closed" /\ pass[w].pc = "publish" /\ UNCHANGED <<ghost, asset>>
    BY <1>0, <1>10 DEF StageOf, Publish
  <2>2. pass'[w].pc \in {"record", "stage"} /\ (pass'[w].pc = "record" => asset = pass[w].picture)
    <3>1. CASE SameBytes(pass[w])
      BY <1>0, <1>10, <3>1, PublishIs, StageIs DEF SameBytes
    <3>2. CASE ~SameBytes(pass[w])
      BY <1>0, <1>10, <3>2, PublishIs, StageIs
    <3> QED BY <3>1, <3>2
  <2>3. /\ pass'[w].handle = "closed" /\ pass'[w].picture = pass[w].picture
        /\ pass'[w].base = pass[w].base /\ pass'[w].fp = pass[w].fp
    BY <1>0, <1>10, <2>1, PublishIs, StageIs
  <2> QED
    BY <1>0, <1>a, <2>1, <2>2, <2>3 DEF StageOf, Depicted
<1>11. CASE OpenStaging(w)
  <2>1. pass[w].pc = "stage" /\ UNCHANGED <<ghost, asset>>
    BY <1>11 DEF OpenStaging
  <2>2. /\ pass'[w].pc = "fill" /\ pass'[w].handle = "staging" /\ pass'[w].picture = pass[w].picture
        /\ pass'[w].base = pass[w].base /\ pass'[w].fp = pass[w].fp
    BY <1>0, <1>11, OpenStagingIs, HoldingIs
  <2> QED
    BY <1>0, <1>a, <2>1, <2>2 DEF StageOf, Depicted
<1>12. CASE FillStaging(w)
  <2>1. pass[w].pc = "fill" /\ UNCHANGED ghost /\ staging' = pass[w].picture
    BY <1>0, <1>12 DEF FillStaging, StageOf
  <2>2. /\ pass'[w].pc = "replace" /\ pass'[w].handle = "closed" /\ pass'[w].picture = pass[w].picture
        /\ pass'[w].base = pass[w].base /\ pass'[w].fp = pass[w].fp
    BY <1>0, <1>12, FillStagingIs, HoldingIs
  <2> QED
    BY <1>0, <1>a, <2>1, <2>2 DEF StageOf, Depicted
<1>13. CASE Replace(w)
  <2>1. pass[w].pc = "replace" /\ pass[w].handle = "closed"
    BY <1>0, <1>13 DEF Replace, StageOf
  <2>2. ghost' = ghost /\ asset' = pass[w].picture /\ pass'[w] = Put(pass[w], "record")
    BY <1>13, ReplaceIs
  <2>3. /\ pass'[w].pc = "record" /\ pass'[w].handle = "closed" /\ pass'[w].picture = pass[w].picture
        /\ pass'[w].base = pass[w].base /\ pass'[w].fp = pass[w].fp
    BY <1>0, <2>1, <2>2, StageIs
  <2> QED
    BY <1>0, <1>a, <2>1, <2>2, <2>3 DEF StageOf, Depicted
<1>14. CASE Record(w)
  BY <1>2, <1>14, RecordIs
<1> QED
  BY <1>3, <1>4, <1>5, <1>6, <1>7, <1>8, <1>9, <1>10, <1>11, <1>12, <1>13, <1>14 DEF RenderPass

\* And nobody else touches it.
LEMMA StageStands ==
  ASSUME Shapes, LockHolds, StageHolds, PrintHolds, [ArtworkNext]_artworkVars
  PROVE  StageHolds'
<1>a. {"idle", "start"} \cap AfterDraw = {} /\ AfterDraw = {"publish", "stage", "fill", "replace", "record"}
  BY Stages
<1>1. ASSUME NEW w \in Workers, RenderPass(w), NEW v \in Workers PROVE StageOf(v)'
  <2>1. CASE v = w
    BY <1>1, <2>1, StageOfPass
  <2>2. CASE v # w
    <3>1. pass'[v] = pass[v] /\ StageOf(v)
      BY <1>1, <2>2, PassIs DEF OthersStay, StageHolds
    <3>2. CASE ClaimItem(w)
      BY <3>1, <3>2, ClaimKeeps DEF StageOf, Depicted
    <3>3. CASE pass[v].pc \in {"idle", "start"}
      BY <1>a, <3>1, <3>3 DEF StageOf
    <3> QED
      BY <1>1, <2>2, <3>2, <3>3, OneWorks
  <2> QED
    BY <2>1, <2>2
<1>2. ASSUME Outside, NEW w \in Workers PROVE StageOf(w)'
  <2>1. UNCHANGED <<pass, staging>> /\ StageOf(w)
    BY <1>2, OutsideIs DEF StageHolds
  <2>2. asset' = asset \/ asset' = NoFile
    BY <1>2, GhostMoves
  <2>3. ghost.swapped => ghost'.swapped
    BY <1>2, GhostMoves
  <2> QED
    BY <2>1, <2>2, <2>3 DEF StageOf, Depicted
<1>3. ASSUME Crash, NEW w \in Workers PROVE StageOf(w)'
  BY <1>3, <1>a, CrashIs, IdleIs DEF StageOf
<1>4. CASE UNCHANGED artworkVars
  BY <1>4 DEF StageHolds, StageOf, Depicted, artworkVars
<1> QED
  BY <1>1, <1>2, <1>3, <1>4, Steps DEF StageHolds

\* A fingerprint depends on a pass's source, logo and text alone.
LEMMA PrintSame ==
  ASSUME NEW c, NEW p, NEW q,
         q.src = p.src, q.base = p.base, q.logo = p.logo, q.title = p.title, q.local = p.local,
         q.suppressText = p.suppressText, q.suppressStyling = p.suppressStyling, q.logoDeferred = p.logoDeferred
  PROVE  ComputeFingerprint(c, q, HasLogo(q)) = ComputeFingerprint(c, p, HasLogo(p))
BY DEF ComputeFingerprint, DrawsText, HasLogo

\* And on what is outside, only on the overlay.
LEMMA PrintStays ==
  ASSUME NEW c, NEW p, NEW h, kind' = kind, world'.overlay = world.overlay
  PROVE  ComputeFingerprint(c, p, h)' = ComputeFingerprint(c, p, h)
BY DEF ComputeFingerprint, DrawsText

\* A logo ladder that answers with a URL has its bytes, read or remembered.
LEMMA LogoedAnswers ==
  ASSUME NEW i \in DOMAIN ArtworkConfigs, world \in Worlds, NEW p, IsPass(p),
         p.logo = None, p.logoUrl = None, ~p.logoDeferred
  PROVE  LET q == Logoed(ArtworkConfigs[i], p)
         IN  /\ q.logoUrl # None => q.logo # None
             /\ q.logoDeferred => q.logoFirst \in LogoUrls
<1> DEFINE c == ArtworkConfigs[i]
           p1 == [p EXCEPT !.logoFirst = FirstLogo(c)]
           walk == LogoWalk(world, c.logoOrder, FirstLogo(c))
<1>0. FirstLogo(c) \in LogoUrls \cup {None}
  BY RungsAnswer
<1>1. IsPass(p1)
  BY DEF IsPass, Over, PassParts
<1>3. CASE kind # "poster" \/ ~c.useLogo
  BY <1>3 DEF Logoed
<1>4. CASE kind = "poster" /\ c.useLogo /\ PickedLogo # None
  BY <1>4 DEF Logoed, IsPass, Over, PassParts
<1>5. CASE kind = "poster" /\ c.useLogo /\ PickedLogo = None /\ c.offline
  BY <1>5 DEF Logoed
<1>6. CASE kind = "poster" /\ c.useLogo /\ PickedLogo = None /\ ~c.offline /\ LogoIsKnown(FirstLogo(c))
  BY <1>0, <1>6 DEF Logoed, LogoIsKnown, IsPass, Over, PassParts
<1>7. CASE kind = "poster" /\ c.useLogo /\ PickedLogo = None /\ ~c.offline /\ ~LogoIsKnown(FirstLogo(c))
  <2>1. Logoed(c, p) = Walked(c, p1, walk)
    BY <1>7 DEF Logoed
  <2>2. walk.url = None <=> walk.bytes = None
    BY <1>0, WalkAnswers
  <2> HIDE DEF p1, walk
  <2>3. Walked(c, p1, walk).logo = walk.bytes /\ Walked(c, p1, walk).logoUrl = walk.url /\ ~Walked(c, p1, walk).logoDeferred
    BY <1>1, WalkedKeeps, WalkedTakes
  <2> QED
    BY <2>1, <2>2, <2>3
<1> QED
  BY <1>3, <1>4, <1>5, <1>6, <1>7

\* A pass with everything read has the bytes of its logo.
LEMMA CompletedAnswers ==
  ASSUME NEW i \in DOMAIN ArtworkConfigs, world \in Worlds, NEW p, IsPass(p),
         p.logoUrl # None => p.logo # None, p.logoDeferred => p.logoFirst \in LogoUrls
  PROVE  LET q == Completed(ArtworkConfigs[i], p)
         IN  /\ q.logoUrl # None => q.logo # None
             /\ ~q.logoDeferred
<1> DEFINE c == ArtworkConfigs[i]
           walk == LogoWalk(world, c.logoOrder, p.logoFirst)
           W == Walked(c, p, walk)
<1>0. \A q, b : IsPass(q) => LET z == [q EXCEPT !.base = b, !.deferred = FALSE]
                             IN  z.logo = q.logo /\ z.logoUrl = q.logoUrl /\ z.logoDeferred = q.logoDeferred
  BY DEF IsPass, Over, PassParts
<1>1. CASE p.logoDeferred
  <2>1. walk.url = None <=> walk.bytes = None
    BY <1>1, WalkAnswers
  <2> HIDE DEF walk
  <2>2. IsPass(W) /\ W.logo = walk.bytes /\ W.logoUrl = walk.url /\ ~W.logoDeferred
    BY WalkedShape, WalkedKeeps, WalkedTakes
  <2>3. \E b : Completed(c, p) = [W EXCEPT !.base = b, !.deferred = FALSE]
    BY <1>1 DEF Completed, walk
  <2> HIDE DEF W
  <2> QED
    BY <1>0, <2>1, <2>2, <2>3
<1>2. CASE ~p.logoDeferred
  <2>1. \E b : Completed(c, p) = [p EXCEPT !.base = b, !.deferred = FALSE]
    BY <1>2 DEF Completed
  <2> QED
    BY <1>0, <1>2, <2>1
<1> QED
  BY <1>1, <1>2

\* A pass that keeps its source, logo, text and fingerprint keeps its print.
LEMMA PrintKept ==
  ASSUME NEW w \in Workers, Shapes, PrintOf(w), ghost'.swapped \/ (~ghost.swapped /\ world'.overlay = world.overlay),
         kind' = kind, NEW q, pass'[w] = q,
         LET p == pass[w]
         IN  /\ p.pc \in Settled /\ q.pc \in Settled
             /\ q.cfg = p.cfg /\ q.title = p.title /\ q.src = p.src /\ q.base = p.base
             /\ q.local = p.local /\ q.deferred = p.deferred /\ q.suppressStyling = p.suppressStyling /\ q.logo = p.logo
             /\ q.logoUrl = p.logoUrl /\ q.logoDeferred = p.logoDeferred /\ q.suppressText = p.suppressText
             /\ q.fp = p.fp
  PROVE  PrintOf(w)'
<1> DEFINE c == ArtworkConfigs[q.cfg]
<1>1. ComputeFingerprint(c, q, HasLogo(q)) = ComputeFingerprint(c, pass[w], HasLogo(pass[w]))
  BY PrintSame
<1>2. ~ghost'.swapped => ComputeFingerprint(c, q, HasLogo(q))' = ComputeFingerprint(c, q, HasLogo(q))
  BY DEF ComputeFingerprint, DrawsText, HasLogo
<1>3. q.pc \notin {"start", "source", "logo"}
  BY Stages
<1> QED
  BY <1>1, <1>2, <1>3 DEF PrintOf

\* A pass keeps the fingerprint of what it draws.
LEMMA PrintOfPass ==
  ASSUME Shapes, LockHolds, StageHolds, PrintHolds, NEW w \in Workers, RenderPass(w)
  PROVE  PrintOf(w)'
<1> DEFINE p == pass[w]
           c == ArtworkConfigs[p.cfg]
<1>0. IsPass(p) /\ p.cfg \in DOMAIN ArtworkConfigs /\ PrintOf(w) /\ world \in Worlds
  BY DEF Shapes, PrintHolds
<1>a. Settled = {"compose", "publish", "stage", "fill", "replace", "record"}
  BY Stages
<1>b. kind' = kind /\ world' = world
  BY PassIs DEF Kept
<1>1. CASE pass'[w] = Idle
  BY <1>1, <1>a, IdleIs DEF PrintOf
<1>2. CASE ClaimItem(w)
  <2>1. /\ pass'[w].pc = "start" /\ pass'[w].logo = None /\ pass'[w].logoUrl = None
        /\ ~pass'[w].logoDeferred
    BY <1>2, ClaimIs, BegunIs, StageIs
  <2> QED
    BY <1>a, <2>1 DEF PrintOf
<1>3. CASE Start(w)
  <2>1. p.pc = "start"
    BY <1>3 DEF Start
  <2>2. CASE pass'[w] = Put(p, "source")
    <3>1. /\ pass'[w].pc = "source" /\ pass'[w].logo = p.logo /\ pass'[w].logoUrl = p.logoUrl
          /\ pass'[w].logoDeferred = p.logoDeferred
      BY <1>0, <2>2, StageIs
    <3> QED
      BY <1>0, <1>a, <2>1, <3>1 DEF PrintOf
  <2> QED
    BY <1>1, <1>3, <2>2, StartIs
<1>4. CASE Source(w)
  <2> DEFINE q == Sourced(c, p)
  <2>1. p.pc = "source"
    BY <1>4 DEF Source
  <2>2. CASE pass'[w] = Put(q, "logo")
    <3>1. IsPass(q) /\ q.logo = p.logo /\ q.logoUrl = p.logoUrl /\ q.logoDeferred = p.logoDeferred
      BY <1>0, SourcedShape, SourcedKeeps
    <3> HIDE DEF q
    <3>2. /\ pass'[w].pc = "logo" /\ pass'[w].logo = p.logo /\ pass'[w].logoUrl = p.logoUrl
          /\ pass'[w].logoDeferred = p.logoDeferred
      BY <2>2, <3>1, StageIs
    <3> QED
      BY <1>0, <1>a, <2>1, <3>2 DEF PrintOf
  <2> QED
    BY <1>1, <1>4, <2>2, SourceIs
<1>5. CASE Logo(w)
  <2> DEFINE q == Logoed(c, p)
  <2>1. p.pc = "logo" /\ p.logo = None /\ p.logoUrl = None /\ ~p.logoDeferred
    BY <1>0, <1>5 DEF Logo, PrintOf
  <2>2. CASE pass'[w] = Put(q, "compare")
    <3>1. IsPass(q) /\ (q.logoUrl # None => q.logo # None) /\ (q.logoDeferred => q.logoFirst \in LogoUrls)
      BY <1>0, <2>1, LogoedShape, LogoedAnswers
    <3> HIDE DEF q
    <3>2. /\ pass'[w].pc = "compare" /\ pass'[w].logo = q.logo /\ pass'[w].logoUrl = q.logoUrl
          /\ pass'[w].logoDeferred = q.logoDeferred /\ pass'[w].logoFirst = q.logoFirst
      BY <2>2, <3>1, StageIs
    <3> QED
      BY <1>a, <3>1, <3>2 DEF PrintOf
  <2> QED
    BY <1>1, <1>5, <2>2, LogoIs
<1>6. CASE Compare(w)
  <2> DEFINE fp == ComputeFingerprint(c, p, HasLogo(p))
             s == IF p.deferred \/ p.logoDeferred THEN "fetch" ELSE "compose"
  <2>1. CASE pass'[w] = Printed(p, fp, s)
    <3> DEFINE q == Printed(p, fp, s)
    <3>1. fp.ver = c.ver /\ fp.base = p.base /\ fp.logo = p.logo
      BY PrintFields
    <3>2. s \in {"fetch", "compose"} /\ (s = "compose" => ~p.deferred /\ ~p.logoDeferred)
      OBVIOUS
    <3> HIDE DEF s
    <3>5. /\ q.pc = s /\ q.cfg = p.cfg /\ q.title = p.title /\ q.src = p.src /\ q.base = p.base
          /\ q.local = p.local /\ q.deferred = p.deferred /\ q.suppressStyling = p.suppressStyling /\ q.logo = p.logo
          /\ q.logoUrl = p.logoUrl /\ q.logoDeferred = p.logoDeferred /\ q.suppressText = p.suppressText
          /\ q.fp = fp /\ q.logoFirst = p.logoFirst
      BY <1>0, PrintedIs
    <3>6. ComputeFingerprint(ArtworkConfigs[q.cfg], q, HasLogo(q)) = fp
      BY <3>5, PrintSame
    <3> HIDE DEF fp, q
    <3>7. ASSUME NEW x, x = q PROVE ComputeFingerprint(ArtworkConfigs[x.cfg], x, HasLogo(x))' = fp
      <4>1. \A h : ComputeFingerprint(ArtworkConfigs[x.cfg], x, h)' = ComputeFingerprint(ArtworkConfigs[x.cfg], x, h)
        BY <1>b, PrintStays
      <4> QED
        BY <3>6, <3>7, <4>1 DEF HasLogo
    <3>8. pass'[w] = q
      BY <2>1 DEF q
    <3> QED
      BY <1>0, <1>a, <3>1, <3>2, <3>5, <3>7, <3>8 DEF PrintOf
  <2> QED
    BY <1>1, <1>6, <2>1, CompareIs
<1>7. CASE Fetch(w)
  <2> DEFINE q == Completed(c, p)
             fp == ComputeFingerprint(c, q, HasLogo(q))
             z == Printed(q, fp, "compose")
  <2>1. CASE pass'[w] = z
    <3>1. fp.ver = c.ver /\ fp.base = q.base /\ fp.logo = q.logo
      BY PrintFields
    <3>2. IsPass(q) /\ ~q.deferred /\ q.cfg = p.cfg
      BY <1>0, CompletedShape, CompletedKeeps
    <3>3. (q.logoUrl # None => q.logo # None) /\ ~q.logoDeferred
      BY <1>0, CompletedAnswers DEF PrintOf
    <3> HIDE DEF q
    <3>5. /\ z.pc = "compose" /\ z.cfg = q.cfg /\ z.title = q.title /\ z.src = q.src /\ z.base = q.base
          /\ z.local = q.local /\ z.deferred = q.deferred /\ z.suppressStyling = q.suppressStyling /\ z.logo = q.logo
          /\ z.logoUrl = q.logoUrl /\ z.logoDeferred = q.logoDeferred /\ z.suppressText = q.suppressText
          /\ z.fp = fp /\ z.logoFirst = q.logoFirst
      BY <3>2, PrintedIs
    <3>6. ComputeFingerprint(ArtworkConfigs[z.cfg], z, HasLogo(z)) = fp
      BY <3>2, <3>5, PrintSame
    <3> HIDE DEF fp, z
    <3>7. ASSUME NEW x, x = z PROVE ComputeFingerprint(ArtworkConfigs[x.cfg], x, HasLogo(x))' = fp
      <4>1. \A h : ComputeFingerprint(ArtworkConfigs[x.cfg], x, h)' = ComputeFingerprint(ArtworkConfigs[x.cfg], x, h)
        BY <1>b, PrintStays
      <4> QED
        BY <3>6, <3>7, <4>1 DEF HasLogo
    <3>8. pass'[w] = z
      BY <2>1 DEF z
    <3> QED
      BY <1>a, <3>1, <3>2, <3>3, <3>5, <3>7, <3>8 DEF PrintOf
  <2> QED
    BY <1>1, <1>7, <2>1, FetchIs
<1>8. CASE Compose(w) \/ Publish(w) \/ OpenStaging(w) \/ FillStaging(w) \/ Replace(w)
  <2>1. p.pc \in Settled /\ ghost' = ghost
    BY <1>8, <1>a, ReplaceIs DEF Compose, Publish, OpenStaging, FillStaging, Replace
  <2> DEFINE Kin(q) ==
        /\ q.pc \in Settled
        /\ q.cfg = p.cfg /\ q.title = p.title /\ q.src = p.src /\ q.base = p.base
        /\ q.local = p.local /\ q.deferred = p.deferred /\ q.suppressStyling = p.suppressStyling /\ q.logo = p.logo
        /\ q.logoUrl = p.logoUrl /\ q.logoDeferred = p.logoDeferred /\ q.suppressText = p.suppressText
        /\ q.fp = p.fp
  <2>2. \A s \in Settled : Kin(Put(p, s))
    BY <1>0, StageIs
  <2>3. \A s \in Settled : \A h : Kin(Holding(p, s, h))
    BY <1>0, HoldingIs
  <2>4. \A x : Kin(Drawn(p, x))
    BY <1>0, <1>a, DrawnIs
  <2> HIDE DEF Kin
  <2>5. pass'[w] = Idle \/ Kin(pass'[w])
    <3>1. CASE Compose(w)
      BY <2>4, <3>1, ComposeIs
    <3>2. CASE Publish(w)
      <4>1. (IF SameBytes(p) THEN "record" ELSE "stage") \in Settled
        BY <1>a
      <4> QED
        BY <2>2, <3>2, <4>1, PublishIs
    <3>3. CASE OpenStaging(w)
      BY <1>a, <2>3, <3>3, OpenStagingIs
    <3>4. CASE FillStaging(w)
      BY <1>a, <2>3, <3>4, FillStagingIs
    <3>5. CASE Replace(w)
      BY <1>a, <2>2, <3>5, ReplaceIs
    <3> QED
      BY <1>8, <3>1, <3>2, <3>3, <3>4, <3>5
  <2>6. CASE Kin(pass'[w])
    BY <1>0, <1>b, <2>1, <2>6, PrintKept DEF Kin
  <2> QED
    BY <1>1, <2>5, <2>6
<1>9. CASE Record(w)
  BY <1>1, <1>9, RecordIs
<1> QED
  BY <1>2, <1>3, <1>4, <1>5, <1>6, <1>7, <1>8, <1>9 DEF RenderPass

\* And nobody else changes it.
LEMMA PrintStands ==
  ASSUME Shapes, LockHolds, StageHolds, PrintHolds, [ArtworkNext]_artworkVars
  PROVE  PrintHolds'
<1>a. {"idle", "start"} \cap Settled = {}
  BY Stages
<1>b. ASSUME NEW v \in Workers, pass'[v] = pass[v], ghost'.swapped \/ (~ghost.swapped /\ world'.overlay = world.overlay),
             kind' = kind
      PROVE  PrintOf(v)'
  <2>1. PrintOf(v)
    BY DEF PrintHolds
  <2>2. ASSUME ~ghost'.swapped
        PROVE  ComputeFingerprint(ArtworkConfigs[pass[v].cfg], pass[v], HasLogo(pass[v]))'
                 = ComputeFingerprint(ArtworkConfigs[pass[v].cfg], pass[v], HasLogo(pass[v]))
    BY <1>b, <2>2 DEF ComputeFingerprint, DrawsText, HasLogo
  <2> QED
    BY <1>b, <2>1, <2>2 DEF PrintOf
<1>1. ASSUME NEW w \in Workers, RenderPass(w), NEW v \in Workers PROVE PrintOf(v)'
  <2>1. CASE v = w
    BY <1>1, <2>1, PrintOfPass
  <2>2. CASE v # w
    <3>1. pass'[v] = pass[v] /\ PrintOf(v) /\ UNCHANGED <<kind, world>>
      BY <1>1, <2>2, PassIs DEF OthersStay, PrintHolds, Kept
    <3>2. CASE ClaimItem(w)
      BY <1>b, <3>1, <3>2, ClaimKeeps
    <3>3. CASE pass[v].pc \in {"idle", "start"}
      BY <1>a, <3>1, <3>3 DEF PrintOf
    <3> QED
      BY <1>1, <2>2, <3>2, <3>3, OneWorks
  <2> QED
    BY <2>1, <2>2
<1>2. ASSUME Outside, NEW w \in Workers PROVE PrintOf(w)'
  BY <1>2, <1>b, OutsideIs, GhostMoves
<1>3. ASSUME Crash, NEW w \in Workers PROVE PrintOf(w)'
  BY <1>3, <1>a, CrashIs, IdleIs DEF PrintOf
<1>4. CASE UNCHANGED artworkVars
  BY <1>4, <1>b DEF PrintHolds, artworkVars
<1> QED
  BY <1>1, <1>2, <1>3, <1>4, Steps DEF PrintHolds

(***************************************************************************)
(* Artwork: the row                                                        *)
(***************************************************************************)
\* The columns a pass that draws nothing leaves alone.
Rooted == UNCHANGED <<render.fp, render.src, render.base, render.adopted>>

\* Ending without a picture, or with nothing to draw.
EndsEarly ==
  /\ Rooted /\ UNCHANGED <<render.logoUrl, render.logo>>
  /\ render'.status \in {"skipped", "rendered", "no_art", "failed", "truncated"}
  /\ render'.mode = render.mode \/ (render.mode = "plex_generated" /\ render'.mode = "generate")

EndsSame(c, q) ==
  /\ Unchanged(ComputeFingerprint(c, q, HasLogo(q)))
  /\ Rooted /\ render'.status = "rendered" /\ render'.mode = render.mode
  /\ render'.logoUrl = IF q.logoUrl # None THEN q.logoUrl ELSE render.logoUrl
  /\ render'.logo = IF q.logoUrl # None THEN q.logo ELSE render.logo

\* The columns of a row that is written whole.
LEMMA WrittenIs ==
  ASSUME NEW p
  PROVE  LET r == Written(p)
         IN  /\ r.fp = p.fp /\ r.status = "rendered" /\ r.src = p.src /\ r.base = p.base
             /\ r.logoUrl = p.logoUrl /\ r.logo = StoredLogo(p) /\ ~r.adopted /\ r.mode = Mode(p)
BY DEF Written

\* What a pass may do to its row.
LEMMA RowMoves ==
  ASSUME Shapes, LockHolds, StageHolds, NEW w \in Workers, RenderPass(w)
  PROVE  \/ render' = render
         \/ EndsEarly /\ ~Record(w)
         \/ Compare(w) /\ EndsSame(ArtworkConfigs[pass[w].cfg], pass[w])
         \/ Fetch(w) /\ EndsSame(ArtworkConfigs[pass[w].cfg], Completed(ArtworkConfigs[pass[w].cfg], pass[w]))
         \/ Record(w) /\ render' = Written(pass[w])
<1> DEFINE p == pass[w]
           c == ArtworkConfigs[p.cfg]
<1>0. Over(render, RowParts)
  BY DEF Shapes, RowParts
<1>a. \A s \in {"skipped", "rendered", "no_art", "failed", "truncated"} :
         render' = [render EXCEPT !.status = s] => EndsEarly
  BY <1>0 DEF EndsEarly, Rooted, Over, RowParts
<1>b. render' = [render EXCEPT !.status = "no_art", !.mode = IF @ = "plex_generated" THEN "generate" ELSE @] => EndsEarly
  BY <1>0 DEF EndsEarly, Rooted, Over, RowParts
<1>c. \A q : /\ RecordUnchanged(w, q) /\ Unchanged(ComputeFingerprint(c, q, HasLogo(q)))
             => EndsSame(c, q)
  <2> TAKE q
  <2> DEFINE url == IF q.logoUrl # None THEN q.logoUrl ELSE render.logoUrl
             bytes == IF q.logoUrl # None THEN q.logo ELSE render.logo
  <2>1. RecordUnchanged(w, q) => render' = [render EXCEPT !.status = "rendered", !.logoUrl = url, !.logo = bytes]
    BY DEF RecordUnchanged, Finish
  <2> HIDE DEF url, bytes
  <2>2. render' = [render EXCEPT !.status = "rendered", !.logoUrl = url, !.logo = bytes] =>
           /\ Rooted /\ render'.status = "rendered" /\ render'.mode = render.mode
           /\ render'.logoUrl = url /\ render'.logo = bytes
    BY <1>0 DEF Rooted, Over, RowParts
  <2> QED
    BY <2>1, <2>2 DEF EndsSame, url, bytes
<1>d. \A refused : Abandon(w, refused) => render' = render \/ render' = [render EXCEPT !.status = "failed"]
  BY DEF Abandon, Finish
<1>1. CASE ClaimItem(w) \/ Publish(w) \/ OpenStaging(w) \/ FillStaging(w) \/ Replace(w)
  BY <1>1, ReplaceIs DEF ClaimItem, Publish, OpenStaging, FillStaging
<1>2. CASE Start(w)
  <2>1. render' = render \/ \E s \in {"skipped", "rendered"} : render' = [render EXCEPT !.status = s]
    BY <1>2 DEF Start, Finish
  <2>2. ~Record(w)
    BY <1>2 DEF Start, Record
  <2> QED
    BY <1>a, <2>1, <2>2
<1>3. CASE Source(w)
  <2>1. \/ render' = render \/ render' = [render EXCEPT !.status = "skipped"] \/ render' = [render EXCEPT !.status = "failed"]
        \/ render' = [render EXCEPT !.status = "no_art", !.mode = IF @ = "plex_generated" THEN "generate" ELSE @]
    BY <1>3, <1>d DEF Source, Finish
  <2>2. ~Record(w)
    BY <1>3 DEF Source, Record
  <2> QED
    BY <1>a, <1>b, <2>1, <2>2
<1>4. CASE Logo(w)
  BY <1>4 DEF Logo, Abandon, Finish
<1>5. CASE Compare(w)
  <2>1. render' = render \/ (RecordUnchanged(w, p) /\ Unchanged(ComputeFingerprint(c, p, HasLogo(p))))
    BY <1>5, CompareIs
  <2> QED
    BY <1>5, <1>c, <2>1
<1>6. CASE Fetch(w)
  <2> DEFINE q == Completed(c, p)
  <2>1. \/ render' = render \/ render' = [render EXCEPT !.status = "failed"]
        \/ (RecordUnchanged(w, q) /\ Unchanged(ComputeFingerprint(c, q, HasLogo(q))))
    BY <1>6, <1>d, FetchIs
  <2>2. ~Record(w)
    BY <1>6 DEF Fetch, Record
  <2> HIDE DEF q
  <2>3. render' = render \/ EndsEarly \/ EndsSame(c, q)
    BY <1>a, <1>c, <2>1
  <2> QED
    BY <1>6, <2>2, <2>3 DEF q
<1>7. CASE Compose(w)
  <2>1. render' = render \/ render' = [render EXCEPT !.status = "truncated"]
    BY <1>7 DEF Compose, Finish
  <2>2. ~Record(w)
    BY <1>7 DEF Compose, Record
  <2> QED
    BY <1>a, <2>1, <2>2
<1>8. CASE Record(w)
  BY <1>8, RecordIs
<1> QED
  BY <1>1, <1>2, <1>3, <1>4, <1>5, <1>6, <1>7, <1>8 DEF RenderPass

\* A cleared row is otherwise as it was.
LEMMA ClearedIs ==
  ASSUME Shapes
  PROVE  LET r == WithoutFingerprint
         IN  /\ r.fp = NoFingerprint /\ r.status = render.status /\ r.src = render.src /\ r.base = render.base
             /\ r.logoUrl = render.logoUrl /\ r.logo = render.logo /\ r.adopted = render.adopted /\ r.mode = render.mode
BY DEF Shapes, WithoutFingerprint, Over

\* The row goes on remembering what its fingerprint was taken from.
LEMMA RowStands ==
  ASSUME Shapes, LockHolds, StageHolds, PrintHolds, RowHolds, ModeHolds, [ArtworkNext]_artworkVars
  PROVE  RowHolds'
<1>1. ASSUME NEW w \in Workers, RenderPass(w) PROVE RowHolds'
  <2> DEFINE p == pass[w]
             c == ArtworkConfigs[p.cfg]
  <2>0. IsPass(p) /\ p.cfg \in DOMAIN ArtworkConfigs /\ PrintOf(w) /\ world \in Worlds
    BY DEF Shapes, PrintHolds
  <2>1. CASE render' = render
    BY <2>1 DEF RowHolds
  <2>2. CASE EndsEarly
    BY <2>2 DEF RowHolds, EndsEarly, Rooted
  <2>3. ASSUME NEW q, EndsSame(c, q), q.logoUrl # None => q.logo # None
        PROVE  RowHolds'
    <3>1. render.fp.base = q.base /\ render.fp.logo = q.logo
      BY <2>3, PrintFields DEF EndsSame, Unchanged
    <3>2. CASE q.logoUrl = None
      BY <2>3, <3>2 DEF RowHolds, EndsSame, Rooted
    <3>3. CASE q.logoUrl # None
      BY <2>3, <3>1, <3>3 DEF RowHolds, EndsSame, Rooted
    <3> QED
      BY <3>2, <3>3
  <2>4. CASE EndsSame(c, p)
    BY <2>0, <2>3, <2>4 DEF PrintOf
  <2>5. CASE EndsSame(c, Completed(c, p))
    <3>1. Completed(c, p).logoUrl # None => Completed(c, p).logo # None
      BY <2>0, CompletedAnswers DEF PrintOf
    <3> QED
      BY <2>3, <2>5, <3>1
  <2>6. CASE Record(w) /\ render' = Written(p)
    <3>1. p.pc = "record"
      BY <2>6 DEF Record
    <3>2. /\ p.fp.base = p.base /\ p.fp.logo = p.logo /\ (p.logoUrl # None => p.logo # None)
          /\ p.fallback \in {None, "show_fallback", "plex_generated"}
      BY <2>0, <3>1, Stages DEF PrintOf, ModeHolds
    <3>3. Mode(p) \in {"generate", "show_fallback", "plex_generated"}
      BY <3>2 DEF Mode, RowHolds
    <3>4. /\ p.logoUrl = None <=> StoredLogo(p) = None
          /\ StoredLogo(p) # None => StoredLogo(p) = p.logo
      BY <3>2 DEF StoredLogo
    <3>5. /\ render'.fp = p.fp /\ render'.status = "rendered" /\ render'.base = p.base
          /\ render'.logoUrl = p.logoUrl /\ render'.logo = StoredLogo(p) /\ render'.mode = Mode(p)
      BY <2>6, WrittenIs
    <3> QED
      BY <3>2, <3>3, <3>4, <3>5 DEF RowHolds
  <2> QED
    BY <1>1, <2>1, <2>2, <2>4, <2>5, <2>6, RowMoves
<1>2. CASE Outside
  BY <1>2, GhostMoves, ClearedIs DEF RowHolds
<1>3. CASE Crash
  BY <1>3, CrashIs DEF RowHolds
<1>4. CASE UNCHANGED artworkVars
  BY <1>4 DEF RowHolds, artworkVars
<1> QED
  BY <1>1, <1>2, <1>3, <1>4, Steps

(***************************************************************************)
(* Artwork: the files                                                      *)
(***************************************************************************)
\* A pass changes the asset in one rename, and history when it ends.
LEMMA PassFiles ==
  ASSUME Shapes, LockHolds, StageHolds, NEW w \in Workers, RenderPass(w)
  PROVE  /\ asset' = asset \/ (Replace(w) /\ asset' = pass[w].picture)
         /\ backup' = backup \/ Publish(w)
         /\ ghost'.spoilt = ghost.spoilt /\ ghost'.promised = ghost.promised /\ ghost'.latest = ghost.latest
         /\ ghost'.torn = ghost.torn \/ Record(w)
         /\ Record(w) => ghost'.torn = ghost.swapped
<1>0. Over(ghost, GhostParts)
  BY DEF Shapes, GhostParts
<1>1. CASE ClaimItem(w) \/ Source(w) \/ Logo(w) \/ Compose(w) \/ Publish(w) \/ OpenStaging(w) \/ FillStaging(w) \/ Replace(w)
  <2>1. ghost' = ghost /\ (backup' = backup \/ Publish(w)) /\ ~Record(w)
    BY <1>1, ReplaceIs DEF ClaimItem, Source, Logo, Abandon, Compose, Publish, OpenStaging, FillStaging, Replace, Record
  <2>2. FillStaging(w) => pass[w].handle = "staging"
    BY DEF FillStaging, StageHolds, StageOf
  <2>3. asset' = asset \/ (Replace(w) /\ asset' = pass[w].picture)
    BY <1>1, <2>2, ReplaceIs DEF ClaimItem, Source, Logo, Abandon, Compose, Publish, OpenStaging, FillStaging
  <2> QED
    BY <2>1, <2>3
<1>2. CASE Start(w)
  <2>1. UNCHANGED <<asset, backup>> /\ ~Record(w)
    BY <1>2 DEF Start, Record
  <2>2. /\ ghost'.spoilt = ghost.spoilt /\ ghost'.promised = ghost.promised /\ ghost'.latest = ghost.latest
        /\ ghost'.torn = ghost.torn
    BY <1>0, <1>2 DEF Start, Over, GhostParts
  <2> QED
    BY <2>1, <2>2
<1>3. CASE Compare(w) \/ Fetch(w)
  <2>1. UNCHANGED <<asset, backup>> /\ ~Record(w)
    BY <1>3 DEF Compare, Fetch, Abandon, Record
  <2>2. ghost' = ghost \/ ghost' = [ghost EXCEPT !.moved = ghost.dirty]
    BY <1>3 DEF Compare, Fetch, Abandon, RecordUnchanged
  <2>3. /\ ghost'.spoilt = ghost.spoilt /\ ghost'.promised = ghost.promised /\ ghost'.latest = ghost.latest
        /\ ghost'.torn = ghost.torn
    BY <1>0, <2>2 DEF Over, GhostParts
  <2> QED
    BY <2>1, <2>3
<1>4. CASE Record(w)
  <2>1. UNCHANGED <<asset, backup>> /\ ghost' = [ghost EXCEPT !.moved = ghost.dirty, !.torn = ghost.swapped]
    BY <1>4 DEF Record
  <2> QED
    BY <1>0, <1>4, <2>1 DEF Over, GhostParts
<1> QED
  BY <1>1, <1>2, <1>3, <1>4 DEF RenderPass

\* File and row stay together: the row is written after the file, under one lock.
LEMMA FileStands ==
  ASSUME Shapes, LockHolds, StageHolds, FileIsWhatTheRowSays, [ArtworkNext]_artworkVars
  PROVE  FileIsWhatTheRowSays'
<1>1. ASSUME NEW w \in Workers, RenderPass(w) PROVE FileIsWhatTheRowSays'
  <2>1. CASE Record(w)
    <3>1. pass[w].pc = "record" /\ asset' = asset /\ IsPass(pass[w]) /\ StageOf(w)
      BY <2>1 DEF Record, Shapes, StageHolds
    <3>2. /\ asset = pass[w].picture \/ asset = NoFile
          /\ ~ghost.swapped => pass[w].picture = Depicted(pass[w].fp)
      BY <3>1 DEF StageOf, AfterDraw
    <3>3. render'.fp = pass[w].fp /\ ~render'.adopted /\ ghost'.torn = ghost.swapped
      BY <1>1, <2>1, RecordIs, WrittenIs, PassFiles
    <3> QED
      BY <3>1, <3>2, <3>3 DEF FileIsWhatTheRowSays, Depicted
  <2>2. CASE Replace(w)
    <3>1. pass'[w].pc = "record"
      BY <2>2, ReplaceIs, StageIs DEF Shapes
    <3> QED
      BY <3>1 DEF FileIsWhatTheRowSays
  <2>3. CASE ~Record(w) /\ ~Replace(w)
    <3>1. asset' = asset /\ ghost'.torn = ghost.torn
      BY <1>1, <2>3, PassFiles
    <3>2. render' = render \/ Rooted
      BY <1>1, <2>3, RowMoves DEF EndsEarly, EndsSame
    <3>3. pass[w].pc # "record"
      BY <1>1, <2>3 DEF RenderPass, ClaimItem, Start, Source, Logo, Compare, Fetch, Compose, Publish, OpenStaging, FillStaging
    <3>4. \A v \in Workers \ {w} : pass'[v] = pass[v]
      BY <1>1, PassIs DEF OthersStay
    <3> QED
      BY <3>1, <3>2, <3>3, <3>4 DEF FileIsWhatTheRowSays, Rooted, Depicted, Digest
  <2> QED
    BY <2>1, <2>2, <2>3
<1>2. CASE Outside
  BY <1>2, OutsideIs, GhostMoves, ClearedIs DEF FileIsWhatTheRowSays, Depicted, Digest
<1>3. CASE Crash
  <2>1. ghost.torn => ghost'.torn
    <3> DEFINE t == Touched.torn \/ \E w \in Workers : pass[w].pc \in Publishing
    <3>1. ghost' = [Touched EXCEPT !.spoilt = TRUE, !.latest = None, !.torn = t]
      BY <1>3 DEF Crash
    <3>2. ghost.torn => t
      BY DEF Touched, Shapes, Over
    <3> HIDE DEF t
    <3> QED
      BY <3>1, <3>2 DEF Shapes, Over, Touched
  <2>2. ~ghost'.torn => \A w \in Workers : pass[w].pc # "record"
    <3> DEFINE t == Touched.torn \/ \E w \in Workers : pass[w].pc \in Publishing
    <3>1. ghost' = [Touched EXCEPT !.spoilt = TRUE, !.latest = None, !.torn = t]
      BY <1>3 DEF Crash
    <3>2. ~t => \A w \in Workers : pass[w].pc # "record"
      BY DEF Publishing
    <3> HIDE DEF t
    <3> QED
      BY <3>1, <3>2 DEF Shapes, Over, Touched
  <2> QED
    BY <1>3, <2>1, <2>2, CrashIs DEF FileIsWhatTheRowSays, Depicted, Digest
<1>4. CASE UNCHANGED artworkVars
  BY <1>4 DEF FileIsWhatTheRowSays, Depicted, Digest, artworkVars
<1> QED
  BY <1>1, <1>2, <1>3, <1>4, Steps

\* Only a filled staging copy is renamed to the asset.
LEMMA AssetStands ==
  ASSUME Shapes, LockHolds, StageHolds, NoHalfWrittenAsset, [ArtworkNext]_artworkVars
  PROVE  NoHalfWrittenAsset'
<1>1. NoFile # Partial /\ Partial.ver = 0
  <2>1. NoFile.base = "none" /\ Partial.base = "partial" /\ Partial.ver = 0
    BY DEF NoFile, Partial, None
  <2> QED
    BY <2>1
<1>2. ASSUME NEW w \in Workers, RenderPass(w) PROVE NoHalfWrittenAsset'
  <2>1. Replace(w) => pass[w].picture.ver # 0
    BY DEF Replace, StageHolds, StageOf, AfterDraw
  <2>2. asset' = asset \/ asset'.ver # 0
    BY <1>2, <2>1, PassFiles
  <2> QED
    BY <1>1, <2>2 DEF NoHalfWrittenAsset, Partial, NoFile
<1> QED
  BY <1>1, <1>2, Steps, GhostMoves, CrashIs DEF NoHalfWrittenAsset, Partial, NoFile, artworkVars

Rotating == {"stage", "fill", "replace"}

\* The backup is the asset only while that is being replaced.
LEMMA BackupStands ==
  ASSUME Shapes, LockHolds, StageHolds, BackupHolds, [ArtworkNext]_artworkVars
  PROVE  BackupHolds'
<1>a. Rotating = {"stage", "fill", "replace"} /\ Rotating \subseteq Working /\ {"idle", "start"} \cap Rotating = {}
  BY DEF Rotating, Working, AfterSource, Settled, AfterDraw
<1>1. ASSUME NEW w \in Workers, RenderPass(w) PROVE BackupHolds'
  <2>0. OthersStay(w) /\ IsPass(pass[w]) /\ ghost'.spoilt = ghost.spoilt /\ StageOf(w)
    BY <1>1, PassIs, PassFiles DEF Shapes, StageHolds
  <2>1. CASE ~(Publish(w) \/ OpenStaging(w) \/ FillStaging(w) \/ Replace(w))
    <3>1. asset' = asset /\ backup' = backup
      BY <1>1, <2>1, PassFiles
    <3>2. pass[w].pc \notin Rotating
      BY <1>1, <2>1, <1>a DEF RenderPass, ClaimItem, Start, Source, Logo, Compare, Fetch, Compose, Record
    <3>3. pass'[w].pc \notin Rotating
      <4>1. CASE pass'[w] = Idle
        BY <1>a, <4>1, IdleIs
      <4>2. CASE ClaimItem(w)
        BY <1>a, <4>2, ClaimIs, StageIs, BegunIs
      <4>3. CASE Start(w)
        BY <1>a, <2>0, <4>1, <4>3, StartIs, StageIs
      <4>4. CASE Source(w)
        BY <1>a, <2>0, <4>1, <4>4, SourceIs, StageIs
      <4>5. CASE Logo(w)
        <5>1. IsPass(Logoed(ArtworkConfigs[pass[w].cfg], pass[w]))
          BY <2>0, LogoedShape
        <5>2. Put(Logoed(ArtworkConfigs[pass[w].cfg], pass[w]), "compare").pc = "compare"
          BY <5>1, StageIs
        <5> QED
          BY <1>a, <4>1, <4>5, <5>2, LogoIs
      <4>6. CASE Compare(w)
        <5>1. \A x, s : Printed(pass[w], x, s).pc = s
          BY <2>0, PrintedIs
        <5> QED
          BY <1>a, <4>1, <4>6, <5>1, CompareIs
      <4>7. CASE Fetch(w)
        <5>1. \A x : Printed(Completed(ArtworkConfigs[pass[w].cfg], pass[w]), x, "compose").pc = "compose"
          BY <2>0, CompletedShape, PrintedIs
        <5> QED
          BY <1>a, <4>1, <4>7, <5>1, FetchIs
      <4>8. CASE Compose(w)
        <5>1. \A x : Drawn(pass[w], x).pc = "publish"
          BY <2>0, DrawnIs
        <5> QED
          BY <1>a, <4>1, <4>8, <5>1, ComposeIs
      <4>9. CASE Record(w)
        BY <4>1, <4>9, RecordIs
      <4> QED
        BY <1>1, <2>1, <4>2, <4>3, <4>4, <4>5, <4>6, <4>7, <4>8, <4>9 DEF RenderPass
    <3> QED
      BY <1>a, <2>0, <3>1, <3>2, <3>3 DEF BackupHolds, OthersStay
  <2>2. CASE Publish(w) \/ OpenStaging(w) \/ FillStaging(w) \/ Replace(w)
    <3>1. \A v \in Workers \ {w} : pass'[v] = pass[v] /\ pass[v].pc \notin Rotating
      BY <1>1, <1>a, <2>0, <2>2, OneWorks DEF OthersStay, Publish, OpenStaging, FillStaging, Replace, ClaimItem
    <3>2. CASE Publish(w)
      <4>1. pass[w].pc = "publish" /\ asset' = asset
        BY <3>2 DEF Publish
      <4>2. ~ghost.spoilt => (asset = NoFile => backup = NoFile) /\ (backup = NoFile \/ backup # asset)
        BY <1>a, <3>1, <4>1 DEF BackupHolds
      <4>3. CASE SameBytes(pass[w])
        <5>1. backup' = backup /\ pass'[w].pc \notin Rotating
          BY <1>a, <2>0, <3>2, <4>3, PublishIs, StageIs DEF Publish
        <5> QED
          BY <1>a, <2>0, <3>1, <4>1, <4>2, <5>1 DEF BackupHolds
      <4>4. CASE ~SameBytes(pass[w])
        <5>1. backup' = IF asset # NoFile THEN asset ELSE backup
          BY <3>2, <4>4 DEF Publish
        <5>2. pass'[w].pc = "stage" /\ pass'[w].picture = pass[w].picture
          BY <2>0, <3>2, <4>4, PublishIs, StageIs
        <5>3. pass[w].picture # asset
          BY <4>4 DEF SameBytes
        <5> QED
          BY <1>a, <2>0, <3>1, <4>1, <4>2, <5>1, <5>2, <5>3 DEF BackupHolds
      <4> QED
        BY <4>3, <4>4
    <3>3. CASE OpenStaging(w) \/ FillStaging(w)
      <4>1. pass[w].pc \in Rotating /\ backup' = backup /\ asset' = asset
        BY <1>1, <1>a, <3>3, PassFiles DEF OpenStaging, FillStaging, Replace, Publish
      <4>2. pass'[w].pc \in Rotating /\ pass'[w].picture = pass[w].picture
        BY <1>a, <2>0, <3>3, OpenStagingIs, FillStagingIs, HoldingIs
      <4> QED
        BY <1>a, <2>0, <3>1, <4>1, <4>2 DEF BackupHolds
    <3>4. CASE Replace(w)
      <4>1. pass[w].pc = "replace" /\ pass[w].picture.ver # 0
        BY <2>0, <3>4 DEF Replace, StageOf, AfterDraw
      <4>2. backup' = backup /\ asset' = pass[w].picture /\ pass'[w].pc = "record"
        BY <2>0, <3>4, ReplaceIs, StageIs
      <4>3. ~ghost.spoilt => (backup = NoFile \/ backup = asset) /\ pass[w].picture # asset
        BY <4>1 DEF BackupHolds
      <4>4. asset' # NoFile
        BY <4>1, <4>2 DEF NoFile
      <4> QED
        BY <1>a, <2>0, <3>1, <4>2, <4>3, <4>4 DEF BackupHolds
    <3> QED
      BY <2>2, <3>2, <3>3, <3>4
  <2> QED
    BY <2>1, <2>2
<1>2. CASE Outside
  <2>1. UNCHANGED <<pass, backup>>
    BY <1>2, OutsideIs
  <2>2. ghost'.spoilt \/ (~ghost.spoilt /\ asset' = asset)
    BY <1>2, GhostMoves
  <2> QED
    BY <2>1, <2>2 DEF BackupHolds
<1>3. CASE Crash
  <2>1. ghost'.spoilt
    <3> DEFINE t == Touched.torn \/ \E w \in Workers : pass[w].pc \in Publishing
    <3>1. ghost' = [Touched EXCEPT !.spoilt = TRUE, !.latest = None, !.torn = t]
      BY <1>3 DEF Crash
    <3> HIDE DEF t
    <3> QED
      BY <3>1 DEF Shapes, Over, Touched
  <2> QED
    BY <2>1 DEF BackupHolds
<1>4. CASE UNCHANGED artworkVars
  BY <1>4 DEF BackupHolds, artworkVars
<1> QED
  BY <1>1, <1>2, <1>3, <1>4, Steps

(***************************************************************************)
(* Artwork: the source and the row's mode                                  *)
(***************************************************************************)
\* From its source on, a pass keeps what it is given and what it found.
LEMMA PassKeeps ==
  ASSUME Shapes, LockHolds, StageHolds, NEW w \in Workers, RenderPass(w), pass[w].pc \in AfterSource
  PROVE  \/ pass'[w] = Idle
         \/ /\ pass'[w].pc \in AfterSource
            /\ pass'[w].cfg = pass[w].cfg /\ pass'[w].title = pass[w].title
            /\ pass'[w].src = pass[w].src /\ pass'[w].fallback = pass[w].fallback
            /\ Fetch(w) \/ (pass'[w].base = pass[w].base /\ pass'[w].deferred = pass[w].deferred)
            /\ Fetch(w) => /\ ~pass'[w].deferred
                           /\ ~pass[w].deferred => pass'[w].base = pass[w].base
<1> DEFINE p == pass[w]
           c == ArtworkConfigs[p.cfg]
           Kin(q) ==
             /\ q.pc \in AfterSource
             /\ q.cfg = p.cfg /\ q.title = p.title /\ q.src = p.src /\ q.fallback = p.fallback
           Same(q) == q.base = p.base /\ q.deferred = p.deferred
<1>0. IsPass(p)
  BY DEF Shapes
<1>a. /\ AfterSource = {"logo", "compare", "fetch", "compose", "publish", "stage", "fill", "replace", "record"}
  BY Stages
<1>b. \A s \in AfterSource : Kin(Put(p, s)) /\ Same(Put(p, s))
  BY <1>0, StageIs
<1>c. \A s \in AfterSource : \A h : Kin(Holding(p, s, h)) /\ Same(Holding(p, s, h))
  BY <1>0, HoldingIs
<1>d. \A x : Kin(Drawn(p, x)) /\ Same(Drawn(p, x))
  BY <1>0, <1>a, DrawnIs
<1>e. \A s \in AfterSource : \A x : Kin(Printed(p, x, s)) /\ Same(Printed(p, x, s))
  BY <1>0, PrintedIs
<1>1. CASE ClaimItem(w) \/ Start(w) \/ Source(w)
  BY <1>1, <1>a DEF ClaimItem, Start, Source
<1>2. CASE Logo(w)
  <2> DEFINE q == Logoed(c, p)
  <2>1. IsPass(q) /\ q.cfg = p.cfg /\ q.title = p.title /\ q.src = p.src /\ q.fallback = p.fallback /\ Same(q)
    BY <1>0, LogoedShape, LogoedKeeps
  <2> HIDE DEF q
  <2>2. Kin(Put(q, "compare")) /\ Same(Put(q, "compare"))
    BY <1>a, <2>1, StageIs
  <2>3. pass'[w] = Idle \/ pass'[w] = Put(q, "compare")
    BY <1>2, LogoIs DEF q
  <2>4. ~Fetch(w)
    BY <1>2 DEF Logo, Fetch
  <2> HIDE DEF p
  <2> QED
    BY <2>2, <2>3, <2>4 DEF p
<1>3. CASE Compare(w)
  <2>1. pass'[w] = Idle \/ \E s \in AfterSource : \E x : pass'[w] = Printed(p, x, s)
    BY <1>3, <1>a, CompareIs
  <2>2. ~Fetch(w)
    BY <1>3 DEF Compare, Fetch
  <2> QED
    BY <1>e, <2>1, <2>2
<1>4. CASE Fetch(w)
  <2> DEFINE q == Completed(c, p)
  <2>1. /\ IsPass(q) /\ q.cfg = p.cfg /\ q.title = p.title /\ q.src = p.src /\ q.fallback = p.fallback
        /\ ~q.deferred /\ (~p.deferred => q.base = p.base)
    BY <1>0, CompletedShape, CompletedKeeps
  <2>3. pass'[w] = Idle \/ \E x : pass'[w] = Printed(q, x, "compose")
    BY <1>4, FetchIs
  <2> HIDE DEF q
  <2>4. \A x : LET z == Printed(q, x, "compose") IN Kin(z) /\ ~z.deferred /\ (~p.deferred => z.base = p.base)
    BY <1>a, <2>1, PrintedIs
  <2> HIDE DEF p
  <2> QED
    BY <1>4, <2>3, <2>4 DEF p
<1>5. CASE Compose(w)
  <2>1. ~Fetch(w)
    BY <1>5 DEF Compose, Fetch
  <2> QED
    BY <1>5, <1>d, <2>1, ComposeIs
<1>6. CASE Publish(w)
  <2>1. ~Fetch(w) /\ (IF SameBytes(p) THEN "record" ELSE "stage") \in AfterSource
    BY <1>6, <1>a DEF Publish, Fetch
  <2> QED
    BY <1>6, <1>b, <2>1, PublishIs
<1>7. CASE OpenStaging(w) \/ FillStaging(w)
  <2>1. ~Fetch(w)
    BY <1>7 DEF OpenStaging, FillStaging, Fetch
  <2> QED
    BY <1>7, <1>a, <1>c, <2>1, OpenStagingIs, FillStagingIs
<1>8. CASE Replace(w)
  <2>1. ~Fetch(w)
    BY <1>8 DEF Replace, Fetch
  <2> QED
    BY <1>8, <1>a, <1>b, <2>1, ReplaceIs
<1>9. CASE Record(w)
  BY <1>9, RecordIs
<1> QED
  BY <1>1, <1>2, <1>3, <1>4, <1>5, <1>6, <1>7, <1>8, <1>9 DEF RenderPass

\* A pass that has just begun has no source, and the one it finds tells its fallback.
LEMMA SourcedMode ==
  ASSUME NEW i \in DOMAIN ArtworkConfigs, world \in Worlds, NEW p, IsPass(p),
         p.src = None, p.fallback = None
  PROVE  LET q == Sourced(ArtworkConfigs[i], p)
         IN  /\ q.fallback \in {None, "show_fallback", "plex_generated"}
             /\ q.fallback = "show_fallback" <=> q.src \in ShowUrls
             /\ q.fallback = "plex_generated" => q.src = "plex"
<1> DEFINE c == ArtworkConfigs[i]
           own == OwnUrl(c)
           show == ShowUrl(c)
           q == Sourced(c, p)
<1>1. /\ own \in OwnUrls \cup {None} /\ show \in ShowUrls \cup {None}
      /\ ShowUrls \cap (OwnUrls \cup {None, "manual", "plex"}) = {}
  BY RungsAnswer, ArtworkUrlsAssumption
<1>2. \A url, f : FromProvider(c, p, url, f).src = url /\ FromProvider(c, p, url, f).fallback = f
  BY DEF FromProvider, IsPass, Over, PassParts
<1>3. /\ [p EXCEPT !.src = "manual", !.base = mount.base, !.local = TRUE].src = "manual"
      /\ [p EXCEPT !.src = "manual", !.base = mount.base, !.local = TRUE].fallback = None
      /\ [p EXCEPT !.src = "plex", !.base = Frame, !.fallback = "plex_generated"].src = "plex"
      /\ [p EXCEPT !.src = "plex", !.base = Frame, !.fallback = "plex_generated"].fallback = "plex_generated"
  BY DEF IsPass, Over, PassParts
<1>4. \/ q = p
      \/ q = [p EXCEPT !.src = "manual", !.base = mount.base, !.local = TRUE]
      \/ own # None /\ q = FromProvider(c, p, own, None)
      \/ show # None /\ q = FromProvider(c, p, show, "show_fallback")
      \/ q = [p EXCEPT !.src = "plex", !.base = Frame, !.fallback = "plex_generated"]
  BY DEF Sourced
<1> HIDE DEF own, show, q
<1>5. CASE q = p
  BY <1>1, <1>5 DEF q, None
<1>6. CASE q = [p EXCEPT !.src = "manual", !.base = mount.base, !.local = TRUE]
  BY <1>1, <1>3, <1>6 DEF q, None
<1>7. CASE own # None /\ q = FromProvider(c, p, own, None)
  BY <1>1, <1>2, <1>7 DEF q, None
<1>8. CASE show # None /\ q = FromProvider(c, p, show, "show_fallback")
  BY <1>1, <1>2, <1>8 DEF q, None
<1>9. CASE q = [p EXCEPT !.src = "plex", !.base = Frame, !.fallback = "plex_generated"]
  BY <1>1, <1>3, <1>9 DEF q, None
<1> QED
  BY <1>4, <1>5, <1>6, <1>7, <1>8, <1>9

\* The row's mode and source are written together.
LEMMA ModeStands ==
  ASSUME Shapes, LockHolds, StageHolds, PrintHolds, RowHolds, ModeHolds, [ArtworkNext]_artworkVars
  PROVE  ModeHolds'
<1> DEFINE Fits(q) == /\ q.fallback \in {None, "show_fallback", "plex_generated"}
                      /\ q.fallback = "show_fallback" <=> q.src \in ShowUrls
                      /\ q.fallback = "plex_generated" => q.src = "plex"
<1>a. {"idle", "start"} \cap AfterSource = {} /\ "record" \in AfterSource /\ "source" \notin AfterSource
  BY Stages
<1>1. ASSUME NEW w \in Workers, RenderPass(w) PROVE ModeHolds'
  <2> DEFINE p == pass[w]
             c == ArtworkConfigs[p.cfg]
  <2>0. OthersStay(w) /\ IsPass(p) /\ p.cfg \in DOMAIN ArtworkConfigs /\ world \in Worlds
    BY <1>1, PassIs DEF Shapes
  <2>1. pass'[w].pc \in AfterSource => Fits(pass'[w])
    <3>1. CASE p.pc \in AfterSource
      <4>1. Fits(p)
        BY <3>1 DEF ModeHolds
      <4>2. pass'[w] = Idle \/ (pass'[w].src = p.src /\ pass'[w].fallback = p.fallback)
        BY <1>1, <3>1, PassKeeps
      <4> QED
        BY <1>a, <4>1, <4>2, IdleIs
    <3>2. CASE Source(w)
      <4> DEFINE q == Sourced(c, p)
      <4>1. p = Put(Begun(p.cfg, p.title), "source")
        BY <3>2 DEF Source, LockHolds
      <4>2. p.src = None /\ p.fallback = None
        BY <4>1, BegunIs, StageIs
      <4>3. IsPass(q) /\ Fits(q)
        BY <2>0, <4>2, SourcedShape, SourcedMode
      <4> HIDE DEF q
      <4>4. Fits(Put(q, "logo"))
        BY <4>3, StageIs
      <4>5. pass'[w] = Idle \/ pass'[w] = Put(q, "logo")
        BY <3>2, SourceIs DEF q
      <4> HIDE DEF Fits
      <4> QED
        BY <1>a, <4>4, <4>5, IdleIs
    <3>3. CASE ClaimItem(w) \/ Start(w)
      <4>1. pass'[w].pc \in {"idle", "start", "source"}
        BY <2>0, <3>3, ClaimIs, StartIs, BegunIs, StageIs, IdleIs
      <4> QED
        BY <1>a, <4>1
    <3>4. p.pc \in AfterSource \/ Source(w) \/ ClaimItem(w) \/ Start(w)
      BY <1>1, Stages DEF RenderPass, Logo, Compare, Fetch, Compose, Publish, OpenStaging, FillStaging, Replace, Record
    <3> QED
      BY <3>1, <3>2, <3>3, <3>4
  <2>2. ModeTellsTheSource'
    <3>0. ModeTellsTheSource
      BY DEF ModeHolds
    <3>1. CASE render' = render
      BY <3>0, <3>1 DEF ModeTellsTheSource
    <3>2. CASE EndsEarly
      BY <3>0, <3>2 DEF ModeTellsTheSource, EndsEarly, Rooted
    <3>3. CASE \E q : EndsSame(c, q)
      BY <3>0, <3>3 DEF ModeTellsTheSource, EndsSame, Rooted
    <3>4. CASE Record(w) /\ render' = Written(p)
      <4>1. Fits(p)
        BY <1>a, <3>4 DEF ModeHolds, Record
      <4>2. render'.src = p.src /\ render'.mode = Mode(p)
        BY <3>4, WrittenIs
      <4>3. Mode(p) = IF p.fallback # None THEN p.fallback ELSE "generate"
        BY DEF Mode, RowHolds
      <4> QED
        BY <4>1, <4>2, <4>3 DEF ModeTellsTheSource, None
    <3> QED
      BY <1>1, <3>1, <3>2, <3>3, <3>4, RowMoves
  <2> QED
    BY <2>0, <2>1, <2>2 DEF ModeHolds, OthersStay
<1>2. CASE Outside
  BY <1>2, OutsideIs, GhostMoves, ClearedIs DEF ModeHolds, ModeTellsTheSource
<1>3. CASE Crash
  BY <1>3, <1>a, CrashIs, IdleIs DEF ModeHolds, ModeTellsTheSource
<1>4. CASE UNCHANGED artworkVars
  BY <1>4 DEF ModeHolds, ModeTellsTheSource, artworkVars
<1> QED
  BY <1>1, <1>2, <1>3, <1>4, Steps

(***************************************************************************)
(* Artwork: a pick reaches the asset                                       *)
(***************************************************************************)
\* While there is an operator's file, it is the source.
LEMMA SourcedPick ==
  ASSUME NEW c, NEW p, IsPass(p), mount.base # None
  PROVE  Sourced(c, p).base = mount.base /\ Sourced(c, p).deferred = p.deferred
BY DEF Sourced, IsPass, Over, PassParts

\* A fingerprint that was taken is not the empty one.
LEMMA PrintIsOne ==
  ASSUME NEW i \in DOMAIN ArtworkConfigs, NEW fp, fp.ver = ArtworkConfigs[i].ver
  PROVE  fp # NoFingerprint
<1>1. fp.ver # 0
  BY ArtworkConfigsAssumption
<1>2. NoFingerprint.ver = 0
  BY DEF NoFingerprint
<1> QED
  BY <1>1, <1>2

\* A pass that looked after the pick was installed draws the pick.
LEMMA PickStandsInPass ==
  ASSUME Shapes, LockHolds, StageHolds, PrintHolds, NEW w \in Workers, RenderPass(w),
         NEW b, b # None, PickStands(b)
  PROVE  PickStands(b)'
<1> DEFINE p == pass[w]
           c == ArtworkConfigs[p.cfg]
<1>0. /\ OthersStay(w) /\ IsPass(p) /\ p.cfg \in DOMAIN ArtworkConfigs /\ StageOf(w) /\ PrintOf(w)
      /\ mount' = mount /\ mount.base = b
  BY PassIs DEF Shapes, StageHolds, PrintHolds, PickStands, Kept
<1>a. /\ {"idle", "start", "source"} \cap AfterSource = {} /\ "record" \in AfterSource /\ "replace" \in AfterSource
      /\ "record" \in Settled
  BY Stages
<1>1. pass'[w].pc \in AfterSource => pass'[w].base = b /\ ~pass'[w].deferred
  <2>1. CASE p.pc \in AfterSource
    <3>1. p.base = b /\ ~p.deferred
      BY <2>1 DEF PickStands
    <3> QED
      BY <1>a, <2>1, <3>1, PassKeeps, IdleIs
  <2>2. CASE Source(w)
    <3> DEFINE q == Sourced(c, p)
    <3>1. p = Put(Begun(p.cfg, p.title), "source")
      BY <2>2 DEF Source, LockHolds
    <3>2. ~p.deferred
      BY <3>1, BegunIs, StageIs
    <3>3. IsPass(q) /\ q.base = b /\ ~q.deferred
      BY <1>0, <3>2, SourcedShape, SourcedPick
    <3> HIDE DEF q
    <3>4. Put(q, "logo").base = b /\ ~Put(q, "logo").deferred
      BY <3>3, StageIs
    <3>5. pass'[w] = Idle \/ pass'[w] = Put(q, "logo")
      BY <2>2, SourceIs DEF q
    <3> QED
      BY <1>a, <3>4, <3>5, IdleIs
  <2>3. CASE ClaimItem(w) \/ Start(w)
    <3>1. pass'[w].pc \in {"idle", "start", "source"}
      BY <1>0, <2>3, ClaimIs, StartIs, BegunIs, StageIs, IdleIs
    <3> QED
      BY <1>a, <3>1
  <2>4. p.pc \in AfterSource \/ Source(w) \/ ClaimItem(w) \/ Start(w)
    BY Stages DEF RenderPass, Logo, Compare, Fetch, Compose, Publish, OpenStaging, FillStaging, Replace, Record
  <2> QED
    BY <2>1, <2>2, <2>3, <2>4
<1>2. render'.fp # NoFingerprint => render'.fp.base = b /\ ~render'.adopted /\ Shows(b)'
  <2>1. CASE Record(w)
    <3>1. p.pc = "record" /\ asset' = asset
      BY <2>1 DEF Record
    <3>2. p.base = b /\ p.fp.base = p.base /\ p.picture.base = p.base /\ (asset = p.picture \/ asset = NoFile)
      BY <1>0, <1>a, <3>1 DEF PickStands, PrintOf, StageOf, AfterDraw
    <3>3. render'.fp = p.fp /\ ~render'.adopted
      BY <2>1, RecordIs, WrittenIs
    <3> QED
      BY <3>1, <3>2, <3>3 DEF Shows
  <2>2. CASE ~Record(w)
    <3>1. UNCHANGED <<render.fp, render.adopted>>
      BY <2>2, RowMoves DEF EndsEarly, EndsSame, Rooted
    <3>2. Replace(w) => p.picture.base = b
      BY <1>0, <1>a DEF Replace, StageOf, AfterDraw, PickStands
    <3> QED
      BY <3>1, <3>2, PassFiles DEF PickStands, Shows
  <2> QED
    BY <2>1, <2>2
<1> QED
  BY <1>0, <1>1, <1>2 DEF PickStands, OthersStay

\* A pass that ends with a rendered row leaves the picked picture.
LEMMA PickEnds ==
  ASSUME Shapes, LockHolds, StageHolds, PrintHolds, NEW w \in Workers, RenderPass(w),
         NEW b, PickStands(b), pass'[w].pc = "idle", render'.status = "rendered", ~queued'
  PROVE  Shows(b)'
<1> DEFINE p == pass[w]
           c == ArtworkConfigs[p.cfg]
<1>0. /\ IsPass(p) /\ p.cfg \in DOMAIN ArtworkConfigs /\ StageOf(w)
      /\ Over(render, RowParts)
  BY DEF Shapes, StageHolds, RowParts
<1>a. render.fp # NoFingerprint => Shows(b) /\ ~render.adopted
  BY DEF PickStands
<1>b. \A q : Unchanged(ComputeFingerprint(c, q, HasLogo(q))) => render.fp # NoFingerprint
  <2>1. \A q : ComputeFingerprint(c, q, HasLogo(q)).ver = c.ver
    BY PrintFields
  <2> QED
    BY <1>0, <2>1, PrintIsOne DEF Unchanged
<1>1. CASE ClaimItem(w)
  BY <1>1, ClaimIs, BegunIs, StageIs
<1>2. CASE Start(w)
  <2>1. CASE Skips(c, p) /\ render' = [render EXCEPT !.status = "skipped"]
    BY <1>0, <2>1 DEF Over, RowParts
  <2>2. CASE StillAdopted(c, p)
    <3>1. render.fp.ver = c.ver /\ render.adopted
      BY <2>2 DEF StillAdopted, AdoptedFingerprint
    <3> QED
      BY <1>0, <1>a, <3>1, PrintIsOne
  <2>3. CASE ~Skips(c, p) /\ ~StillAdopted(c, p)
    <3>1. pass' = [pass EXCEPT ![w].pc = "source"]
      BY <1>2, <2>3 DEF Start
    <3>2. pass'[w] = Put(p, "source")
      BY <3>1 DEF Shapes, Over, Put
    <3> QED
      BY <1>0, <3>2, StageIs
  <2>4. Skips(c, p) => render' = [render EXCEPT !.status = "skipped"]
    BY <1>2 DEF Start, Finish
  <2> QED
    BY <2>1, <2>2, <2>3, <2>4
<1>3. CASE Source(w)
  <2> DEFINE q == Sourced(c, p)
  <2>1. IsPass(q)
    BY <1>0, SourcedShape
  <2> HIDE DEF q
  <2>2. pass'[w] # Put(q, "logo")
    BY <2>1, StageIs
  <2>3. \/ render' = [render EXCEPT !.status = "skipped"]
        \/ render' = [render EXCEPT !.status = "no_art", !.mode = IF @ = "plex_generated" THEN "generate" ELSE @]
        \/ queued'
        \/ pass' = [pass EXCEPT ![w] = Put(q, "logo")]
    BY <1>3 DEF Source, Finish, Abandon, q, Put
  <2>4. pass' # [pass EXCEPT ![w] = Put(q, "logo")]
    BY <2>2 DEF Shapes, Over
  <2> QED
    BY <1>0, <2>3, <2>4 DEF Over, RowParts
<1>4. CASE Logo(w)
  <2>1. IsPass(Logoed(c, p))
    BY <1>0, LogoedShape
  <2>2. Put(Logoed(c, p), "compare").pc = "compare"
    BY <2>1, StageIs
  <2> QED
    BY <1>4, <2>2, LogoIs
<1>5. CASE Compare(w)
  <2>1. \A x, s : Printed(p, x, s).pc = s
    BY <1>0, PrintedIs
  <2>2. Unchanged(ComputeFingerprint(c, p, HasLogo(p)))
    BY <1>5, <2>1, CompareIs
  <2>3. asset' = asset
    BY <1>5 DEF Compare
  <2> QED
    BY <1>a, <1>b, <2>2, <2>3 DEF Shows
<1>6. CASE Fetch(w)
  <2> DEFINE q == Completed(c, p)
             fp == ComputeFingerprint(c, q, HasLogo(q))
  <2>1. \A x : Printed(q, x, "compose").pc = "compose"
    BY <1>0, CompletedShape, PrintedIs
  <2>2. ASSUME NEW refused, Abandon(w, refused) PROVE FALSE
    BY <2>2 DEF Abandon
  <2>3. Unchanged(fp) /\ asset' = asset
    BY <1>6, <2>1, <2>2, FetchIs
  <2> QED
    BY <1>a, <1>b, <2>3 DEF Shows
<1>7. CASE Compose(w)
  <2>1. \A x : Drawn(p, x).pc = "publish"
    BY <1>0, DrawnIs
  <2>2. render' = [render EXCEPT !.status = "truncated"]
    BY <1>7, <2>1, ComposeIs DEF Finish
  <2> QED
    BY <1>0, <2>2 DEF Over, RowParts
<1>8. CASE Publish(w)
  BY <1>0, <1>8, PublishIs, StageIs
<1>9. CASE OpenStaging(w) \/ FillStaging(w)
  BY <1>0, <1>9, OpenStagingIs, FillStagingIs, HoldingIs
<1>10. CASE Replace(w)
  BY <1>0, <1>10, ReplaceIs, StageIs
<1>11. CASE Record(w)
  <2>1. p.pc = "record" /\ asset' = asset
    BY <1>11 DEF Record
  <2>2. p.base = b /\ p.picture.base = p.base /\ (asset = p.picture \/ asset = NoFile)
    BY <1>0, <2>1, Stages DEF PickStands, StageOf
  <2> QED
    BY <2>1, <2>2 DEF Shows
<1> QED
  BY <1>1, <1>2, <1>3, <1>4, <1>5, <1>6, <1>7, <1>8, <1>9, <1>10, <1>11 DEF RenderPass

\* And no other pass is left once the row was cleared.
LEMMA PicksStand ==
  ASSUME Shapes, LockHolds, StageHolds, PrintHolds, PickHolds, [ArtworkNext]_artworkVars
  PROVE  PickHolds'
<1> DEFINE Landed(b) == Shows(b) \/ render.status # "rendered" \/ queued \/ \E w \in Workers : pass[w].pc # "idle"
<1>0. /\ ghost.promised # None => PickStands(ghost.promised) /\ Landed(ghost.promised)
      /\ \A r \in Requests : ghost.latest = r =>
            /\ press[r].pc \in {"installed", "cleared"} /\ press[r].what # None /\ mount.base = press[r].what
            /\ press[r].pc = "cleared" => PickStands(press[r].what)
      /\ Over(ghost, GhostParts) /\ Over(press, Requests) /\ None \notin Requests /\ None \notin Uploads
  BY ArtworkRequestsAssumption DEF PickHolds, Shapes, GhostParts
<1>a. \A x, y : LET g == [Touched EXCEPT !.promised = x, !.latest = y] IN g.promised = x /\ g.latest = y
  BY <1>0 DEF Touched, Over, GhostParts
<1>b. Touched.promised = ghost.promised /\ Touched.latest = ghost.latest
  BY <1>0 DEF Touched, Over, GhostParts
<1>c. \A g, x, y : Over(g, GhostParts) => LET h == [g EXCEPT !.promised = x, !.latest = y] IN h.promised = x /\ h.latest = y
  BY DEF Over, GhostParts
\* Whatever else moves, a pick stands while its file, the passes and the row do.
<1>d. ASSUME mount'.base = mount.base, pass' = pass, render' = render \/ render' = WithoutFingerprint,
             asset' = asset \/ asset' = NoFile
      PROVE  /\ \A b : PickStands(b) => PickStands(b)'
             /\ (queued => queued') => \A b : Landed(b) => Landed(b)'
  <2>1. \A b : Shows(b) => Shows(b)'
    BY <1>d DEF Shows
  <2>2. render'.status = render.status
    BY <1>d, ClearedIs
  <2>3. render'.fp # NoFingerprint => render' = render
    BY <1>d, ClearedIs
  <2> QED
    BY <1>d, <2>1, <2>2, <2>3 DEF PickStands
<1>1. ASSUME NEW w \in Workers, RenderPass(w) PROVE PickHolds'
  <2>1. UNCHANGED <<ghost.promised, ghost.latest, press, mount>>
    BY <1>1, PassFiles, PassIs DEF Kept
  <2>2. \A b : b # None /\ PickStands(b) => PickStands(b)'
    BY <1>1, PickStandsInPass
  <2>3. ASSUME ghost.promised # None PROVE Landed(ghost.promised)'
    <3> DEFINE b == ghost.promised
    <3>1. PickStands(b)
      BY <1>0, <2>3
    <3>2. CASE pass'[w].pc # "idle"
      BY <3>2
    <3>3. CASE pass'[w].pc = "idle"
      <4>1. queued' \/ render'.status # "rendered" \/ (\A x : x = b => Shows(x)')
        BY <1>1, <3>1, <3>3, PickEnds
      <4>2. ghost'.promised = b
        BY <2>1
      <4> QED
        BY <4>1, <4>2
    <3> QED
      BY <3>2, <3>3
  <2> QED
    BY <1>0, <2>1, <2>2, <2>3 DEF PickHolds
\* A request that is not the latest and moves no base image.
<1>e. ASSUME UNCHANGED <<ghost.promised, ghost.latest, mount.base, pass>>, queued => queued',
             render' = render \/ render' = WithoutFingerprint, asset' = asset \/ asset' = NoFile,
             \A r \in Requests : ghost.latest = r => press'[r] = press[r]
      PROVE  PickHolds'
  <2>1. \A b : PickStands(b) => PickStands(b)'
    BY <1>d, <1>e
  <2>2. \A b : Landed(b) => Landed(b)'
    BY <1>d, <1>e
  <2>3. ghost.promised # None => PickStands(ghost.promised)' /\ Landed(ghost.promised)'
    BY <1>0, <1>e, <2>1, <2>2
  <2> HIDE DEF Landed
  <2>4. \A r \in Requests : ghost'.latest = r =>
            /\ press'[r].pc \in {"installed", "cleared"} /\ press'[r].what # None /\ mount'.base = press'[r].what
            /\ press'[r].pc = "cleared" => PickStands(press[r].what)'
    BY <1>0, <1>e, <2>1
  <2> QED
    BY <1>e, <2>3, <2>4 DEF PickHolds, Landed
<1>2. ASSUME NEW r \in Requests, NEW b \in Uploads, InstallBase(r, b) PROVE PickHolds'
  <2>1. ghost'.promised = None /\ ghost'.latest = r
    BY <1>2, <1>a DEF InstallBase
  <2>2. press'[r].pc = "installed" /\ press'[r].what = b /\ mount'.base = b /\ b # None
    BY <1>0, <1>2 DEF InstallBase, Shapes, Over
  <2> QED
    BY <2>1, <2>2 DEF PickHolds
<1>3. ASSUME NEW r \in Requests, ClearManualOverride(r) PROVE PickHolds'
  <2>1. ghost'.promised = None /\ ghost'.latest = None
    BY <1>3, <1>a DEF ClearManualOverride
  <2> QED
    BY <1>0, <2>1 DEF PickHolds
<1>4. ASSUME NEW r \in Requests, NEW s, NEW b, InstallLogo(r, s, b) PROVE PickHolds'
  <2>1. press[r].pc = "idle" /\ press' = [press EXCEPT ![r] = [pc |-> "logo", what |-> s]]
    BY <1>4 DEF InstallLogo, Pressing
  <2>2. ghost.latest # r
    BY <1>0, <2>1
  <2>3. \A q \in Requests : ghost.latest = q => press'[q] = press[q]
    BY <1>0, <2>1, <2>2 DEF Over
  <2>4. mount'.base = mount.base
    BY <1>4 DEF InstallLogo, Shapes, Over
  <2>5. UNCHANGED <<ghost.promised, ghost.latest, pass, render, asset, queued>>
    BY <1>4, <1>b DEF InstallLogo
  <2> QED
    BY <1>e, <2>3, <2>4, <2>5
<1>5. ASSUME NEW r \in Requests, ClearStaleLogoOverrides(r) PROVE PickHolds'
  <2>1. press[r].pc = "logo" /\ \E x : press' = [press EXCEPT ![r] = x]
    BY <1>5 DEF ClearStaleLogoOverrides
  <2>2. ghost.latest # r
    BY <1>0, <2>1
  <2>3. \A q \in Requests : ghost.latest = q => press'[q] = press[q]
    BY <1>0, <2>1, <2>2 DEF Over
  <2>4. mount'.base = mount.base
    BY <1>5 DEF ClearStaleLogoOverrides, Shapes, Over
  <2>5. UNCHANGED <<ghost.promised, ghost.latest, pass, render, asset, queued>>
    BY <1>5, <1>b DEF ClearStaleLogoOverrides
  <2> QED
    BY <1>e, <2>3, <2>4, <2>5
<1>6. ASSUME NEW r \in Requests, ClearFingerprints(r) PROVE PickHolds'
  <2>1. /\ press[r].pc = "installed" /\ locked = "free" /\ render' = WithoutFingerprint
        /\ press' = [press EXCEPT ![r] = [press[r] EXCEPT !.pc = "cleared"]]
        /\ UNCHANGED <<mount, pass, asset, queued>>
    BY <1>6 DEF ClearFingerprints, RowIsFree
  <2>2. UNCHANGED <<ghost.promised, ghost.latest>>
    BY <1>6, <1>b DEF ClearFingerprints
  <2>3. \A b : PickStands(b) => PickStands(b)'
    BY <1>d, <2>1
  <2>4. \A b : Landed(b) => Landed(b)'
    BY <1>d, <2>1
  <2>5. \A w \in Workers : pass[w].pc \notin AfterSource
    BY <2>1, ArtworkWorkersAssumption, Stages DEF LockHolds
  <2>6. \A b : mount.base = b => PickStands(b)'
    BY <2>1, <2>5, ClearedIs DEF PickStands
  <2>7. /\ press'[r].pc = "cleared" /\ press'[r].what = press[r].what
        /\ \A q \in Requests \ {r} : press'[q] = press[q]
    <3>1. Over(press[r], {"pc", "what"})
      BY DEF Shapes
    <3> QED
      BY <1>0, <2>1, <3>1 DEF Over
  <2>8. ghost.promised # None => PickStands(ghost.promised)' /\ Landed(ghost.promised)'
    BY <1>0, <2>2, <2>3, <2>4
  <2> HIDE DEF Landed
  <2>9. ASSUME NEW q \in Requests, ghost'.latest = q
        PROVE  /\ press'[q].pc \in {"installed", "cleared"} /\ press'[q].what # None /\ mount'.base = press'[q].what
               /\ press'[q].pc = "cleared" => PickStands(press[q].what)'
    <3>1. press[q].what # None /\ mount.base = press[q].what
      BY <1>0, <2>2, <2>9
    <3>2. CASE q = r
      <4>1. PickStands(press[q].what)'
        BY <2>1, <2>5, <2>7, <3>1, <3>2, ClearedIs DEF PickStands
      <4> QED
        BY <2>1, <2>7, <3>1, <3>2, <4>1
    <3>3. CASE q # r
      <4>1. press'[q] = press[q]
        BY <2>7, <3>3
      <4>2. press[q].pc = "cleared" => PickStands(press[q].what)'
        BY <1>0, <2>2, <2>3, <2>9, <4>1
      <4> QED
        BY <1>0, <2>1, <2>2, <2>9, <4>1, <4>2
    <3> QED
      BY <3>2, <3>3
  <2> QED
    BY <2>2, <2>8, <2>9 DEF PickHolds, Landed
<1>7. ASSUME NEW r \in Requests, EnqueueReprocess(r) PROVE PickHolds'
  <2>1. /\ press[r].pc = "cleared" /\ queued' /\ UNCHANGED <<mount, pass, render, asset>>
        /\ press' = [press EXCEPT ![r] = NoPress]
    BY <1>7 DEF EnqueueReprocess
  <2>2. CASE ghost.latest = r
    <3>1. ghost'.promised = press[r].what /\ ghost'.latest = None
      BY <1>0, <1>7, <1>c, <2>2 DEF EnqueueReprocess
    <3>2. PickStands(press[r].what)
      BY <1>0, <2>1, <2>2
    <3>3. \A b : PickStands(b) => PickStands(b)'
      BY <1>d, <2>1
    <3>4. PickStands(ghost.promised)'
      <4>1. \A b : b = press[r].what => PickStands(b)'
        BY <3>2, <3>3
      <4> QED
        BY <3>1, <4>1
    <3> QED
      BY <1>0, <2>1, <3>1, <3>4 DEF PickHolds
  <2>3. CASE ghost.latest # r
    <3>1. ghost' = ghost
      BY <1>7, <2>3 DEF EnqueueReprocess
    <3>2. \A q \in Requests : ghost.latest = q => press'[q] = press[q]
      BY <1>0, <2>1, <2>3 DEF Over
    <3> QED
      BY <1>e, <2>1, <3>1, <3>2
  <2> QED
    BY <2>2, <2>3
<1>8. ASSUME NEW r \in Requests, ReprocessItem(r) PROVE PickHolds'
  <2>1. UNCHANGED <<mount, pass, asset, press>> /\ queued' /\ render' = WithoutFingerprint
    BY <1>8 DEF ReprocessItem
  <2>2. UNCHANGED <<ghost.promised, ghost.latest>>
    BY <1>8, <1>b DEF ReprocessItem
  <2> QED
    BY <1>e, <2>1, <2>2
<1>9. CASE Enqueue \/ WorldMoves \/ ConfigMoves \/ AssetLost
  <2>1. UNCHANGED <<mount, pass, render, press>> /\ (queued => queued') /\ (asset' = asset \/ asset' = NoFile)
    BY <1>9 DEF Enqueue, WorldMoves, ConfigMoves, AssetLost
  <2>2. UNCHANGED <<ghost.promised, ghost.latest>>
    <3>1. CASE Enqueue \/ ConfigMoves
      BY <3>1, <1>b DEF Enqueue, ConfigMoves
    <3>2. CASE WorldMoves
      <4>1. ghost' = [Touched EXCEPT !.swapped = @ \/ world'.overlay # world.overlay]
        BY <3>2 DEF WorldMoves
      <4>2. Over(Touched, GhostParts)
        BY <1>0 DEF Touched, Over, GhostParts
      <4> QED
        BY <1>b, <4>1, <4>2 DEF Over, GhostParts
    <3>3. CASE AssetLost
      <4>1. ghost' = [Touched EXCEPT !.spoilt = TRUE]
        BY <3>3 DEF AssetLost
      <4>2. Over(Touched, GhostParts)
        BY <1>0 DEF Touched, Over, GhostParts
      <4> QED
        BY <1>b, <4>1, <4>2 DEF Over, GhostParts
    <3> QED
      BY <1>9, <3>1, <3>2, <3>3
  <2> QED
    BY <1>e, <2>1, <2>2
<1>10. CASE Outside
  BY <1>2, <1>3, <1>4, <1>5, <1>6, <1>7, <1>8, <1>9, <1>10 DEF Outside, Request
<1>11. CASE Crash
  <2>1. ghost'.promised = ghost.promised /\ ghost'.latest = None
    <3> DEFINE t == Touched.torn \/ \E w \in Workers : pass[w].pc \in Publishing
    <3>1. ghost' = [Touched EXCEPT !.spoilt = TRUE, !.latest = None, !.torn = t]
      BY <1>11 DEF Crash
    <3>2. Over(Touched, GhostParts)
      BY <1>0 DEF Touched, Over, GhostParts
    <3> HIDE DEF t
    <3> QED
      BY <1>b, <3>1, <3>2 DEF Over, GhostParts
  <2>2. /\ UNCHANGED <<mount, render, asset>> /\ \A w \in Workers : pass'[w].pc \notin AfterSource
        /\ queued' = (queued \/ \E w \in Workers : pass[w].pc # "idle")
    BY <1>11, CrashIs, IdleIs, Stages DEF Crash
  <2>3. \A b : PickStands(b) => PickStands(b)'
    BY <2>2 DEF PickStands, Shows
  <2>4. \A b : Landed(b) => Landed(b)'
    BY <2>2 DEF Shows
  <2>5. ghost.promised # None => PickStands(ghost.promised)' /\ Landed(ghost.promised)'
    BY <1>0, <2>1, <2>3, <2>4
  <2> QED
    BY <1>0, <2>1, <2>5 DEF PickHolds
<1>12. CASE UNCHANGED artworkVars
  BY <1>12 DEF PickHolds, PickStands, Shows, artworkVars
<1> QED
  BY <1>1, <1>10, <1>11, <1>12, Steps

(***************************************************************************)
(* Artwork: what the next pass would come to                               *)
(***************************************************************************)
\* The steps do not look at a pass's stage, nor the last one at its print.
LEMMA SourcedPut ==
  ASSUME NEW c, NEW p, IsPass(p), NEW s, NEW t
  PROVE  Put(Sourced(c, Put(p, s)), t) = Put(Sourced(c, p), t)
<1> DEFINE q == Sourced(c, Put(p, s))
           r == Sourced(c, p)
<1>1. IsPass(Put(p, s)) /\ IsPass(q) /\ IsPass(r)
  BY StageIs, SourcedShape
<1>2. \A f \in PassParts \ {"pc"} : q[f] = r[f]
  BY DEF Sourced, FromProvider, Put, IsPass, Over, PassParts
<1> HIDE DEF q, r
<1>3. IsPass(Put(q, t)) /\ IsPass(Put(r, t))
  BY <1>1, StageIs
<1>4. \A f \in PassParts : Put(q, t)[f] = Put(r, t)[f]
  BY <1>1, <1>2 DEF Put, IsPass, Over
<1> QED
  BY <1>3, <1>4 DEF q, r, IsPass, Over

\* A logo walk does not look at the stage.
LEMMA WalkedPut ==
  ASSUME NEW c, NEW p, IsPass(p), NEW walk, NEW s, NEW t
  PROVE  Put(Walked(c, Put(p, s), walk), t) = Put(Walked(c, p, walk), t)
<1> DEFINE b == walk.url = None /\ ~c.logoTextFallback
           W(x) == [x EXCEPT !.logo = walk.bytes, !.logoUrl = walk.url, !.logoDeferred = FALSE, !.suppressText = b]
<1>1. \A x : Walked(c, x, walk) = W(x)
  BY DEF Walked
<1> HIDE DEF b
<1>2. IsPass(Put(p, s))
  BY StageIs
<1>3. IsPass(Put(W(p), t)) /\ IsPass(Put(W(Put(p, s)), t))
  BY DEF Put, IsPass, Over, PassParts
<1>4. \A f \in PassParts : Put(W(p), t)[f] = Put(W(Put(p, s)), t)[f]
  BY <1>2 DEF Put, IsPass, Over, PassParts
<1> QED
  BY <1>1, <1>3, <1>4 DEF IsPass, Over

\* Nor does the logo ladder.
LEMMA LogoedPut ==
  ASSUME NEW c, NEW p, IsPass(p), NEW s, NEW t
  PROVE  Put(Logoed(c, Put(p, s)), t) = Put(Logoed(c, p), t)
<1> DEFINE first == FirstLogo(c)
           walk == LogoWalk(world, c.logoOrder, first)
<1>1. CASE kind # "poster" \/ ~c.useLogo \/ (PickedLogo = None /\ c.offline)
  <2>1. \A x : Logoed(c, x) = IF kind # "poster" \/ ~c.useLogo \/ (PickedLogo = None /\ c.offline) THEN x ELSE Logoed(c, x)
    BY DEF Logoed
  <2> QED
    BY <1>1, <2>1 DEF Put, IsPass, Over, PassParts
<1>2. CASE kind = "poster" /\ c.useLogo /\ PickedLogo # None
  <2>1. \A x : Logoed(c, x) = [x EXCEPT !.logo = PickedLogo]
    BY <1>2 DEF Logoed
  <2> QED
    BY <2>1 DEF Put, IsPass, Over, PassParts
<1>3. CASE kind = "poster" /\ c.useLogo /\ PickedLogo = None /\ ~c.offline /\ LogoIsKnown(first)
  <2>1. \A x : Logoed(c, x) = [x EXCEPT !.logo = render.logo, !.logoUrl = first, !.logoFirst = first, !.logoDeferred = TRUE]
    BY <1>3 DEF Logoed
  <2> HIDE DEF first
  <2> DEFINE K(x) == [x EXCEPT !.logo = render.logo, !.logoUrl = first, !.logoFirst = first, !.logoDeferred = TRUE]
  <2>2. IsPass(Put(K(p), t)) /\ IsPass(Put(K(Put(p, s)), t))
    BY DEF Put, IsPass, Over, PassParts
  <2>3. \A f \in PassParts : Put(K(p), t)[f] = Put(K(Put(p, s)), t)[f]
    BY DEF Put, IsPass, Over, PassParts
  <2> QED
    BY <2>1, <2>2, <2>3 DEF IsPass, Over
<1>4. CASE kind = "poster" /\ c.useLogo /\ PickedLogo = None /\ ~c.offline /\ ~LogoIsKnown(first)
  <2>1. \A x : Logoed(c, x) = Walked(c, [x EXCEPT !.logoFirst = first], walk)
    BY <1>4 DEF Logoed
  <2> HIDE DEF first, walk
  <2>2. [Put(p, s) EXCEPT !.logoFirst = first] = Put([p EXCEPT !.logoFirst = first], s) /\ IsPass([p EXCEPT !.logoFirst = first])
    BY DEF Put, IsPass, Over, PassParts
  <2> QED
    BY <2>1, <2>2, WalkedPut
<1> QED
  BY <1>1, <1>2, <1>3, <1>4

\* What a completed pass has of the logo.
LEMMA CompletedLogo ==
  ASSUME NEW c, NEW p, IsPass(p)
  PROVE  LET q == Completed(c, p)
             walk == LogoWalk(world, c.logoOrder, p.logoFirst)
         IN  /\ p.logoDeferred => /\ q.logo = walk.bytes /\ q.logoUrl = walk.url /\ ~q.logoDeferred
                                  /\ q.suppressText <=> walk.url = None /\ ~c.logoTextFallback
             /\ ~p.logoDeferred => /\ q.logo = p.logo /\ q.logoUrl = p.logoUrl /\ ~q.logoDeferred
                                   /\ q.suppressText = p.suppressText
<1> DEFINE walk == LogoWalk(world, c.logoOrder, p.logoFirst)
           W == Walked(c, p, walk)
<1>1. \A q, b : IsPass(q) => LET z == [q EXCEPT !.base = b, !.deferred = FALSE]
                             IN  z.logo = q.logo /\ z.logoUrl = q.logoUrl /\ z.logoDeferred = q.logoDeferred
                                 /\ z.suppressText = q.suppressText
  BY DEF IsPass, Over, PassParts
<1>2. CASE p.logoDeferred
  <2>1. \E b : Completed(c, p) = [W EXCEPT !.base = b, !.deferred = FALSE]
    BY <1>2 DEF Completed
  <2> HIDE DEF walk
  <2>2. /\ IsPass(W) /\ W.logo = walk.bytes /\ W.logoUrl = walk.url /\ ~W.logoDeferred
        /\ W.suppressText <=> walk.url = None /\ ~c.logoTextFallback
    BY WalkedShape, WalkedKeeps, WalkedTakes
  <2> HIDE DEF W
  <2> QED
    BY <1>1, <1>2, <2>1, <2>2 DEF walk
<1>3. CASE ~p.logoDeferred
  <2>1. \E b : Completed(c, p) = [p EXCEPT !.base = b, !.deferred = FALSE]
    BY <1>3 DEF Completed
  <2> QED
    BY <1>1, <1>3, <2>1
<1> QED
  BY <1>2, <1>3

\* Whether the title is left out for a logo.
Shown(p) == HasLogo(p) \/ p.suppressText

\* Passes with the same source, logo and text have the same fingerprint.
LEMMA PrintAlike ==
  ASSUME NEW c, NEW p, NEW q,
         q.src = p.src, q.base = p.base, q.logo = p.logo, q.title = p.title, q.local = p.local,
         q.suppressStyling = p.suppressStyling, Shown(q) <=> Shown(p)
  PROVE  ComputeFingerprint(c, q, HasLogo(q)) = ComputeFingerprint(c, p, HasLogo(p))
BY DEF ComputeFingerprint, DrawsText, Shown

\* The same on the other side of a step that moves nothing outside.
LEMMA NextPrint ==
  ASSUME UNCHANGED <<kind, world, cfg>>, NEW y,
         Comes'.src = y.src, Comes'.base = y.base, Comes'.logo = y.logo, Comes'.title = y.title, Comes'.local = y.local,
         Comes'.suppressStyling = y.suppressStyling, Shown(Comes)' <=> Shown(y)
  PROVE  ComputeFingerprint(Current, Comes, HasLogo(Comes))' = ComputeFingerprint(Current, y, HasLogo(y))
BY DEF ComputeFingerprint, DrawsText, Shown, HasLogo, Current

\* A logo ladder that may walk, and where it starts.
Walks(c) == kind = "poster" /\ c.useLogo /\ PickedLogo = None /\ ~c.offline
Walk(c) == LogoWalk(world, c.logoOrder, FirstLogo(c))

\* The ladder's answers depend on the outside, and on the row's source.
LEMMA FindsSame ==
  ASSUME UNCHANGED <<kind, world, cfg, mount>>, Rooted
  PROVE  UNCHANGED <<Current, Begins, Finds>>
<1>1. Current' = Current /\ Begins' = Begins
  BY DEF Current, Begins
<1>2. \A c, p : Sourced(c, p)' = Sourced(c, p)
  BY DEF Sourced, FromProvider, CanSkipSourceDownload, OwnUrl, ShowUrl, Frame, Rooted, Fetched
<1> QED
  BY <1>1, <1>2 DEF Finds

\* And on the logo the row remembers.
LEMMA ComesSame ==
  ASSUME UNCHANGED <<kind, world, cfg, mount>>, Rooted, UNCHANGED <<render.logoUrl, render.logo>>
  PROVE  Comes' = Comes /\ Yields' = Yields
<1>1. UNCHANGED <<Current, Begins, Finds>>
  BY FindsSame
<1>2. \A c, p : Logoed(c, p)' = Logoed(c, p)
  BY DEF Logoed, LogoIsKnown, FirstLogo, PickedLogo
<1>3. \A c, p : Completed(c, p)' = Completed(c, p)
  BY DEF Completed, Fetched
<1>4. Comes' = Comes
  BY <1>1, <1>2 DEF Comes
<1> QED
  BY <1>1, <1>3, <1>4 DEF Yields

\* A fingerprint overwrites the stage.
LEMMA PrintedPut ==
  ASSUME NEW p, IsPass(p), NEW x, NEW s, NEW t
  PROVE  Printed(Put(p, t), x, s) = Printed(p, x, s)
<1>1. IsPass(Printed(Put(p, t), x, s)) /\ IsPass(Printed(p, x, s))
  BY StageIs, PrintedIs
<1>2. \A f \in PassParts : Printed(Put(p, t), x, s)[f] = Printed(p, x, s)[f]
  BY DEF Printed, Put, IsPass, Over, PassParts
<1> QED
  BY <1>1, <1>2 DEF IsPass, Over

\* Completing a pass does not look at its stage or its fingerprint.
LEMMA CompletedPrinted ==
  ASSUME NEW c, NEW p, IsPass(p), NEW x, NEW s
  PROVE  LET q == Completed(c, Printed(p, x, s))
             r == Completed(c, p)
         IN  /\ q.src = r.src /\ q.base = r.base /\ q.title = r.title /\ q.local = r.local
             /\ q.suppressStyling = r.suppressStyling /\ q.logo = r.logo /\ q.logoUrl = r.logoUrl
             /\ Shown(q) <=> Shown(r)
<1> DEFINE z == Printed(p, x, s)
           q == Completed(c, z)
           r == Completed(c, p)
<1>1. /\ IsPass(z) /\ z.src = p.src /\ z.base = p.base /\ z.title = p.title /\ z.local = p.local
      /\ z.suppressStyling = p.suppressStyling /\ z.logo = p.logo /\ z.logoUrl = p.logoUrl
      /\ z.logoDeferred = p.logoDeferred /\ z.deferred = p.deferred /\ z.suppressText = p.suppressText
      /\ z.logoFirst = p.logoFirst
  BY PrintedIs
<1> HIDE DEF z
<1>2. /\ q.src = r.src /\ q.base = r.base /\ q.title = r.title /\ q.local = r.local
      /\ q.suppressStyling = r.suppressStyling
  BY <1>1, CompletedKeeps
<1>3. q.logo = r.logo /\ q.logoUrl = r.logoUrl /\ (q.suppressText <=> r.suppressText) /\ ~q.logoDeferred /\ ~r.logoDeferred
  BY <1>1, CompletedLogo
<1> HIDE DEF q, r
<1>4. Shown(q) <=> Shown(r)
  BY <1>3 DEF Shown, HasLogo
<1> QED
  BY <1>2, <1>3, <1>4 DEF q, r, z

(***************************************************************************)
(* Artwork: a pass under which nothing moves                               *)
(***************************************************************************)
LEMMA WayOfPass ==
  ASSUME ArtworkInv, NEW w \in Workers, RenderPass(w), locked' = w, ~ghost'.dirty
  PROVE  OnItsWay(w)'
<1> DEFINE p == pass[w]
           c == ArtworkConfigs[p.cfg]
<1> USE DEF ArtworkInv
<1>0. /\ IsPass(p) /\ p.cfg \in DOMAIN ArtworkConfigs /\ StageOf(w) /\ PrintOf(w) /\ OthersStay(w)
      /\ UNCHANGED <<kind, world, cfg, mount>> /\ Over(ghost, GhostParts)
  BY PassIs DEF Shapes, StageHolds, PrintHolds, Kept, GhostParts
<1>a. Settled = {"compose", "publish", "stage", "fill", "replace", "record"}
  BY Stages
<1>b. UNCHANGED <<Current, Begins>> /\ IsPass(Begins) /\ IsPass(Finds) /\ IsPass(Comes)
  BY <1>0, BegunIs, SourcedShape, LogoedShape DEF Current, Begins, Finds, Comes
<1>c. pass'[w].pc # "idle"
  <2>1. LockHolds'
    BY LockStands DEF ArtworkNext
  <2> QED
    BY <2>1, Stages DEF LockHolds
<1>d. ASSUME UNCHANGED <<render, asset, ghost>>
      PROVE  /\ UNCHANGED <<Finds, Comes, Yields>> /\ Skips(Current, Begins)' = Skips(Current, Begins)
             /\ StillAdopted(Current, Begins)' = StillAdopted(Current, Begins)
             /\ ComputeFingerprint(Current, Yields, HasLogo(Yields))' = ComputeFingerprint(Current, Yields, HasLogo(Yields))
  <2>1. UNCHANGED <<Finds, Comes, Yields>>
    BY <1>0, <1>d, FindsSame, ComesSame DEF Rooted
  <2>2. Skips(Current, Begins)' = Skips(Current, Begins) /\ StillAdopted(Current, Begins)' = StillAdopted(Current, Begins)
    BY <1>0, <1>b, <1>d DEF Skips, StillAdopted, AdoptedFingerprint, Digest
  <2>3. ComputeFingerprint(Current, Yields, HasLogo(Yields))' = ComputeFingerprint(Current, Yields, HasLogo(Yields))
    BY <1>0, <1>b, <2>1 DEF ComputeFingerprint, DrawsText, HasLogo
  <2> QED
    BY <2>1, <2>2, <2>3
<1>e. ASSUME p.pc \in Working, ghost' = ghost PROVE locked = w /\ OnItsWay(w)
  BY <1>e DEF LockHolds, WayHolds
<1>1. CASE ClaimItem(w)
  BY <1>1 DEF ClaimItem, LockHolds, Working, AfterSource, Settled, AfterDraw
<1>2. CASE Start(w)
  <2>1. p.pc = "start" /\ p = Put(Begun(p.cfg, p.title), "start") /\ UNCHANGED <<asset>>
    BY <1>2 DEF Start, LockHolds
  <2>2. pass'[w] = Put(p, "source") /\ render' = render
    BY <1>2, <1>c, StartIs, IdleIs
  <2>3. /\ ~Skips(c, p) /\ ~StillAdopted(c, p)
        /\ ghost' = [ghost EXCEPT !.dirty = p.cfg # cfg \/ p.title # world.title, !.swapped = FALSE]
    <3>1. locked' # "free"
      BY ArtworkWorkersAssumption
    <3> QED
      BY <1>2, <3>1 DEF Start, Finish
  <2>4. p.cfg = cfg /\ p.title = world.title
    <3> DEFINE d == p.cfg # cfg \/ p.title # world.title
    <3>1. [ghost EXCEPT !.dirty = d, !.swapped = FALSE].dirty = d
      <4> HIDE DEF d
      <4> QED
        BY <1>0 DEF Over, GhostParts
    <3> QED
      BY <2>3, <3>1
  <2>5. pass'[w].pc = "source" /\ pass'[w].cfg = cfg /\ pass'[w].title = world.title
    BY <1>0, <2>2, <2>4, StageIs
  <2>6. c = Current /\ Begins.title = p.title
    BY <2>4, BegunIs DEF Current, Begins
  <2>7. ~Skips(Current, Begins) /\ ~StillAdopted(Current, Begins)
    BY <2>3, <2>6 DEF Skips, StillAdopted, AdoptedFingerprint
  <2>8. ~Skips(Current, Begins)' /\ ~StillAdopted(Current, Begins)'
    BY <1>0, <1>b, <2>1, <2>2, <2>7 DEF Skips, StillAdopted, AdoptedFingerprint, Digest
  <2> QED
    BY <1>0, <1>a, <2>5, <2>8 DEF OnItsWay, Matches
<1>3. CASE Source(w)
  <2> DEFINE q == Sourced(c, p)
  <2>1. p.pc = "source" /\ p = Put(Begun(p.cfg, p.title), "source")
    BY <1>3 DEF Source, LockHolds
  <2>2. pass'[w] = Put(q, "logo") /\ render' = render /\ IsPass(q) /\ q.cfg = p.cfg /\ q.title = p.title
    BY <1>0, <1>3, <1>c, SourceIs, IdleIs, SourcedKeeps
  <2>3. UNCHANGED <<render, asset, ghost>>
    BY <1>3, <2>2 DEF Source, Abandon
  <2>4. OnItsWay(w)
    BY <1>e, <2>1, <2>3, Stages
  <2>5. c = Current /\ p = Put(Begins, "source")
    BY <2>1, <2>4 DEF OnItsWay, Matches, Current, Begins
  <2>6. pass'[w] = Put(Finds, "logo")
    BY <1>b, <2>2, <2>5, SourcedPut DEF Finds
  <2> HIDE DEF q
  <2>7. pass'[w].pc = "logo" /\ pass'[w].cfg = p.cfg /\ pass'[w].title = p.title
    BY <2>2, StageIs
  <2> QED
    BY <1>0, <1>a, <1>d, <2>1, <2>3, <2>4, <2>6, <2>7 DEF OnItsWay, Matches
<1>4. CASE Logo(w)
  <2> DEFINE q == Logoed(c, p)
  <2>1. p.pc = "logo"
    BY <1>4 DEF Logo
  <2>2. pass'[w] = Put(q, "compare") /\ render' = render /\ IsPass(q) /\ q.cfg = p.cfg /\ q.title = p.title
    <3>1. pass'[w] = Put(q, "compare") /\ render' = render
      BY <1>4, <1>c, LogoIs, IdleIs
    <3> QED
      BY <1>0, <3>1, LogoedShape, LogoedKeeps
  <2>3. UNCHANGED <<render, asset, ghost>>
    BY <1>4, <2>2 DEF Logo, Abandon
  <2>4. OnItsWay(w)
    BY <1>e, <2>1, <2>3, Stages
  <2>5. c = Current /\ p = Put(Finds, "logo")
    BY <2>1, <2>4 DEF OnItsWay, Matches, Current
  <2>6. pass'[w] = Put(Comes, "compare")
    BY <1>b, <2>2, <2>5, LogoedPut DEF Comes
  <2> HIDE DEF q
  <2>7. pass'[w].pc = "compare" /\ pass'[w].cfg = p.cfg /\ pass'[w].title = p.title
    BY <2>2, StageIs
  <2> QED
    BY <1>0, <1>a, <1>d, <2>1, <2>3, <2>4, <2>6, <2>7 DEF OnItsWay, Matches
<1>5. CASE Compare(w)
  <2> DEFINE fp == ComputeFingerprint(c, p, HasLogo(p))
             s == IF p.deferred \/ p.logoDeferred THEN "fetch" ELSE "compose"
  <2>1. p.pc = "compare" /\ UNCHANGED asset
    BY <1>5 DEF Compare
  <2>2. pass'[w] = Printed(p, fp, s) /\ ~Unchanged(fp) /\ UNCHANGED <<render, ghost>>
    BY <1>5, <1>c, CompareIs, IdleIs
  <2>4. OnItsWay(w) /\ locked = w
    BY <1>e, <2>1, <2>2, Stages
  <2>5. c = Current /\ p = Put(Comes, "compare")
    BY <2>1, <2>4 DEF OnItsWay, Matches, Current
  <2>6. fp = ComputeFingerprint(Current, Comes, HasLogo(Comes))
    <3>1. ComputeFingerprint(Current, p, HasLogo(p)) = ComputeFingerprint(Current, Comes, HasLogo(Comes))
      <4>1. /\ p.src = Comes.src /\ p.base = Comes.base /\ p.logo = Comes.logo /\ p.title = Comes.title
            /\ p.local = Comes.local /\ p.suppressText = Comes.suppressText
            /\ p.suppressStyling = Comes.suppressStyling /\ p.logoDeferred = Comes.logoDeferred
        BY <1>b, <2>5, StageIs
      <4> QED
        BY <4>1, PrintSame
    <3> QED
      BY <2>5, <3>1
  <2>7. ghost.moved
    <3>1. \A v \in Workers : pass[v].pc # "record"
      BY <2>1, <2>4, Stages DEF LockHolds
    <3>2. ~Steady
      BY <2>2, <2>6 DEF Steady, Unchanged
    <3>3. ~Skips(Current, Begins) /\ ~StillAdopted(Current, Begins)
      BY <2>1, <2>4 DEF OnItsWay
    <3> QED
      BY <3>1, <3>2, <3>3 DEF SteadyHolds
  <2>8. p.deferred = Comes.deferred /\ p.logoDeferred = Comes.logoDeferred
    BY <1>b, <2>5, StageIs
  <2>9. pass'[w] = Printed(Comes, fp, s)
    BY <1>b, <2>2, <2>5, PrintedPut
  <2> HIDE DEF fp, s
  <2>10. pass'[w].fp = fp /\ pass'[w].pc = s /\ pass'[w].cfg = p.cfg /\ pass'[w].title = p.title
    BY <1>0, <2>2, PrintedIs
  <2>11. Matches(w)'
    BY <1>0, <2>4, <2>10 DEF Matches, OnItsWay
  <2>12. CASE p.deferred \/ p.logoDeferred
    <3>1. s = "fetch"
      BY <2>12 DEF s
    <3>2. pass'[w] = Printed(Comes, pass'[w].fp, "fetch")
      BY <2>9, <2>10, <3>1
    <3> QED
      BY <1>a, <1>d, <2>1, <2>2, <2>7, <2>10, <2>11, <3>1, <3>2 DEF OnItsWay
  <2>13. CASE ~p.deferred /\ ~p.logoDeferred
    <3>1. s = "compose"
      BY <2>13 DEF s
    <3>2. /\ Yields.src = Comes.src /\ Yields.base = Comes.base /\ Yields.title = Comes.title /\ Yields.local = Comes.local
          /\ Yields.suppressStyling = Comes.suppressStyling
      BY <1>b, <2>8, <2>13, CompletedKeeps DEF Yields
    <3>3. /\ Yields.logo = Comes.logo /\ Yields.logoUrl = Comes.logoUrl /\ Yields.suppressText = Comes.suppressText
          /\ ~Yields.logoDeferred /\ ~Comes.logoDeferred
      BY <1>b, <2>8, <2>13, CompletedLogo DEF Yields
    <3>4. fp = ComputeFingerprint(Current, Yields, HasLogo(Yields))
      BY <2>6, <3>2, <3>3, PrintAlike DEF Shown, HasLogo
    <3>5. pass'[w].src = Comes.src /\ pass'[w].base = Comes.base /\ pass'[w].logoUrl = Comes.logoUrl /\ pass'[w].logo = Comes.logo
      BY <1>b, <2>9, PrintedIs
    <3> QED
      BY <1>a, <1>d, <2>1, <2>2, <2>7, <2>10, <2>11, <3>1, <3>2, <3>3, <3>4, <3>5 DEF OnItsWay
  <2> QED
    BY <2>12, <2>13
<1>6. CASE Fetch(w)
  <2> DEFINE q == Completed(c, p)
             fp == ComputeFingerprint(c, q, HasLogo(q))
  <2>1. p.pc = "fetch"
    BY <1>6 DEF Fetch
  <2>2. pass'[w] = Printed(q, fp, "compose") /\ UNCHANGED <<render, ghost, asset>> /\ IsPass(q) /\ q.cfg = p.cfg
    BY <1>6, <1>c, FetchIs, IdleIs
  <2>3. q.title = p.title
    BY <1>0, CompletedKeeps
  <2>4. OnItsWay(w)
    BY <1>e, <2>1, <2>2, Stages
  <2>5. c = Current /\ p = Printed(Comes, p.fp, "fetch") /\ ghost.moved
    BY <2>1, <2>4 DEF OnItsWay, Matches, Current
  <2>6. /\ q.src = Yields.src /\ q.base = Yields.base /\ q.title = Yields.title /\ q.local = Yields.local
        /\ q.suppressStyling = Yields.suppressStyling /\ q.logo = Yields.logo /\ q.logoUrl = Yields.logoUrl
        /\ Shown(q) <=> Shown(Yields)
    BY <1>b, <2>5, CompletedPrinted DEF Yields
  <2>7. fp = ComputeFingerprint(Current, Yields, HasLogo(Yields))
    BY <2>5, <2>6, PrintAlike
  <2> HIDE DEF q, fp
  <2>8. /\ pass'[w].pc = "compose" /\ pass'[w].cfg = q.cfg /\ pass'[w].title = q.title /\ pass'[w].fp = fp
        /\ pass'[w].src = q.src /\ pass'[w].base = q.base /\ pass'[w].logoUrl = q.logoUrl /\ pass'[w].logo = q.logo
    BY <2>2, PrintedIs
  <2>9. Matches(w)'
    BY <1>0, <2>2, <2>3, <2>4, <2>8 DEF Matches, OnItsWay
  <2> QED
    BY <1>a, <1>d, <2>2, <2>5, <2>6, <2>7, <2>8, <2>9 DEF OnItsWay
<1>7. CASE Compose(w) \/ Publish(w) \/ OpenStaging(w) \/ FillStaging(w) \/ Replace(w)
  <2> DEFINE Kin(q) ==
        /\ q.pc \in AfterDraw
        /\ q.cfg = p.cfg /\ q.title = p.title /\ q.src = p.src /\ q.base = p.base
        /\ q.logo = p.logo /\ q.logoUrl = p.logoUrl /\ q.fp = p.fp
  <2>a. AfterDraw = {"publish", "stage", "fill", "replace", "record"}
    BY Stages
  <2>1. p.pc \in Settled /\ ghost' = ghost
    BY <1>7, <1>a, ReplaceIs DEF Compose, Publish, OpenStaging, FillStaging, Replace
  <2>2. \A s \in AfterDraw : Kin(Put(p, s))
    BY <1>0, StageIs
  <2>3. \A s \in AfterDraw : \A h : Kin(Holding(p, s, h))
    BY <1>0, HoldingIs
  <2>4. \A x : Kin(Drawn(p, x))
    BY <1>0, <2>a, DrawnIs
  <2> HIDE DEF Kin
  <2>5. Kin(pass'[w])
    <3>1. CASE Compose(w)
      BY <1>c, <2>4, <3>1, ComposeIs, IdleIs
    <3>2. CASE Publish(w)
      <4>1. (IF SameBytes(p) THEN "record" ELSE "stage") \in AfterDraw
        BY <2>a
      <4> QED
        BY <2>2, <3>2, <4>1, PublishIs
    <3>3. CASE OpenStaging(w)
      BY <2>a, <2>3, <3>3, OpenStagingIs
    <3>4. CASE FillStaging(w)
      BY <2>a, <2>3, <3>4, FillStagingIs
    <3>5. CASE Replace(w)
      BY <2>a, <2>2, <3>5, ReplaceIs
    <3> QED
      BY <1>7, <3>1, <3>2, <3>3, <3>4, <3>5
  <2>6. render' = render
    BY <1>7, <1>c, ComposeIs, IdleIs, ReplaceIs DEF Publish, OpenStaging, FillStaging
  <2>7. OnItsWay(w)
    BY <1>e, <2>1, Stages
  <2>8. UNCHANGED <<Comes, Yields>>
    BY <1>0, <2>6, ComesSame DEF Rooted
  <2>9. ComputeFingerprint(Current, Yields, HasLogo(Yields))' = ComputeFingerprint(Current, Yields, HasLogo(Yields))
    BY <1>0, <1>b, <2>8 DEF ComputeFingerprint, DrawsText, HasLogo
  <2>10. pass'[w].pc = "record" => asset' # NoFile
    <3>1. CASE Publish(w)
      <4>1. CASE SameBytes(p)
        <5>1. p.pc = "publish" /\ asset' = asset /\ asset = p.picture
          BY <3>1, <4>1 DEF Publish, SameBytes
        <5> QED
          BY <1>0, <2>a, <5>1 DEF StageOf, NoFile
      <4>2. CASE ~SameBytes(p)
        BY <1>0, <3>1, <4>2, PublishIs, StageIs
      <4> QED
        BY <4>1, <4>2
    <3>2. CASE Replace(w)
      <4>1. asset' = p.picture /\ p.pc = "replace"
        BY <3>2, ReplaceIs DEF Replace
      <4> QED
        BY <1>0, <2>a, <4>1 DEF StageOf, NoFile
    <3>3. CASE Compose(w)
      <4>1. \A x : Drawn(p, x).pc = "publish"
        BY <1>0, DrawnIs
      <4> QED
        BY <1>c, <3>3, <4>1, ComposeIs, IdleIs
    <3>4. CASE OpenStaging(w) \/ FillStaging(w)
      BY <1>0, <3>4, OpenStagingIs, FillStagingIs, HoldingIs
    <3> QED
      BY <1>7, <3>1, <3>2, <3>3, <3>4
  <2>11. Matches(w)'
    BY <1>0, <2>5, <2>7 DEF Matches, OnItsWay, Kin
  <2>12. pass'[w].pc \notin {"source", "logo", "compare", "fetch"}
    BY <2>5, <2>a DEF Kin
  <2> QED
    BY <1>b, <2>1, <2>5, <2>7, <2>8, <2>9, <2>10, <2>11, <2>12 DEF OnItsWay, Kin
<1>8. CASE Record(w)
  BY <1>8, <1>c, RecordIs, IdleIs
<1> QED
  BY <1>1, <1>2, <1>3, <1>4, <1>5, <1>6, <1>7, <1>8 DEF RenderPass

\* Only the first upsert and the end of a pass write its history.
LEMMA GhostStays ==
  ASSUME ArtworkInv, NEW w \in Workers, RenderPass(w), locked' = w, ~Start(w)
  PROVE  ghost' = ghost
<1>0. locked' # "free"
  BY ArtworkWorkersAssumption
<1>1. CASE ClaimItem(w) \/ Source(w) \/ Logo(w) \/ Compose(w)
  BY <1>1 DEF ClaimItem, Source, Logo, Compose, Abandon
<1>2. CASE Compare(w)
  BY <1>0, <1>2 DEF Compare, RecordUnchanged, Finish
<1>3. CASE Fetch(w)
  <2>1. \/ ghost' = ghost
        \/ \E refused \in BOOLEAN : Abandon(w, refused)
        \/ \E q : RecordUnchanged(w, q)
    BY <1>3 DEF Fetch
  <2> QED
    BY <1>0, <2>1 DEF Abandon, RecordUnchanged, Finish
<1>4. CASE Publish(w) \/ OpenStaging(w) \/ FillStaging(w)
  BY <1>4 DEF Publish, OpenStaging, FillStaging
<1>5. CASE Replace(w)
  BY <1>5, ReplaceIs DEF ArtworkInv
<1>6. CASE Record(w)
  BY <1>0, <1>6 DEF Record, Finish
<1> QED
  BY <1>1, <1>2, <1>3, <1>4, <1>5, <1>6 DEF RenderPass

\* A pass that goes on keeps the configuration and the title it was given.
LEMMA GivenStays ==
  ASSUME ArtworkInv, NEW w \in Workers, RenderPass(w), locked' = w, pass[w].pc \in Working
  PROVE  pass'[w].cfg = pass[w].cfg /\ pass'[w].title = pass[w].title
<1> USE DEF ArtworkInv
<1>0. IsPass(pass[w]) /\ pass'[w].pc # "idle"
  <2>1. LockHolds'
    BY LockStands DEF ArtworkNext
  <2> QED
    BY <2>1, Stages DEF LockHolds, Shapes
<1>1. CASE pass[w].pc \in AfterSource
  BY <1>0, <1>1, PassKeeps, IdleIs
<1>2. CASE pass[w].pc = "source"
  <2> DEFINE q == Sourced(ArtworkConfigs[pass[w].cfg], pass[w])
  <2>1. Source(w)
    BY <1>2 DEF RenderPass, ClaimItem, Start, Source, Logo, Compare, Fetch, Compose, Publish, OpenStaging, FillStaging,
                Replace, Record
  <2>2. pass'[w] = Put(q, "logo")
    BY <1>0, <2>1, SourceIs, IdleIs
  <2>3. IsPass(q) /\ q.cfg = pass[w].cfg /\ q.title = pass[w].title
    BY <1>0, SourcedShape, SourcedKeeps
  <2> HIDE DEF q
  <2> QED
    BY <2>2, <2>3, StageIs
<1> QED
  BY <1>1, <1>2 DEF Working

\* A pass under which nothing moves stays on its way.
LEMMA WayStands ==
  ASSUME ArtworkInv, [ArtworkNext]_artworkVars
  PROVE  WayHolds'
<1> USE DEF ArtworkInv
<1> DEFINE Agrees(w) == ~ghost.moved /\ Matches(w) => ~ghost.dirty
           Way(w) == locked = w => Agrees(w) /\ (~ghost.dirty => OnItsWay(w))
<1>a. ASSUME UNCHANGED <<kind, world, cfg, mount, render, asset, ghost.moved, ghost.dirty>>, NEW v \in Workers, pass'[v] = pass[v], locked' = locked
      PROVE  Way(v)'
  <2>1. UNCHANGED <<Current, Begins, Finds, Comes, Yields>>
    BY <1>a, FindsSame, ComesSame DEF Rooted
  <2>2. Skips(Current, Begins)' = Skips(Current, Begins) /\ StillAdopted(Current, Begins)' = StillAdopted(Current, Begins)
    BY <1>a, <2>1 DEF Skips, StillAdopted, AdoptedFingerprint, Digest
  <2>3. ComputeFingerprint(Current, Yields, HasLogo(Yields))' = ComputeFingerprint(Current, Yields, HasLogo(Yields))
    BY <1>a, <2>1 DEF ComputeFingerprint, DrawsText, HasLogo
  <2>4. Way(v)
    BY DEF WayHolds
  <2>5. Matches(v)' = Matches(v) /\ OnItsWay(v)' = OnItsWay(v)
    BY <1>a, <2>1, <2>2, <2>3 DEF OnItsWay, Matches
  <2> QED
    BY <1>a, <2>4, <2>5
<1>1. ASSUME NEW w \in Workers, RenderPass(w), NEW v \in Workers PROVE Way(v)'
  <2>0. OthersStay(w) /\ UNCHANGED Kept
    BY <1>1, PassIs
  <2>1. CASE locked' # v
    BY <2>1
  <2>2. CASE locked' = v /\ v # w
    <3>1. locked = v /\ pass'[v] = pass[v]
      BY <1>1, <2>0, <2>2, PassGoes, ArtworkWorkersAssumption DEF OthersStay
    <3>2. ClaimItem(w)
      BY <1>1, <2>2, <3>1, OneWorks, Stages DEF LockHolds
    <3> QED
      BY <1>a, <2>2, <3>1, <3>2, ClaimKeeps
  <2>3. CASE locked' = v /\ v = w
    <3>1. ~ghost'.dirty => OnItsWay(w)'
      BY <1>1, <2>3, WayOfPass
    <3>2. Agrees(w)'
      <4>1. CASE Start(w)
        <5> DEFINE d == pass[w].cfg # cfg \/ pass[w].title # world.title
        <5>1. ghost' = [ghost EXCEPT !.dirty = d, !.swapped = FALSE]
          <6>1. locked' # "free"
            BY <2>3, ArtworkWorkersAssumption
          <6> QED
            BY <4>1, <6>1 DEF Start, Finish
        <5>2. ghost'.dirty = d
          <6>1. Over(ghost, GhostParts)
            BY DEF Shapes, GhostParts
          <6> HIDE DEF d
          <6> QED
            BY <5>1, <6>1 DEF Over, GhostParts
        <5>3. pass'[w].cfg = pass[w].cfg /\ pass'[w].title = pass[w].title
          <6>1. IsPass(pass[w])
            BY DEF Shapes
          <6>2. locked' # "free"
            BY <2>3, ArtworkWorkersAssumption
          <6> QED
            BY <4>1, <6>1, <6>2, StartIs, StageIs
        <5> QED
          BY <2>0, <5>2, <5>3 DEF Matches, Kept
      <4>2. CASE ~Start(w)
        <5>1. ghost' = ghost
          BY <1>1, <2>3, <4>2, GhostStays
        <5>2. CASE pass[w].pc \in Working
          <6>1. locked = w
            BY <5>2 DEF LockHolds
          <6>2. pass'[w].cfg = pass[w].cfg /\ pass'[w].title = pass[w].title
            BY <1>1, <2>3, <5>2, GivenStays
          <6> QED
            BY <2>0, <5>1, <6>1, <6>2 DEF Matches, Kept, WayHolds
        <5>3. CASE pass[w].pc \notin Working
          <6>1. ClaimItem(w)
            <7>1. pass[w].pc # "start"
              BY <1>1, <4>2 DEF RenderPass, ClaimItem, Start, Source, Logo, Compare, Fetch, Compose, Publish,
                 OpenStaging, FillStaging, Replace, Record
            <7> QED
              BY <1>1, <5>3, <7>1, OneWorks
          <6>2. locked = w
            BY <2>3, <6>1, ClaimKeeps
          <6> QED
            BY <5>3, <6>2 DEF LockHolds
        <5> QED
          BY <5>2, <5>3
      <4> QED
        BY <4>1, <4>2
    <3> QED
      BY <2>3, <3>1, <3>2
  <2> QED
    BY <2>1, <2>2, <2>3
<1>2. ASSUME Outside, NEW v \in Workers PROVE Way(v)'
  <2>1. UNCHANGED <<kind, pass, locked>>
    BY <1>2, OutsideIs
  <2>2. CASE UNCHANGED <<world, cfg, mount, render, asset, ghost.moved, ghost.dirty>>
    BY <1>a, <2>1, <2>2
  <2>3. CASE ghost'.moved /\ ghost'.dirty
    BY <2>3
  <2> QED
    BY <1>2, <2>2, <2>3, GhostMoves
<1>3. ASSUME Crash, NEW v \in Workers PROVE Way(v)'
  BY <1>3, CrashIs, ArtworkWorkersAssumption
<1>4. ASSUME UNCHANGED artworkVars, NEW v \in Workers PROVE Way(v)'
  BY <1>a, <1>4 DEF artworkVars
<1>5. \A v \in Workers : Way(v)'
  BY <1>1, <1>2, <1>3, <1>4, Steps
<1> QED
  BY <1>5 DEF WayHolds

(***************************************************************************)
(* Artwork: what a finished pass leaves to the next                        *)
(***************************************************************************)
\* The same two ladders, over a given row.
Trusts(r, url) == r.src = url /\ r.base # None /\ r.fp # NoFingerprint
Knows(r, first) == first # None /\ r.logo # None /\ first = r.logoUrl

Provided(r, c, p, url, fallback) ==
  LET known == Trusts(r, url) IN
  [p EXCEPT !.src = url, !.fallback = fallback, !.suppressStyling = c.skipWithText /\ Catalogue[url].claimsText,
            !.deferred = known, !.base = IF known THEN r.base ELSE Fetched(world, url)]

SourcedBy(r, c, p) ==
  IF mount.base # None THEN [p EXCEPT !.src = "manual", !.base = mount.base, !.local = TRUE]
  ELSE IF c.offline THEN p
  ELSE IF OwnUrl(c) # None THEN Provided(r, c, p, OwnUrl(c), None)
  ELSE IF ShowUrl(c) # None THEN Provided(r, c, p, ShowUrl(c), "show_fallback")
  ELSE IF Frame # None THEN [p EXCEPT !.src = "plex", !.base = Frame, !.fallback = "plex_generated"]
  ELSE p

LogoedBy(r, c, p) ==
  IF ~Walks(c) THEN IF kind = "poster" /\ c.useLogo /\ PickedLogo # None THEN [p EXCEPT !.logo = PickedLogo] ELSE p
  ELSE IF Knows(r, FirstLogo(c))
       THEN [p EXCEPT !.logo = r.logo, !.logoUrl = FirstLogo(c), !.logoFirst = FirstLogo(c), !.logoDeferred = TRUE]
  ELSE Walked(c, [p EXCEPT !.logoFirst = FirstLogo(c)], Walk(c))

\* The sources found before and after a step differ by the row alone.
LEMMA FindsBy ==
  ASSUME UNCHANGED <<kind, world, cfg, mount>>
  PROVE  Finds = SourcedBy(render, Current, Begins) /\ Finds' = SourcedBy(render', Current, Begins)
<1>1. Current' = Current /\ Begins' = Begins
  BY DEF Current, Begins
<1>2. \A c, p : Sourced(c, p) = SourcedBy(render, c, p)
  BY DEF Sourced, SourcedBy, FromProvider, Provided, CanSkipSourceDownload, Trusts
<1>3. \A c, p : Sourced(c, p)' = SourcedBy(render', c, p)
  BY DEF Sourced, SourcedBy, FromProvider, Provided, CanSkipSourceDownload, Trusts, OwnUrl, ShowUrl, Frame, Fetched
<1> QED
  BY <1>1, <1>2, <1>3 DEF Finds

\* So do the logos.
LEMMA ComesBy ==
  ASSUME UNCHANGED <<kind, world, cfg, mount>>
  PROVE  Comes = LogoedBy(render, Current, Finds) /\ Comes' = LogoedBy(render', Current, Finds')
<1>1. Current' = Current
  BY DEF Current
<1>2. \A c, p : Logoed(c, p) = LogoedBy(render, c, p)
  BY DEF Logoed, LogoedBy, LogoIsKnown, Knows, Walks, Walk
<1>3. \A c, p : Logoed(c, p)' = LogoedBy(render', c, p)
  BY DEF Logoed, LogoedBy, LogoIsKnown, Knows, Walks, Walk, FirstLogo, PickedLogo
<1> QED
  BY <1>1, <1>2, <1>3 DEF Comes

\* What a row decides of a source, and what it does not.
LEMMA SourcedByIs ==
  ASSUME NEW r, NEW c, NEW p, IsPass(p), ~p.deferred
  PROVE  LET q == SourcedBy(r, c, p)
         IN  /\ IsPass(q) /\ q.title = p.title /\ q.logo = p.logo /\ q.logoUrl = p.logoUrl
             /\ q.logoDeferred = p.logoDeferred /\ q.suppressText = p.suppressText
             /\ q.deferred => Trusts(r, q.src) /\ q.base = r.base
BY DEF SourcedBy, Provided, IsPass, Over, PassParts

\* Over two rows the same rung answers, with bytes that were read or remembered.
LEMMA SourcedByBoth ==
  ASSUME NEW r, NEW s, NEW c, NEW p, IsPass(p), ~p.deferred
  PROVE  LET q == SourcedBy(r, c, p)
             f == SourcedBy(s, c, p)
         IN  /\ q.src = f.src /\ q.local = f.local /\ q.suppressStyling = f.suppressStyling
             /\ \/ q.base = f.base /\ ~q.deferred /\ ~f.deferred
                \/ /\ q.base = IF Trusts(r, f.src) THEN r.base ELSE Fetched(world, f.src)
                   /\ f.base = IF Trusts(s, f.src) THEN s.base ELSE Fetched(world, f.src)
                   /\ f.deferred <=> Trusts(s, f.src)
<1>1. \A t, url, back : LET q == Provided(t, c, p, url, back)
                        IN  /\ q.src = url /\ q.local = p.local
                            /\ q.suppressStyling = (c.skipWithText /\ Catalogue[url].claimsText)
                            /\ q.base = IF Trusts(t, url) THEN t.base ELSE Fetched(world, url)
                            /\ q.deferred = Trusts(t, url)
  BY DEF Provided, IsPass, Over, PassParts
<1>2. ASSUME NEW url, NEW back, SourcedBy(r, c, p) = Provided(r, c, p, url, back), SourcedBy(s, c, p) = Provided(s, c, p, url, back)
      PROVE  LET q == SourcedBy(r, c, p)
                 f == SourcedBy(s, c, p)
             IN  /\ q.src = f.src /\ q.local = f.local /\ q.suppressStyling = f.suppressStyling
                 /\ q.base = IF Trusts(r, f.src) THEN r.base ELSE Fetched(world, f.src)
                 /\ f.base = IF Trusts(s, f.src) THEN s.base ELSE Fetched(world, f.src)
                 /\ f.deferred <=> Trusts(s, f.src)
  BY <1>1, <1>2
<1>3. CASE SourcedBy(r, c, p) = SourcedBy(s, c, p) /\ ~SourcedBy(s, c, p).deferred
  BY <1>3
<1>4. CASE mount.base = None /\ ~c.offline /\ OwnUrl(c) # None
  BY <1>2, <1>4 DEF SourcedBy
<1>5. CASE mount.base = None /\ ~c.offline /\ OwnUrl(c) = None /\ ShowUrl(c) # None
  BY <1>2, <1>5 DEF SourcedBy
<1>6. CASE mount.base # None \/ c.offline \/ (OwnUrl(c) = None /\ ShowUrl(c) = None)
  BY <1>3, <1>6 DEF SourcedBy, IsPass, Over, PassParts
<1> QED
  BY <1>4, <1>5, <1>6

\* What a row decides of a logo.
LEMMA LogoedByIs ==
  ASSUME NEW r, NEW c, NEW p, IsPass(p)
  PROVE  LET q == LogoedBy(r, c, p)
             walk == Walk(c)
         IN  /\ q.src = p.src /\ q.base = p.base /\ q.title = p.title /\ q.local = p.local
             /\ q.suppressStyling = p.suppressStyling /\ q.deferred = p.deferred
             /\ ~Walks(c) => /\ q.logo = IF kind = "poster" /\ c.useLogo /\ PickedLogo # None THEN PickedLogo ELSE p.logo
                             /\ q.logoUrl = p.logoUrl /\ q.logoDeferred = p.logoDeferred /\ q.suppressText = p.suppressText
             /\ Walks(c) /\ Knows(r, FirstLogo(c)) => /\ q.logo = r.logo /\ q.logoUrl = FirstLogo(c)
                                                      /\ q.logoFirst = FirstLogo(c) /\ q.logoDeferred
             /\ Walks(c) /\ ~Knows(r, FirstLogo(c)) =>
                   /\ q.logo = walk.bytes /\ q.logoUrl = walk.url /\ ~q.logoDeferred
                   /\ q.suppressText <=> walk.url = None /\ ~c.logoTextFallback
<1> DEFINE first == FirstLogo(c)
           p1 == [p EXCEPT !.logoFirst = first]
<1>1. CASE ~Walks(c)
  BY <1>1 DEF LogoedBy, IsPass, Over, PassParts
<1>2. CASE Walks(c) /\ Knows(r, first)
  <2>1. LogoedBy(r, c, p) = [p EXCEPT !.logo = r.logo, !.logoUrl = first, !.logoFirst = first, !.logoDeferred = TRUE]
    BY <1>2 DEF LogoedBy
  <2> HIDE DEF first
  <2>2. LET q == [p EXCEPT !.logo = r.logo, !.logoUrl = first, !.logoFirst = first, !.logoDeferred = TRUE]
        IN  /\ q.src = p.src /\ q.base = p.base /\ q.title = p.title /\ q.local = p.local
            /\ q.suppressStyling = p.suppressStyling /\ q.deferred = p.deferred
            /\ q.logo = r.logo /\ q.logoUrl = first /\ q.logoFirst = first /\ q.logoDeferred
    BY DEF IsPass, Over, PassParts
  <2> QED
    BY <1>2, <2>1, <2>2 DEF first
<1>3. CASE Walks(c) /\ ~Knows(r, first)
  <2>1. LogoedBy(r, c, p) = Walked(c, p1, Walk(c))
    BY <1>3 DEF LogoedBy
  <2>2. /\ IsPass(p1)
        /\ p1.src = p.src /\ p1.base = p.base /\ p1.title = p.title /\ p1.local = p.local
        /\ p1.suppressStyling = p.suppressStyling /\ p1.deferred = p.deferred
    BY DEF IsPass, Over, PassParts
  <2> HIDE DEF p1
  <2> QED
    BY <1>3, <2>1, <2>2, WalkedKeeps, WalkedTakes
<1> QED
  BY <1>1, <1>2, <1>3

\* What a walk leaves of its logo in a pass, and then in the row.
HasWalked(q) ==
  LET walk == Walk(Current)
  IN  /\ q.logo = walk.bytes /\ q.logoUrl = walk.url /\ ~q.logoDeferred
      /\ q.suppressText <=> walk.url = None /\ ~Current.logoTextFallback

\* A pass whose source and logo the next one finds again is printed the same.
LogoStaysPut(y) ==
  \/ /\ ~Walks(Current) /\ y.logo = Comes.logo
     /\ (y.suppressText <=> Comes.suppressText) /\ (y.logoDeferred <=> Comes.logoDeferred)
  \/ /\ Walks(Current) /\ Knows(render, FirstLogo(Current)) /\ Knows(render', FirstLogo(Current))
     /\ y.logo = render.logo /\ y.logo = render'.logo /\ y.logoDeferred
  \/ /\ Walks(Current) /\ HasWalked(y)
     /\ y.logoUrl # None => render'.logo = y.logo
     /\ y.logoUrl = None => ~Knows(render', FirstLogo(Current))

\* A pass whose source and logo the next one finds again is printed the same.
LEMMA FindsAgain ==
  ASSUME Shapes, UNCHANGED <<kind, world, cfg, mount>>, NEW y,
         Finds'.src = y.src, Finds'.base = y.base, y.title = Finds.title, y.local = Finds.local,
         y.suppressStyling = Finds.suppressStyling, LogoStaysPut(y)
  PROVE  ComputeFingerprint(Current, Comes, HasLogo(Comes))' = ComputeFingerprint(Current, y, HasLogo(y))
<1> DEFINE walk == Walk(Current)
           first == FirstLogo(Current)
<1>1. /\ Finds = SourcedBy(render, Current, Begins) /\ Finds' = SourcedBy(render', Current, Begins)
      /\ Comes = LogoedBy(render, Current, Finds) /\ Comes' = LogoedBy(render', Current, Finds')
      /\ Current' = Current
  BY FindsBy, ComesBy DEF Current
<1>2. IsPass(Begins) /\ ~Begins.deferred
  BY BegunIs DEF Begins
<1>3. PICK f, g : f = Finds' /\ g = Comes'
  OBVIOUS
<1>4. /\ IsPass(Finds) /\ IsPass(f)
      /\ f.title = Finds.title /\ f.local = Finds.local /\ f.suppressStyling = Finds.suppressStyling
      /\ f.logo = Finds.logo /\ f.logoDeferred = Finds.logoDeferred /\ f.suppressText = Finds.suppressText
  BY <1>1, <1>2, <1>3, SourcedByIs, SourcedByBoth
<1>5. g = LogoedBy(render', Current, f)
  BY <1>1, <1>3
<1>6. /\ g.src = f.src /\ g.base = f.base /\ g.title = f.title /\ g.local = f.local /\ g.suppressStyling = f.suppressStyling
  BY <1>4, <1>5, LogoedByIs
<1>7. cfg \in DOMAIN ArtworkConfigs /\ world \in Worlds
  BY DEF Shapes
<1>8. walk.url = None <=> walk.bytes = None
  <2>1. first \in LogoUrls \cup {None}
    BY <1>7, RungsAnswer DEF Current
  <2> QED
    BY <1>7, <2>1, WalkAnswers DEF Walk, Current
<1> HIDE DEF walk, first
<1>9. g.logo = y.logo /\ (Shown(g) <=> Shown(y))
  <2>1. CASE /\ ~Walks(Current) /\ y.logo = Comes.logo
             /\ (y.suppressText <=> Comes.suppressText) /\ (y.logoDeferred <=> Comes.logoDeferred)
    <3>1. g.logo = Comes.logo /\ g.logoDeferred = Comes.logoDeferred /\ g.suppressText = Comes.suppressText
      BY <1>1, <1>4, <1>5, <2>1, LogoedByIs
    <3> QED
      BY <2>1, <3>1 DEF Shown, HasLogo
  <2>2. CASE /\ Walks(Current) /\ Knows(render, first) /\ Knows(render', first)
             /\ y.logo = render.logo /\ y.logo = render'.logo /\ y.logoDeferred
    <3>1. g.logo = render'.logo /\ g.logoDeferred
      BY <1>4, <1>5, <2>2, LogoedByIs DEF first
    <3> QED
      BY <2>2, <3>1 DEF Shown, HasLogo
  <2>3. CASE /\ Walks(Current) /\ HasWalked(y)
             /\ y.logoUrl # None => render'.logo = y.logo
             /\ y.logoUrl = None => ~Knows(render', first)
    <3>1. CASE Knows(render', first)
      <4>1. g.logo = render'.logo /\ g.logoDeferred
        BY <1>4, <1>5, <2>3, <3>1, LogoedByIs DEF first
      <4>2. y.logoUrl # None /\ y.logo # None /\ y.logo = render'.logo
        BY <1>8, <2>3, <3>1 DEF HasWalked, walk
      <4> QED
        BY <4>1, <4>2 DEF Shown, HasLogo
    <3>2. CASE ~Knows(render', first)
      <4>1. /\ g.logo = walk.bytes /\ ~g.logoDeferred
            /\ g.suppressText <=> walk.url = None /\ ~Current.logoTextFallback
        BY <1>4, <1>5, <2>3, <3>2, LogoedByIs DEF first, walk
      <4> QED
        BY <2>3, <4>1 DEF Shown, HasLogo, HasWalked, walk
    <3> QED
      BY <3>1, <3>2
  <2> QED
    BY <2>1, <2>2, <2>3 DEF LogoStaysPut, first
<1>10. /\ Comes'.src = y.src /\ Comes'.base = y.base /\ Comes'.logo = y.logo /\ Comes'.title = y.title
       /\ Comes'.local = y.local /\ Comes'.suppressStyling = y.suppressStyling /\ (Shown(Comes)' <=> Shown(y))
  BY <1>3, <1>4, <1>6, <1>9 DEF Shown, HasLogo
<1> QED
  BY <1>10, NextPrint

\* What a pass begun now would come to, and what it would yield.
LEMMA ComesIs ==
  ASSUME Shapes, UNCHANGED <<kind, world, cfg, mount>>
  PROVE  /\ IsPass(Finds) /\ IsPass(Comes)
         /\ Finds.title = Begins.title /\ (Finds.deferred => Trusts(render, Finds.src) /\ Finds.base = render.base)
         /\ Comes.src = Finds.src /\ Comes.base = Finds.base /\ Comes.title = Finds.title /\ Comes.local = Finds.local
         /\ Comes.suppressStyling = Finds.suppressStyling /\ Comes.deferred = Finds.deferred
         /\ ~Walks(Current) => ~Comes.logoDeferred
         /\ Walks(Current) /\ Knows(render, FirstLogo(Current)) =>
               /\ Comes.logo = render.logo /\ Comes.logoUrl = FirstLogo(Current)
               /\ Comes.logoFirst = FirstLogo(Current) /\ Comes.logoDeferred
         /\ Walks(Current) /\ ~Knows(render, FirstLogo(Current)) => HasWalked(Comes)
<1>1. Finds = SourcedBy(render, Current, Begins) /\ Comes = LogoedBy(render, Current, Finds)
  BY FindsBy, ComesBy
<1>2. IsPass(Begins) /\ ~Begins.deferred /\ ~Begins.logoDeferred
  BY BegunIs DEF Begins
<1>3. /\ IsPass(Finds) /\ Finds.title = Begins.title /\ ~Finds.logoDeferred
      /\ (Finds.deferred => Trusts(render, Finds.src) /\ Finds.base = render.base)
  BY <1>1, <1>2, SourcedByIs
<1>4. IsPass(Comes)
  BY <1>3, LogoedShape DEF Comes
<1> QED
  BY <1>1, <1>3, <1>4, LogoedByIs DEF HasWalked

\* What a pass begun now would yield.
LEMMA YieldsIs ==
  ASSUME Shapes, UNCHANGED <<kind, world, cfg, mount>>
  PROVE  /\ Yields.src = Finds.src /\ Yields.title = Finds.title /\ Yields.local = Finds.local
         /\ Yields.suppressStyling = Finds.suppressStyling
         /\ Yields.base = IF Finds.deferred THEN Fetched(world, Finds.src) ELSE Finds.base
         /\ ~Walks(Current) => /\ Yields.logo = Comes.logo /\ Yields.suppressText = Comes.suppressText
                               /\ ~Yields.logoDeferred /\ ~Comes.logoDeferred
         /\ Walks(Current) => HasWalked(Yields)
<1>1. /\ Yields.src = Finds.src /\ Yields.title = Finds.title /\ Yields.local = Finds.local
      /\ Yields.suppressStyling = Finds.suppressStyling
      /\ Yields.base = IF Finds.deferred THEN Fetched(world, Finds.src) ELSE Finds.base
  BY ComesIs, CompletedKeeps DEF Yields
<1>2. CASE ~Walks(Current)
  BY <1>1, <1>2, ComesIs, CompletedLogo DEF Yields
<1>3. CASE Walks(Current) /\ Knows(render, FirstLogo(Current))
  <2>1. Comes.logoDeferred /\ Comes.logoFirst = FirstLogo(Current) /\ IsPass(Comes)
    BY <1>3, ComesIs
  <2>2. HasWalked(Yields)
    BY <2>1, CompletedLogo DEF Yields, HasWalked, Walk
  <2> QED
    BY <1>1, <1>3, <2>2
<1>4. CASE Walks(Current) /\ ~Knows(render, FirstLogo(Current))
  <2>1. HasWalked(Comes) /\ IsPass(Comes)
    BY <1>4, ComesIs
  <2>2. HasWalked(Yields)
    BY <2>1, CompletedLogo DEF Yields, HasWalked
  <2> QED
    BY <1>1, <1>4, <2>2
<1> QED
  BY <1>2, <1>3, <1>4

\* A pass that found nothing to draw leaves the next one nothing.
LEMMA CompareSteadies ==
  ASSUME ArtworkInv, NEW w \in Workers, pass[w].pc = "compare", OnItsWay(w),
         UNCHANGED <<kind, world, cfg, mount, asset>>, EndsSame(Current, pass[w])
  PROVE  Steady'
<1> USE DEF ArtworkInv
<1> DEFINE p == pass[w]
           first == FirstLogo(Current)
<1>1. p = Put(Comes, "compare")
  BY DEF OnItsWay
<1>2. /\ p.src = Comes.src /\ p.base = Comes.base /\ p.logo = Comes.logo /\ p.title = Comes.title
      /\ p.local = Comes.local /\ p.suppressText = Comes.suppressText
      /\ p.suppressStyling = Comes.suppressStyling /\ p.logoDeferred = Comes.logoDeferred
      /\ p.logoUrl = Comes.logoUrl
  BY <1>1, ComesIs, StageIs
<1>3. ComputeFingerprint(Current, p, HasLogo(p)) = ComputeFingerprint(Current, Comes, HasLogo(Comes))
  BY <1>2, PrintSame
<1>4. render'.fp = ComputeFingerprint(Current, Comes, HasLogo(Comes)) /\ asset' # NoFile
  BY <1>3 DEF EndsSame, Unchanged, Rooted
<1>5. Finds' = Finds
  BY FindsSame DEF EndsSame
<1>6. /\ render'.logoUrl = IF Comes.logoUrl # None THEN Comes.logoUrl ELSE render.logoUrl
      /\ render'.logo = IF Comes.logoUrl # None THEN Comes.logo ELSE render.logo
  BY <1>2 DEF EndsSame
<1> HIDE DEF first
<1>7. LogoStaysPut(Comes)
  <2>1. CASE ~Walks(Current)
    BY <2>1 DEF LogoStaysPut
  <2>2. CASE Walks(Current) /\ Knows(render, first)
    <3>1. Comes.logo = render.logo /\ Comes.logoUrl = first /\ Comes.logoDeferred
      BY <2>2, ComesIs DEF first
    <3>2. render'.logo = render.logo /\ render'.logoUrl = first
      BY <1>6, <2>2, <3>1 DEF Knows
    <3> QED
      BY <2>2, <3>1, <3>2 DEF LogoStaysPut, Knows, first
  <2>3. CASE Walks(Current) /\ ~Knows(render, first)
    <3>1. HasWalked(Comes)
      BY <2>3, ComesIs DEF first
    <3> QED
      BY <1>6, <2>3, <3>1 DEF LogoStaysPut, Knows, first
  <2> QED
    BY <2>1, <2>2, <2>3
<1>8. ComputeFingerprint(Current, Comes, HasLogo(Comes))' = ComputeFingerprint(Current, Comes, HasLogo(Comes))
  <2>1. Finds'.src = Comes.src /\ Finds'.base = Comes.base /\ Comes.title = Finds.title
        /\ Comes.local = Finds.local /\ Comes.suppressStyling = Finds.suppressStyling
    BY <1>5, ComesIs
  <2> QED
    BY <1>7, <2>1, FindsAgain
<1> QED
  BY <1>4, <1>8 DEF Steady

\* Nor does one that found so once everything was read.
LEMMA FetchSteadies ==
  ASSUME ArtworkInv, NEW w \in Workers, pass[w].pc = "fetch", OnItsWay(w),
         UNCHANGED <<kind, world, cfg, mount, asset>>, EndsSame(Current, Completed(Current, pass[w]))
  PROVE  Steady'
<1> USE DEF ArtworkInv
<1> DEFINE p == pass[w]
           q == Completed(Current, p)
           first == FirstLogo(Current)
<1>1. p = Printed(Comes, p.fp, "fetch") /\ IsPass(Comes)
  BY ComesIs DEF OnItsWay
<1>2. /\ q.src = Yields.src /\ q.base = Yields.base /\ q.title = Yields.title /\ q.local = Yields.local
      /\ q.suppressStyling = Yields.suppressStyling /\ q.logo = Yields.logo /\ q.logoUrl = Yields.logoUrl
      /\ Shown(q) <=> Shown(Yields)
  BY <1>1, CompletedPrinted DEF Yields
<1>3. ComputeFingerprint(Current, q, HasLogo(q)) = ComputeFingerprint(Current, Yields, HasLogo(Yields))
  BY <1>2, PrintAlike
<1>4. /\ render'.fp = ComputeFingerprint(Current, Yields, HasLogo(Yields)) /\ asset' # NoFile
      /\ render.fp = ComputeFingerprint(Current, Yields, HasLogo(Yields))
  BY <1>3 DEF EndsSame, Unchanged, Rooted
<1>5. Finds' = Finds
  BY FindsSame DEF EndsSame
<1>6. /\ render'.logoUrl = IF Yields.logoUrl # None THEN Yields.logoUrl ELSE render.logoUrl
      /\ render'.logo = IF Yields.logoUrl # None THEN Yields.logo ELSE render.logo
  BY <1>2 DEF EndsSame
<1>7. render.base = Yields.base /\ (render.logo # None => render.logo = Yields.logo)
  <2>1. render.fp.ver = Current.ver /\ render.fp.base = Yields.base /\ render.fp.logo = Yields.logo
    BY <1>4, PrintFields
  <2>2. Current.ver # 0
    BY ArtworkConfigsAssumption DEF Current, Shapes
  <2>3. render.fp # NoFingerprint
    BY <2>1, <2>2 DEF NoFingerprint
  <2> QED
    BY <2>1, <2>3 DEF RowHolds
<1> HIDE DEF first, q
<1>8. LogoStaysPut(Yields)
  <2>1. CASE ~Walks(Current)
    BY <2>1, YieldsIs DEF LogoStaysPut
  <2>2. CASE Walks(Current)
    <3>1. HasWalked(Yields)
      BY <2>2, YieldsIs
    <3>2. Yields.logoUrl # None => render'.logo = Yields.logo
      BY <1>6
    <3>3. Yields.logoUrl = None => ~Knows(render', first)
      <4>1. SUFFICES ASSUME Yields.logoUrl = None, Knows(render', first) PROVE FALSE
        OBVIOUS
      <4>2. Knows(render, first)
        BY <1>6, <4>1 DEF Knows
      <4>3. Yields.logo = None
        <5>1. first \in LogoUrls \cup {None} /\ cfg \in DOMAIN ArtworkConfigs /\ world \in Worlds
          BY RungsAnswer DEF Shapes, Current, first
        <5>2. Walk(Current).url = None <=> Walk(Current).bytes = None
          BY <5>1, WalkAnswers DEF Walk, Current, first
        <5> QED
          BY <3>1, <4>1, <5>2 DEF HasWalked
      <4> QED
        BY <1>7, <4>2, <4>3 DEF Knows
    <3> QED
      BY <2>2, <3>1, <3>2, <3>3 DEF LogoStaysPut, first
  <2> QED
    BY <2>1, <2>2
<1>9. Finds.base = Yields.base
  <2>1. CASE Finds.deferred
    BY <1>7, <2>1, ComesIs
  <2>2. CASE ~Finds.deferred
    BY <2>2, YieldsIs
  <2> QED
    BY <2>1, <2>2
<1>10. ComputeFingerprint(Current, Comes, HasLogo(Comes))' = ComputeFingerprint(Current, Yields, HasLogo(Yields))
  BY <1>5, <1>8, <1>9, YieldsIs, FindsAgain
<1> QED
  BY <1>4, <1>10 DEF Steady

\* And one that drew is found as it was recorded.
LEMMA RecordSteadies ==
  ASSUME ArtworkInv, NEW w \in Workers, pass[w].pc = "record", OnItsWay(w),
         UNCHANGED <<kind, world, cfg, mount, asset>>, render' = Written(pass[w])
  PROVE  Steady'
<1> USE DEF ArtworkInv
<1> DEFINE p == pass[w]
           first == FirstLogo(Current)
<1>1. /\ p.src = Yields.src /\ p.base = Yields.base /\ p.logoUrl = Yields.logoUrl /\ p.logo = Yields.logo
      /\ p.fp = ComputeFingerprint(Current, Yields, HasLogo(Yields)) /\ asset # NoFile
  BY Stages DEF OnItsWay
<1>2. /\ render'.fp = p.fp /\ render'.src = p.src /\ render'.base = p.base /\ render'.logoUrl = p.logoUrl
      /\ render'.logo = StoredLogo(p)
  BY WrittenIs
<1>3. render'.fp # NoFingerprint
  <2>1. p.fp.ver = Current.ver
    BY <1>1, PrintFields
  <2>2. Current.ver # 0
    BY ArtworkConfigsAssumption DEF Current, Shapes
  <2> QED
    BY <1>2, <2>1, <2>2 DEF NoFingerprint
<1>4. Finds'.src = Yields.src /\ Finds'.base = Yields.base
  <2>1. Finds = SourcedBy(render, Current, Begins) /\ Finds' = SourcedBy(render', Current, Begins)
    BY FindsBy
  <2>2. IsPass(Begins) /\ ~Begins.deferred
    BY BegunIs DEF Begins
  <2>3. PICK f : f = Finds'
    OBVIOUS
  <2>4. /\ f.src = Finds.src
        /\ \/ f.base = Finds.base /\ ~f.deferred /\ ~Finds.deferred
           \/ /\ f.base = IF Trusts(render', Finds.src) THEN render'.base ELSE Fetched(world, Finds.src)
              /\ Finds.base = IF Trusts(render, Finds.src) THEN render.base ELSE Fetched(world, Finds.src)
              /\ Finds.deferred <=> Trusts(render, Finds.src)
    BY <2>1, <2>2, <2>3, SourcedByBoth
  <2>5. Yields.src = Finds.src /\ Yields.base = IF Finds.deferred THEN Fetched(world, Finds.src) ELSE Finds.base
    BY YieldsIs
  <2>6. CASE f.base = Finds.base /\ ~f.deferred /\ ~Finds.deferred
    BY <2>3, <2>4, <2>5, <2>6
  <2>7. CASE /\ f.base = IF Trusts(render', Finds.src) THEN render'.base ELSE Fetched(world, Finds.src)
             /\ Finds.base = IF Trusts(render, Finds.src) THEN render.base ELSE Fetched(world, Finds.src)
             /\ Finds.deferred <=> Trusts(render, Finds.src)
    <3>1. Yields.base = Fetched(world, Finds.src)
      BY <2>5, <2>7
    <3>2. f.base = Yields.base
      BY <1>1, <1>2, <2>7, <3>1
    <3> QED
      BY <2>3, <2>4, <2>5, <3>2
  <2> QED
    BY <2>4, <2>6, <2>7
<1> HIDE DEF first
<1>5. LogoStaysPut(Yields)
  <2>1. CASE ~Walks(Current)
    BY <2>1, YieldsIs DEF LogoStaysPut
  <2>2. CASE Walks(Current)
    <3>1. HasWalked(Yields)
      BY <2>2, YieldsIs
    <3>2. Yields.logoUrl # None => render'.logo = Yields.logo
      BY <1>1, <1>2 DEF StoredLogo
    <3>3. Yields.logoUrl = None => ~Knows(render', first)
      BY <1>1, <1>2 DEF StoredLogo, Knows
    <3> QED
      BY <2>2, <3>1, <3>2, <3>3 DEF LogoStaysPut, first
  <2> QED
    BY <2>1, <2>2
<1>6. ComputeFingerprint(Current, Comes, HasLogo(Comes))' = ComputeFingerprint(Current, Yields, HasLogo(Yields))
  BY <1>4, <1>5, YieldsIs, FindsAgain
<1> QED
  BY <1>1, <1>2, <1>6 DEF Steady

(***************************************************************************)
(* Artwork: an unchanged item is not drawn                                 *)
(***************************************************************************)
\* A pass begun now draws nothing.
Rests == Skips(Current, Begins) \/ StillAdopted(Current, Begins) \/ Steady

\* Whether a pass begun now draws depends on the outside, the asset and the row.
LEMMA RestsSame ==
  ASSUME UNCHANGED <<kind, world, cfg, mount, asset>>, Rooted, UNCHANGED <<render.logoUrl, render.logo>>
  PROVE  /\ Rests' = Rests
         /\ StillAdopted(Current, Begins)' = StillAdopted(Current, Begins)
<1>1. UNCHANGED <<Current, Begins, Finds, Comes>>
  BY FindsSame, ComesSame
<1>2. Skips(Current, Begins)' = Skips(Current, Begins) /\ StillAdopted(Current, Begins)' = StillAdopted(Current, Begins)
  BY <1>1 DEF Skips, StillAdopted, AdoptedFingerprint, Digest, Rooted
<1>3. Steady' = Steady
  BY <1>1 DEF Steady, ComputeFingerprint, DrawsText, HasLogo, Rooted
<1> QED
  BY <1>2, <1>3 DEF Rests

\* A step that changes nothing the ladders look at.
LEMMA RestsOn ==
  ASSUME ArtworkInv, NEW w \in Workers, RenderPass(w), pass[w].pc # "record",
         asset' = asset, render' = render \/ EndsEarly, ghost'.moved = ghost.moved
  PROVE  SteadyHolds'
<1> USE DEF ArtworkInv
<1>1. OthersStay(w) /\ UNCHANGED Kept
  BY PassIs
<1>2. Rests' = Rests
  BY <1>1, RestsSame DEF EndsEarly, Rooted, Kept
<1>3. (\A v \in Workers : pass'[v].pc # "record") => (\A v \in Workers : pass[v].pc # "record")
  BY <1>1 DEF OthersStay
<1> QED
  BY <1>2, <1>3 DEF SteadyHolds, Rests

\* A pass that ends with nothing moved under it leaves nothing to draw.
LEMMA SteadyOfPass ==
  ASSUME ArtworkInv, NEW w \in Workers, RenderPass(w)
  PROVE  SteadyHolds'
<1> USE DEF ArtworkInv
<1> DEFINE p == pass[w]
           c == ArtworkConfigs[p.cfg]
<1>0. /\ IsPass(p) /\ UNCHANGED Kept /\ OthersStay(w) /\ Over(ghost, GhostParts) /\ Over(render, RowParts)
      /\ UNCHANGED <<kind, world, cfg, mount>> /\ StageOf(w)
  BY PassIs DEF Shapes, GhostParts, RowParts, Kept, StageHolds
<1>a. ASSUME ghost' = [ghost EXCEPT !.moved = ghost.dirty], ~ghost'.moved PROVE ~ghost.dirty
  BY <1>0, <1>a DEF Over, GhostParts
<1>b. ASSUME Steady' PROVE SteadyHolds'
  BY <1>b DEF SteadyHolds
<1>c. ASSUME p.pc \in Working, ~ghost.dirty PROVE OnItsWay(w) /\ c = Current
  <2>1. OnItsWay(w)
    BY <1>c DEF LockHolds, WayHolds
  <2> QED
    BY <2>1 DEF OnItsWay, Matches, Current
<1>d. \A s \in {"skipped", "rendered", "no_art", "failed", "truncated"} :
         render' = [render EXCEPT !.status = s] => EndsEarly
  BY <1>0 DEF EndsEarly, Rooted, Over, RowParts
<1>1. CASE ClaimItem(w)
  BY <1>1, RestsOn DEF ClaimItem
<1>2. CASE Start(w)
  <2>1. p.pc = "start" /\ asset' = asset
    BY <1>2 DEF Start
  <2>2. render' = render \/ EndsEarly
    <3>1. render' = render \/ \E s \in {"skipped", "rendered"} : render' = [render EXCEPT !.status = s]
      BY <1>2 DEF Start, Finish
    <3> QED
      BY <1>d, <3>1
  <2> DEFINE d == p.cfg # cfg \/ p.title # world.title
  <2>3. CASE ghost' = ghost
    BY <1>2, <2>1, <2>2, <2>3, RestsOn
  <2>4. CASE ghost' = [ghost EXCEPT !.dirty = d, !.swapped = FALSE]
    <3>1. ghost'.moved = ghost.moved
      <4> HIDE DEF d
      <4> QED
        BY <1>0, <2>4 DEF Over, GhostParts
    <3> QED
      BY <1>2, <2>1, <2>2, <3>1, RestsOn
  <2>5. CASE StillAdopted(c, p) /\ ghost' = [ghost EXCEPT !.moved = d]
    <3>1. ghost'.moved = d
      <4> HIDE DEF d
      <4> QED
        BY <1>0, <2>5 DEF Over, GhostParts
    <3>2. CASE d
      BY <3>1, <3>2 DEF SteadyHolds
    <3>3. CASE ~d
      <4>1. c = Current /\ Begins.title = p.title
        BY <3>3, BegunIs DEF Current, Begins
      <4>2. StillAdopted(Current, Begins)
        BY <2>5, <4>1 DEF StillAdopted, AdoptedFingerprint
      <4>3. StillAdopted(Current, Begins)'
        BY <1>0, <2>1, <2>2, <4>2, RestsSame DEF EndsEarly, Rooted
      <4> QED
        BY <4>3 DEF SteadyHolds
    <3> QED
      BY <3>2, <3>3
  <2> QED
    BY <1>2, <2>3, <2>4, <2>5 DEF Start
<1>3. CASE Source(w)
  <2>1. p.pc = "source" /\ asset' = asset /\ ghost' = ghost
    BY <1>3 DEF Source, Abandon
  <2>2. render' = render \/ EndsEarly
    BY <1>3, RowMoves DEF Source, Compare, Fetch, Record
  <2> QED
    BY <1>3, <2>1, <2>2, RestsOn
<1>4. CASE Logo(w)
  <2>1. p.pc = "logo" /\ asset' = asset /\ ghost' = ghost
    BY <1>4 DEF Logo, Abandon
  <2>2. render' = render \/ EndsEarly
    BY <1>4, RowMoves DEF Logo, Compare, Fetch, Record
  <2> QED
    BY <1>4, <2>1, <2>2, RestsOn
<1>5. CASE Compare(w)
  <2> DEFINE fp == ComputeFingerprint(c, p, HasLogo(p))
  <2>1. p.pc = "compare" /\ p.pc \in Working /\ asset' = asset
    BY <1>5, Stages DEF Compare
  <2>2. CASE ~Unchanged(fp)
    <3>1. UNCHANGED <<render, ghost>>
      BY <1>5, <2>2, CompareIs
    <3> QED
      BY <1>5, <2>1, <3>1, RestsOn
  <2>3. CASE Unchanged(fp)
    <3>1. RecordUnchanged(w, p)
      BY <1>5, <2>3, CompareIs
    <3>2. ghost' = [ghost EXCEPT !.moved = ghost.dirty]
      BY <3>1 DEF RecordUnchanged
    <3>3. EndsSame(c, p)
      <4> DEFINE url == IF p.logoUrl # None THEN p.logoUrl ELSE render.logoUrl
                 bytes == IF p.logoUrl # None THEN p.logo ELSE render.logo
      <4>1. render' = [render EXCEPT !.status = "rendered", !.logoUrl = url, !.logo = bytes]
        BY <3>1 DEF RecordUnchanged, Finish
      <4> HIDE DEF url, bytes
      <4>2. /\ Rooted /\ render'.status = "rendered" /\ render'.mode = render.mode
            /\ render'.logoUrl = url /\ render'.logo = bytes
        BY <1>0, <4>1 DEF Rooted, Over, RowParts
      <4> QED
        BY <2>3, <4>2 DEF EndsSame, url, bytes
    <3>4. CASE ghost'.moved
      BY <3>4 DEF SteadyHolds
    <3>5. CASE ~ghost'.moved
      <4>1. OnItsWay(w) /\ c = Current
        BY <1>a, <1>c, <2>1, <3>2, <3>5
      <4>2. EndsSame(Current, p)
        BY <3>3, <4>1
      <4> QED
        BY <1>0, <1>b, <2>1, <4>1, <4>2, CompareSteadies
    <3> QED
      BY <3>4, <3>5
  <2> QED
    BY <2>2, <2>3
<1>6. CASE Fetch(w)
  <2> DEFINE q == Completed(c, p)
             fp == ComputeFingerprint(c, q, HasLogo(q))
  <2>1. p.pc = "fetch" /\ p.pc \in Working
    BY <1>6, Stages DEF Fetch
  <2>2. CASE \E refused \in BOOLEAN : Abandon(w, refused)
    <3>1. asset' = asset /\ ghost' = ghost /\ (render' = render \/ render' = [render EXCEPT !.status = "failed"])
      BY <2>2 DEF Abandon, Finish
    <3> QED
      BY <1>6, <1>d, <2>1, <3>1, RestsOn
  <2>3. CASE ~Unchanged(fp) /\ UNCHANGED <<render, ghost, asset>>
    BY <1>6, <2>1, <2>3, RestsOn
  <2>4. CASE Unchanged(fp) /\ RecordUnchanged(w, q) /\ UNCHANGED asset
    <3>2. ghost' = [ghost EXCEPT !.moved = ghost.dirty]
      BY <2>4 DEF RecordUnchanged
    <3>3. EndsSame(c, q)
      <4> DEFINE url == IF q.logoUrl # None THEN q.logoUrl ELSE render.logoUrl
                 bytes == IF q.logoUrl # None THEN q.logo ELSE render.logo
      <4>1. render' = [render EXCEPT !.status = "rendered", !.logoUrl = url, !.logo = bytes]
        BY <2>4 DEF RecordUnchanged, Finish
      <4> HIDE DEF url, bytes
      <4>2. /\ Rooted /\ render'.status = "rendered" /\ render'.mode = render.mode
            /\ render'.logoUrl = url /\ render'.logo = bytes
        BY <1>0, <4>1 DEF Rooted, Over, RowParts
      <4> QED
        BY <2>4, <4>2 DEF EndsSame, url, bytes
    <3>4. CASE ghost'.moved
      BY <3>4 DEF SteadyHolds
    <3>5. CASE ~ghost'.moved
      <4>1. OnItsWay(w) /\ c = Current
        BY <1>a, <1>c, <2>1, <3>2, <3>5
      <4>2. EndsSame(Current, Completed(Current, p))
        BY <3>3, <4>1
      <4> QED
        BY <1>0, <1>b, <2>1, <2>4, <4>1, <4>2, FetchSteadies
    <3> QED
      BY <3>4, <3>5
  <2> QED
    BY <1>6, <2>2, <2>3, <2>4, FetchIs
<1>7. CASE Compose(w)
  <2>1. p.pc = "compose" /\ asset' = asset /\ ghost' = ghost
    BY <1>7 DEF Compose
  <2>2. render' = render \/ render' = [render EXCEPT !.status = "truncated"]
    BY <1>7 DEF Compose, Finish
  <2> QED
    BY <1>7, <1>d, <2>1, <2>2, RestsOn
<1>8. CASE Publish(w)
  <2>1. p.pc = "publish" /\ UNCHANGED <<asset, ghost, render>>
    BY <1>8 DEF Publish
  <2> QED
    BY <1>8, <2>1, RestsOn
<1>9. CASE OpenStaging(w)
  <2>1. p.pc = "stage" /\ UNCHANGED <<asset, ghost, render>>
    BY <1>9 DEF OpenStaging
  <2> QED
    BY <1>9, <2>1, RestsOn
<1>10. CASE FillStaging(w)
  <2>1. p.pc = "fill" /\ UNCHANGED <<asset, ghost, render>>
    BY <1>0, <1>10 DEF FillStaging, StageOf
  <2> QED
    BY <1>10, <2>1, RestsOn
<1>11. CASE Replace(w)
  <2>1. pass'[w].pc = "record"
    BY <1>0, <1>11, ReplaceIs, StageIs
  <2> QED
    BY <2>1 DEF SteadyHolds
<1>12. CASE Record(w)
  <2>1. p.pc = "record" /\ p.pc \in Working /\ asset' = asset
    BY <1>12, Stages DEF Record
  <2>2. render' = Written(p)
    BY <1>12, RecordIs
  <2>3. ghost'.moved = ghost.dirty
    BY <1>0, <1>12 DEF Record, Over, GhostParts
  <2>4. CASE ghost'.moved
    BY <2>4 DEF SteadyHolds
  <2>5. CASE ~ghost'.moved
    <3>1. OnItsWay(w)
      BY <1>c, <2>1, <2>3, <2>5
    <3> QED
      BY <1>0, <1>b, <2>1, <2>2, <3>1, RecordSteadies
  <2> QED
    BY <2>4, <2>5
<1> QED
  BY <1>1, <1>2, <1>3, <1>4, <1>5, <1>6, <1>7, <1>8, <1>9, <1>10, <1>11, <1>12 DEF RenderPass

\* And nothing is left to draw until something moves.
LEMMA SteadyStands ==
  ASSUME ArtworkInv, [ArtworkNext]_artworkVars
  PROVE  SteadyHolds'
<1> USE DEF ArtworkInv
<1>1. ASSUME NEW w \in Workers, RenderPass(w) PROVE SteadyHolds'
  BY <1>1, SteadyOfPass
<1>2. CASE Outside
  <2>1. CASE ghost'.moved
    BY <2>1 DEF SteadyHolds
  <2>2. CASE UNCHANGED <<world, cfg, mount, render, asset, ghost.moved, ghost.dirty>>
    <3>1. UNCHANGED <<kind, pass>>
      BY <1>2, OutsideIs
    <3>2. Rests' = Rests
      BY <2>2, <3>1, RestsSame DEF Rooted
    <3> QED
      BY <2>2, <3>1, <3>2 DEF SteadyHolds, Rests
  <2> QED
    BY <1>2, <2>1, <2>2, GhostMoves
<1>3. CASE Crash
  <2>1. ghost'.moved
    <3> DEFINE t == Touched.torn \/ \E w \in Workers : pass[w].pc \in Publishing
    <3>1. ghost' = [Touched EXCEPT !.spoilt = TRUE, !.latest = None, !.torn = t]
      BY <1>3 DEF Crash
    <3>2. Over(ghost, GhostParts)
      BY DEF Shapes, GhostParts
    <3> HIDE DEF t
    <3> QED
      BY <3>1, <3>2 DEF Touched, Over, GhostParts
  <2> QED
    BY <2>1 DEF SteadyHolds
<1>4. CASE UNCHANGED artworkVars
  <2>1. Rests' = Rests
    BY <1>4, RestsSame DEF Rooted, artworkVars
  <2> QED
    BY <1>4, <2>1 DEF SteadyHolds, Rests, artworkVars
<1> QED
  BY <1>1, <1>2, <1>3, <1>4, Steps

(***************************************************************************)
(* Artwork: the theorems                                                   *)
(***************************************************************************)
\* The invariant holds at first, over an adopted row or a new one.
LEMMA ArtworkBegins == ArtworkInit => ArtworkInv
<1> SUFFICES ASSUME ArtworkInit PROVE ArtworkInv
  OBVIOUS
<1>1. /\ kind \in Kinds /\ world \in FirstWorlds /\ cfg = 1 /\ locked = "free" /\ backup = NoFile /\ staging = NoFile
      /\ pass = [w \in Workers |-> Idle] /\ press = [r \in Requests |-> NoPress] /\ queued = TRUE
      /\ ghost = [moved |-> TRUE, dirty |-> FALSE, torn |-> FALSE, swapped |-> FALSE, spoilt |-> FALSE,
                  promised |-> None, latest |-> None]
      /\ \E base \in {None, "m0"} : mount = [base |-> base, logo |-> [s \in {".png", ".webp"} |-> None]]
  BY DEF ArtworkInit
<1>2. PICK adopted \in BOOLEAN :
         /\ asset = IF adopted THEN Found ELSE NoFile
         /\ render = [fp |-> IF adopted THEN [ver |-> ArtworkConfigs[1].ver, src |-> None, base |-> "found", text |-> world.title,
                                           over |-> world.overlay, logo |-> None]
                                     ELSE NoFingerprint,
                   status |-> IF adopted THEN "rendered" ELSE "new",
                   src |-> None, base |-> IF adopted THEN "found" ELSE None,
                   logoUrl |-> None, logo |-> None, adopted |-> adopted, mode |-> "generate"]
  BY DEF ArtworkInit
<1>3. \A w \in Workers : pass[w] = Idle
  BY <1>1
<1>4. {"idle", "start"} \cap Working = {} /\ "idle" \notin AfterSource /\ "idle" \notin Settled /\ "idle" \notin AfterDraw
  BY Stages
<1>5. Shapes
  <2>1. Over(mount, {"base", "logo"})
    BY <1>1 DEF Over
  <2>2. Over(render, {"fp", "status", "src", "base", "logoUrl", "logo", "adopted", "mode"})
    BY <1>2 DEF Over
  <2>3. Over(ghost, {"moved", "dirty", "torn", "swapped", "spoilt", "promised", "latest"})
    BY <1>1 DEF Over
  <2>4. Over(pass, Workers) /\ Over(press, Requests) /\ \A r \in Requests : Over(press[r], {"pc", "what"})
    BY <1>1 DEF Over, NoPress
  <2>5. world \in Worlds /\ cfg \in DOMAIN ArtworkConfigs
    BY <1>1, ArtworkWorldsAssumption, ArtworkConfigsAssumption
  <2> QED
    BY <1>1, <1>3, <2>1, <2>2, <2>3, <2>4, <2>5, IdleIs, ArtworkConfigsAssumption DEF Shapes
<1>6. LockHolds
  BY <1>1, <1>3, <1>4, IdleIs, ArtworkWorkersAssumption DEF LockHolds
<1>7. StageHolds
  BY <1>3, <1>4, IdleIs DEF StageHolds, StageOf
<1>8. PrintHolds
  BY <1>3, <1>4, IdleIs DEF PrintHolds, PrintOf
<1>9. RowHolds
  BY <1>2 DEF RowHolds, NoFingerprint
<1>10. FileIsWhatTheRowSays
  BY <1>2 DEF FileIsWhatTheRowSays, Found, NoFile, NoFingerprint, Digest
<1>11. NoHalfWrittenAsset
  <2>1. Found.base = "found" /\ NoFile.base = None /\ Partial.base = "partial"
    BY DEF Found, NoFile, Partial
  <2> QED
    BY <1>2, <2>1 DEF NoHalfWrittenAsset, None
<1>12. BackupHolds
  BY <1>1, <1>3, IdleIs DEF BackupHolds
<1>13. ModeHolds
  BY <1>2, <1>3, <1>4, IdleIs, ArtworkUrlsAssumption DEF ModeHolds, ModeTellsTheSource
<1>14. PickHolds
  <2>1. ghost.promised = None /\ ghost.latest = None
    BY <1>1
  <2> QED
    BY <2>1, ArtworkRequestsAssumption DEF PickHolds
<1>15. WayHolds
  BY <1>1, ArtworkWorkersAssumption DEF WayHolds
<1>16. SteadyHolds
  BY <1>1 DEF SteadyHolds
<1> QED
  BY <1>5, <1>6, <1>7, <1>8, <1>9, <1>10, <1>11, <1>12, <1>13, <1>14, <1>15, <1>16 DEF ArtworkInv

\* The rows' lock, the files a pass leaves on disk, what the row remembers and what a
\* pass has in hand stay in step through every step of render_artifact and of the
\* requests that change its source.
THEOREM ArtworkInvariant == ArtworkSpec => []ArtworkInv
<1>1. ArtworkInv /\ [ArtworkNext]_artworkVars => ArtworkInv'
  <2> SUFFICES ASSUME ArtworkInv, [ArtworkNext]_artworkVars PROVE ArtworkInv'
    OBVIOUS
  <2>1. /\ Shapes /\ LockHolds /\ StageHolds /\ PrintHolds /\ RowHolds /\ FileIsWhatTheRowSays
        /\ NoHalfWrittenAsset /\ BackupHolds /\ ModeHolds /\ PickHolds /\ WayHolds /\ SteadyHolds
    BY DEF ArtworkInv
  <2>2. Shapes' /\ LockHolds' /\ StageHolds'
    BY <2>1, ShapesStand, LockStands, StageStands
  <2>3. PrintHolds' /\ RowHolds' /\ ModeHolds'
    BY <2>1, PrintStands, RowStands, ModeStands
  <2>4. FileIsWhatTheRowSays' /\ NoHalfWrittenAsset' /\ BackupHolds'
    BY <2>1, FileStands, AssetStands, BackupStands
  <2>5. PickHolds'
    BY <2>1, PicksStand
  <2>6. WayHolds' /\ SteadyHolds'
    BY WayStands, SteadyStands
  <2> QED
    BY <2>2, <2>3, <2>4, <2>5, <2>6 DEF ArtworkInv
<1> QED
  BY ArtworkBegins, <1>1, PTL DEF ArtworkSpec

\* A rendered asset is what its row says, never half written, drawn again only when
\* something it is drawn from changed; a pick reaches the asset, the backup is another
\* picture, and the row's mode tells where the picture came from: for any number of
\* workers and requests, any provider ladder, any configurations, any outside.
THEOREM ArtworkIsSafe == ArtworkSpec => []ArtworkSafety
<1>1. ArtworkInv => ArtworkSafety
  <2> SUFFICES ASSUME ArtworkInv PROVE ArtworkSafety
    OBVIOUS
  <2> USE DEF ArtworkInv
  <2>1. ArtworkTypeOK
    BY Stages DEF ArtworkTypeOK, Shapes, LockHolds, RowHolds, Publishing
  <2>2. OnlyChangesAreDrawn
    <3>1. SUFFICES ASSUME NEW w \in Workers, pass[w].pc \in {"compose", "publish"}, Matches(w), ~ghost.moved
                   PROVE  FALSE
      BY DEF OnlyChangesAreDrawn, Matches
    <3>2. pass[w].pc \in Settled /\ locked = w
      BY <3>1, Stages DEF LockHolds
    <3> QED
      BY <3>1, <3>2 DEF WayHolds, OnItsWay
  <2>3. PicksReachTheAsset
    BY DEF PicksReachTheAsset, PickHolds, Shows
  <2>4. BackupIsAnotherPicture
    BY DEF BackupIsAnotherPicture, BackupHolds, Publishing
  <2>5. ModeTellsTheSource
    BY DEF ModeHolds
  <2> QED
    BY <2>1, <2>2, <2>3, <2>4, <2>5 DEF ArtworkSafety
<1> QED
  BY ArtworkInvariant, <1>1, PTL

============================================================================
