--------------------------- MODULE PipelineProofs ---------------------------
(***************************************************************************)
(* Proofs about CatchUp, for any number of renders, runs, starters and     *)
(* passes, and about Library, for any installation, any servers and any    *)
(* bounds.                                                                 *)
(*                                                                         *)
(* CatchUp: most actions leave the runs and the starters alone and write   *)
(* rows that keep their run, or leave it (Kept); one lemma covers them.    *)
(* What is left is a start that marks, a drain that ends and a cancel.     *)
(*                                                                         *)
(* Library: what a prune or a merge has read still stands (Undisturbed)    *)
(* for the rows and refs that no worker has stamped since, whatever the    *)
(* workers write. A prune's list deals with a row before the rows above    *)
(* it, and a row it passes over shields the one above, so that a cascade   *)
(* finds nothing in its place to take.                                     *)
(***************************************************************************)
EXTENDS CatchUp, Library, FiniteSetTheorems, NaturalsInduction, WellFoundedInduction, TLAPS


\* What the argument needs of the types; the passes and the tallies do not matter.
Typed ==
    /\ facts \in Nat
    /\ row \in [Renders -> Row]
    /\ run \in [RunIds -> Run]
    /\ pipe.data \in Nat
    /\ pipe.verdict \in Verdicts

\* A start in progress is the only one, and found no run open.
Starting == (\A s, t \in start : s = t) /\ (start /= {} => Open = {})

\* Inside a run, what a cancel restores is what the run found.
Remembered == \A x \in Renders : row[x].run /= 0 => row[x].prev = row[x].was

IInv == Typed /\ Starting /\ OneOpenRun /\ NoStrandedRow /\ Remembered

\* A row is written without entering a run.
Kept(old, new) ==
    /\ new \in Row
    /\ new.run = 0 \/ (new.run = old.run /\ new.prev = old.prev /\ new.was = old.was)

-----------------------------------------------------------------------------
(* The outcomes *)

\* A row that stays as it is is kept.
LEMMA SameKept == ASSUME NEW old \in Row PROVE Kept(old, old)
  BY DEF Kept

\* _upsert_outcome, a counted pending or failed: the row stays in its run.
LEMMA CountedKept ==
  ASSUME NEW old \in Row, NEW status \in Statuses
  PROVE Kept(old, Counted(old, status))
  <1>1. CASE old.status = "absent"
    BY <1>1 DEF Kept, Counted
  <1>2. CASE old.status /= "absent"
    <2> DEFINE new == [old EXCEPT !.status = status, !.attempts = @ + 1]
    <2>1. Counted(old, status) = new
      BY <1>2 DEF Counted
    <2>2. old.attempts + 1 \in Nat
      BY DEF Row
    <2>3. new \in Row
      BY <2>2 DEF Row
    <2>4. new.run = old.run /\ new.prev = old.prev /\ new.was = old.was
      BY DEF Row
    <2> QED BY <2>1, <2>3, <2>4 DEF Kept
  <1> QED BY <1>1, <1>2

\* _upsert_outcome, a wait: the row stays in its run.
LEMMA WaitsKept == ASSUME NEW old \in Row PROVE Kept(old, Waits(old))
  BY DEF Kept, Waits, Row, Statuses

\* The re-arm leaves the run.
LEMMA RearmedKept == ASSUME NEW old \in Row PROVE Kept(old, Rearmed(old))
  BY DEF Kept, Rearmed, Row, NoRow, Statuses

\* _upsert_outcome, a settled row stays in its run.
LEMMA SettledKept ==
  ASSUME NEW old \in Row, NEW status \in Statuses, NEW fp \in Nat
  PROVE Kept(old, Settled(old, status, fp))
  BY DEF Kept, Settled, Row

\* An unreachable server: the row stays in its run, pending or failed.
LEMMA UnreachedKept == ASSUME NEW old \in Row PROVE Kept(old, Unreached(old))
  <1> DEFINE once == Counted(old, "pending")
  <1>1. "pending" \in Statuses /\ "failed" \in Statuses
    BY DEF Statuses
  <1>2. Kept(old, once)
    BY <1>1, CountedKept
  <1>3. once \in Row
    BY <1>2 DEF Kept
  <1>4. Kept(once, Counted(once, "failed"))
    BY <1>1, <1>3, CountedKept
  <1>5. Unreached(old) = once \/ Unreached(old) = Counted(once, "failed")
    BY DEF Unreached
  <1> HIDE DEF once
  <1> QED BY <1>2, <1>4, <1>5 DEF Kept

\* apply_presence: the row stays in its run.
LEMMA PresenceKept == ASSUME NEW old \in Row, NEW told PROVE Kept(old, Presence(old, told))
  <1>1. CASE told = "gone" /\ old.status /= "uploaded"
    BY <1>1 DEF Kept, Presence, Row, Statuses
  <1>2. CASE told = "here" /\ old.status = "absent"
    BY <1>2 DEF Kept, Presence, Row, Statuses
  <1>3. CASE ~(told = "gone" /\ old.status /= "uploaded") /\ ~(told = "here" /\ old.status = "absent")
    BY <1>3 DEF Kept, Presence
  <1> QED BY <1>1, <1>2, <1>3

\* finish_catch_up's release empties the run.
LEMMA ReleasedKept ==
  ASSUME NEW old \in Row, NEW r
  PROVE Kept(old, Released(old, r)) /\ (r /= 0 => Released(old, r).run /= r)
  BY DEF Kept, Released, Row, Statuses

\* cancel_catch_up leaves no row in the run.
LEMMA CancelledKept ==
  ASSUME NEW old \in Row, NEW r \in RunIds
  PROVE Kept(old, Cancelled(old, r)) /\ Cancelled(old, r).run /= r
  <1>0. r /= 0
    BY RunIdAssumption
  <1>1. CASE old.run = r /\ old.status = "pending" /\ old.prev = "none"
    BY <1>0, <1>1 DEF Kept, Cancelled, NoRow, Row, Statuses
  <1>2. CASE old.run = r /\ old.status = "pending" /\ old.prev /= "none"
    BY <1>0, <1>2 DEF Kept, Cancelled, Row, Statuses
  <1>3. CASE ~(old.run = r /\ old.status = "pending")
    <2>1. Cancelled(old, r) = Released(old, r)
      BY <1>3 DEF Cancelled
    <2> QED BY <1>0, <2>1, ReleasedKept
  <1> QED BY <1>1, <1>2, <1>3

\* The marking: the row is untouched, or enters the run remembering what it was.
LEMMA ArmedRow ==
  ASSUME NEW x \in Renders, NEW old \in Row, NEW r \in RunIds, old.run = 0
  PROVE /\ Armed(x, old, r) \in Row
        /\ \/ Armed(x, old, r) = old
           \/ Armed(x, old, r).run = r /\ Armed(x, old, r).prev = Armed(x, old, r).was
  BY DEF Armed, Row, Statuses

-----------------------------------------------------------------------------
(* Initially *)

\* No row, no run and no start: the inductive invariant holds.
LEMMA InitIInv == Init => IInv
  <1> SUFFICES ASSUME Init PROVE IInv
    OBVIOUS
  <1>1. Typed
    BY DEF Init, Typed, Row, NoRow, Run, Statuses, NoPipe, Verdicts
  <1>2. Open = {}
    BY DEF Init, Open
  <1>3. \A x \in Renders : row[x].run = 0
    BY DEF Init, NoRow
  <1> QED BY <1>1, <1>2, <1>3 DEF Init, IInv, Starting, OneOpenRun, NoStrandedRow, Remembered

-----------------------------------------------------------------------------
(* Steps that open or close no run *)

\* Rows that are kept, and the runs and starts left alone, keep the invariant.
LEMMA QuietStep ==
  ASSUME IInv, Typed', run' = run, start' \subseteq start,
         \A x \in Renders : Kept(row[x], row'[x])
  PROVE IInv'
  <1>1. Open' = Open
    BY DEF Open
  <1>2. Starting'
    BY <1>1 DEF IInv, Starting
  <1>3. OneOpenRun'
    BY <1>1 DEF IInv, OneOpenRun
  <1>4. NoStrandedRow'
    BY <1>1 DEF IInv, NoStrandedRow, Kept
  <1>5. Remembered'
    BY DEF IInv, Remembered, Kept
  <1> QED BY <1>2, <1>3, <1>4, <1>5 DEF IInv

\* One row is written, and kept: the function stays a function of rows.
LEMMA WriteKept ==
  ASSUME Typed, NEW x \in Renders, NEW new, Kept(row[x], new), Write(x, new)
  PROVE row' \in [Renders -> Row] /\ \A y \in Renders : Kept(row[y], row'[y])
  <1>1. row' = [row EXCEPT ![x] = new] /\ new \in Row
    BY DEF Write, Kept
  <1>2. row' \in [Renders -> Row]
    BY <1>1 DEF Typed
  <1>3. \A y \in Renders : row[y] \in Row
    BY DEF Typed
  <1>4. \A y \in Renders : row'[y] = IF y = x THEN new ELSE row[y]
    BY <1>1 DEF Typed
  <1> QED BY <1>2, <1>3, <1>4, SameKept

\* A row of a batch that ends with a kept outcome.
LEMMA EndsStep ==
  ASSUME IInv, NEW p, NEW x \in Renders, NEW new, Kept(row[x], new), Ends(p, x, new)
  PROVE IInv'
  <1>1. Typed /\ Write(x, new) /\ facts' = facts /\ run' = run /\ start' = start /\ pipe' = pipe
    BY DEF IInv, Ends
  <1>2. row' \in [Renders -> Row] /\ \A y \in Renders : Kept(row[y], row'[y])
    BY <1>1, WriteKept
  <1>3. Typed'
    BY <1>1, <1>2 DEF Typed
  <1> QED BY <1>1, <1>2, <1>3, QuietStep

\* The pipeline's record of a kept outcome.
LEMMA PipeWritesStep ==
  ASSUME IInv, NEW x \in Renders, NEW new, Kept(row[x], new), PipeWrites(x, new)
  PROVE IInv'
  <1>1. Typed /\ Write(x, new) /\ facts' = facts /\ run' = run /\ start' = start /\ pipe' = NoPipe
    BY DEF IInv, PipeWrites
  <1>2. row' \in [Renders -> Row] /\ \A y \in Renders : Kept(row[y], row'[y])
    BY <1>1, WriteKept
  <1>3. Typed'
    BY <1>1, <1>2 DEF Typed, NoPipe, Verdicts
  <1> QED BY <1>1, <1>2, <1>3, QuietStep

\* Every row at once, each kept.
LEMMA AllKeptStep ==
  ASSUME IInv, row' = [x \in Renders |-> row'[x]], \A x \in Renders : Kept(row[x], row'[x]),
         facts' = facts, run' = run, start' \subseteq start, pipe' = pipe
  PROVE IInv'
  <1>1. row' \in [Renders -> Row] /\ \A x \in Renders : Kept(row[x], row'[x])
    BY DEF Kept
  <1>2. Typed'
    BY <1>1 DEF IInv, Typed
  <1> QED BY <1>1, <1>2, QuietStep

\* Steps that write no row.
LEMMA NoRowStep ==
  ASSUME IInv, row' = row, run' = run, start' \subseteq start,
         facts' \in Nat, pipe'.data \in Nat, pipe'.verdict \in Verdicts
  PROVE IInv'
  <1>1. Typed'
    BY DEF IInv, Typed
  <1>2. \A x \in Renders : Kept(row[x], row'[x])
    BY SameKept DEF IInv, Typed
  <1> QED BY <1>1, <1>2, QuietStep

-----------------------------------------------------------------------------
(* One lemma per family of actions *)

\* The retry passes: a row ends with an outcome that keeps its run.
LEMMA RowOfABatch ==
  ASSUME IInv, NEW p, NEW x \in Renders, Unsent(p, x) \/ Send(p, x) \/ RowLost(p, x)
  PROVE IInv'
  <1>0. row[x] \in Row /\ facts \in Nat /\ pipe.data \in Nat /\ pipe.verdict \in Verdicts
    BY DEF IInv, Typed
  <1>1. {"skipped", "failed", "uploaded"} \subseteq Statuses
    BY DEF Statuses
  <1>2. CASE Unsent(p, x)
    <2>1. PICK new \in {Settled(row[x], "skipped", 0), Counted(row[x], "failed"),
                        Waits(row[x]), Unreached(row[x])} : Ends(p, x, new)
      BY <1>2 DEF Unsent
    <2>2. Kept(row[x], new)
      BY <1>0, <1>1, SettledKept, CountedKept, WaitsKept, UnreachedKept
    <2> QED BY <2>1, <2>2, EndsStep
  <1>3. CASE Send(p, x)
    <2>1. PICK new \in {Settled(row[x], "uploaded", facts), Counted(row[x], "failed")} : Ends(p, x, new)
      BY <1>3 DEF Send
    <2>2. Kept(row[x], new)
      BY <1>0, <1>1, SettledKept, CountedKept
    <2> QED BY <2>1, <2>2, EndsStep
  <1>4. CASE RowLost(p, x)
    BY <1>0, <1>4, NoRowStep DEF RowLost
  <1> QED BY <1>2, <1>3, <1>4

\* The pipeline records an outcome that keeps the run, or re-arms out of it.
LEMMA PipeRecordStep ==
  ASSUME IInv, NEW x \in Renders, PipeRecord(x)
  PROVE IInv'
  <1>0. row[x] \in Row /\ pipe.data \in Nat
    BY DEF IInv, Typed
  <1>1. {"skipped", "failed", "uploaded"} \subseteq Statuses
    BY DEF Statuses
  <1>2. PICK new \in {row[x], Rearmed(row[x]), Settled(row[x], "skipped", 0), Counted(row[x], "failed"),
                      Settled(row[x], "uploaded", pipe.data)} : PipeWrites(x, new)
    <2> DEFINE v == pipe.verdict
    <2>1. CASE v = "leave"
      BY <2>1 DEF PipeRecord
    <2>2. CASE v = "rearm"
      BY <2>2 DEF PipeRecord
    <2>3. CASE v = "skip"
      BY <2>3 DEF PipeRecord
    <2>4. CASE v = "fail"
      BY <2>4 DEF PipeRecord
    <2>5. CASE v = "send"
      BY <2>5 DEF PipeRecord
    <2>6. v \in Verdicts
      BY DEF IInv, Typed
    <2> QED BY <2>1, <2>2, <2>3, <2>4, <2>5, <2>6 DEF Verdicts
  <1>3. Kept(row[x], new)
    BY <1>0, <1>1, SameKept, RearmedKept, SettledKept, CountedKept
  <1> QED BY <1>2, <1>3, PipeWritesStep

\* deliver's ladder always comes to a verdict.
LEMMA VerdictType ==
  ASSUME NEW x, NEW found \in {"yes", "no", "mismatch"}, NEW data
  PROVE Verdict(x, found, data) \in Verdicts
  <1>1. CASE pipe.absent
    BY <1>1 DEF Verdict, Verdicts
  <1>2. CASE ~pipe.absent /\ ~pipe.on
    BY <1>2 DEF Verdict, Verdicts
  <1>3. CASE ~pipe.absent /\ pipe.on /\ found = "mismatch"
    BY <1>3 DEF Verdict, Verdicts
  <1>4. CASE ~pipe.absent /\ pipe.on /\ found = "no"
    BY <1>4 DEF Verdict, Verdicts
  <1>5. CASE ~pipe.absent /\ pipe.on /\ found = "yes" /\ data /= 0
    BY <1>5 DEF Verdict, Verdicts
  <1>6. CASE ~pipe.absent /\ pipe.on /\ found = "yes" /\ data = 0
    BY <1>6 DEF Verdict, Verdicts
  <1> QED BY <1>1, <1>2, <1>3, <1>4, <1>5, <1>6

\* The pipeline's compose and read of the row write nothing.
LEMMA PipeDecideStep ==
  ASSUME IInv, NEW x \in Renders, PipeDecide(x)
  PROVE IInv'
  <1> DEFINE data == IF facts = finger[x] THEN 0 ELSE facts
  <1>1. PICK found \in {"yes", "no", "mismatch"} :
           pipe' = IF data = 0 /\ Verdict(x, found, data) = "leave" THEN NoPipe
                   ELSE [NoPipe EXCEPT !.at = "decided", !.x = {x}, !.data = data,
                                       !.verdict = Verdict(x, found, data)]
    BY DEF PipeDecide
  <1>2. data \in Nat
    BY DEF IInv, Typed
  <1>3. Verdict(x, found, data) \in Verdicts
    BY VerdictType
  <1>4. row' = row /\ run' = run /\ start' = start /\ facts' = facts /\ facts \in Nat
    BY DEF PipeDecide, IInv, Typed
  <1> HIDE DEF data
  <1>5. pipe'.data \in Nat /\ pipe'.verdict \in Verdicts
    BY <1>1, <1>2, <1>3 DEF NoPipe, Verdicts
  <1> QED BY <1>4, <1>5, NoRowStep

\* retry_failed and the presence stamps of a full pass keep every row.
LEMMA SweepingStep ==
  ASSUME IInv, RetryFailed \/ FullPassOpens
  PROVE IInv'
  <1>0. \A x \in Renders : row[x] \in Row
    BY DEF IInv, Typed
  <1>1. CASE RetryFailed
    <2>1. row' = [x \in Renders |-> IF row[x].status = "failed" THEN Rearmed(row[x]) ELSE row[x]]
      BY <1>1 DEF RetryFailed
    <2>2. row' = [x \in Renders |-> row'[x]]
      BY <2>1
    <2>3. \A x \in Renders : row'[x] = Rearmed(row[x]) \/ row'[x] = row[x]
      BY <2>1
    <2>4. \A x \in Renders : Kept(row[x], row'[x])
      BY <1>0, <2>3, SameKept, RearmedKept
    <2>5. facts' = facts /\ run' = run /\ start' = start /\ pipe' = pipe
      BY <1>1 DEF RetryFailed
    <2> QED BY <2>2, <2>4, <2>5, AllKeptStep
  <1>2. CASE FullPassOpens
    <2>1. PICK told : row' = [x \in Renders |-> Presence(row[x], told)]
      BY <1>2 DEF FullPassOpens
    <2>2. row' = [x \in Renders |-> row'[x]]
      BY <2>1
    <2>3. \A x \in Renders : Kept(row[x], row'[x])
      BY <1>0, <2>1, PresenceKept
    <2>4. facts' = facts /\ run' = run /\ start' = start /\ pipe' = pipe
      BY <1>2 DEF FullPassOpens
    <2> QED BY <2>2, <2>3, <2>4, AllKeptStep
  <1> QED BY <1>1, <1>2

\* The steps that write neither a row nor a run.
LEMMA IdleStep ==
  ASSUME IInv,
         \/ \E p \in Sweeps \cup Drains : TakeSweep(p) \/ PassDies(p)
         \/ \E p \in Drains, r \in RunIds : TakeDrain(p, r)
         \/ \E s \in Starters : StartDies(s)
         \/ \E x \in Renders : PipeRead(x)
         \/ PipeDies \/ FactsMove \/ Toggle
  PROVE IInv'
  <1>0. facts \in Nat /\ facts + 1 \in Nat /\ pipe.data \in Nat /\ pipe.verdict \in Verdicts
    BY DEF IInv, Typed
  <1>1. row' = row /\ run' = run /\ start' \subseteq start
    BY DEF TakeSweep, PassDies, TakeDrain, StartDies, PipeRead, PipeDies, FactsMove, Toggle
  <1>2. facts' = facts \/ facts' = facts + 1
    BY DEF TakeSweep, PassDies, TakeDrain, StartDies, PipeRead, PipeDies, FactsMove, Toggle
  <1>3. pipe'.data \in Nat /\ pipe'.verdict \in Verdicts
    <2>1. CASE pipe' = pipe
      BY <1>0, <2>1
    <2>2. CASE PipeDies
      BY <2>2 DEF PipeDies, NoPipe, Verdicts
    <2>3. CASE \E x \in Renders : PipeRead(x)
      <3>1. PICK x \in Renders : PipeRead(x)
        BY <2>3
      <3>2. PICK c, ab :
              pipe' = [NoPipe EXCEPT !.at = "read", !.x = {x}, !.on = on, !.runs = c, !.absent = ab]
        BY <3>1 DEF PipeRead
      <3>3. pipe'.data = 0 /\ pipe'.verdict = "leave"
        BY <3>2 DEF NoPipe
      <3> QED BY <3>3 DEF Verdicts
    <2> QED BY <2>1, <2>2, <2>3 DEF TakeSweep, PassDies, TakeDrain, StartDies, FactsMove, Toggle
  <1> QED BY <1>0, <1>1, <1>2, <1>3, NoRowStep

-----------------------------------------------------------------------------
(* Opening and closing a run *)

\* The check under the advisory lock: no other start, no open run.
LEMMA StartCheckStep ==
  ASSUME IInv, NEW s \in Starters, StartCheck(s)
  PROVE IInv'
  <1>1. start = {} /\ Open = {} /\ start' = {s}
    BY DEF StartCheck, LockFree
  <1>2. row' = row /\ run' = run /\ facts' = facts /\ pipe' = pipe
    BY DEF StartCheck
  <1>3. Open' = {}
    BY <1>1, <1>2 DEF Open
  <1>4. Typed' /\ Remembered'
    BY <1>2 DEF IInv, Typed, Remembered
  <1>5. Starting' /\ OneOpenRun'
    BY <1>1, <1>3 DEF Starting, OneOpenRun
  <1>6. NoStrandedRow'
    BY <1>1, <1>2, <1>3 DEF IInv, NoStrandedRow
  <1> QED BY <1>4, <1>5, <1>6 DEF IInv

\* The marking: the rows belong to no run, so what each remembers is what it is.
LEMMA StartMarksStep ==
  ASSUME IInv, NEW s \in Starters, NEW told, StartMarks(s, told)
  PROVE IInv'
  <1>1. Open = {} /\ start' = {}
    BY DEF IInv, Starting, StartMarks
  <1>2. \A x \in Renders : row[x] \in Row /\ row[x].run = 0
    BY <1>1 DEF IInv, Typed, NoStrandedRow
  <1> DEFINE present(x) == Presence(row[x], told)
  <1>3. PICK r \in RunIds :
          /\ run' = [run EXCEPT ![r].state = "open"]
          /\ row' = [x \in Renders |-> IF told = "here" /\ on THEN Armed(x, present(x), r) ELSE present(x)]
    BY DEF StartMarks
  <1>4. \A x \in Renders : present(x) \in Row /\ present(x).run = 0
    BY <1>2, PresenceKept DEF Kept
  <1>5. \A x \in Renders :
           /\ row'[x] \in Row
           /\ row'[x].run = 0 \/ (row'[x].run = r /\ row'[x].prev = row'[x].was)
    <2> HIDE DEF present
    <2> TAKE x \in Renders
    <2>1. row'[x] = present(x) \/ row'[x] = Armed(x, present(x), r)
      BY <1>3
    <2> QED BY <1>4, <2>1, ArmedRow
  <1>6. Open' = {r}
    BY <1>1, <1>3 DEF Open, IInv, Typed, Run
  <1>7. Typed'
    <2>1. run' \in [RunIds -> Run]
      BY <1>3 DEF IInv, Typed, Run
    <2>2. row' \in [Renders -> Row]
      BY <1>3, <1>5
    <2>3. facts' = facts /\ pipe' = pipe
      BY DEF StartMarks
    <2> QED BY <2>1, <2>2, <2>3 DEF IInv, Typed
  <1>8. Starting' /\ OneOpenRun'
    BY <1>1, <1>6 DEF Starting, OneOpenRun
  <1>9. NoStrandedRow' /\ Remembered'
    BY <1>5, <1>6 DEF NoStrandedRow, Remembered
  <1> QED BY <1>7, <1>8, <1>9 DEF IInv

\* A run that is closed with its rows emptied of it.
LEMMA CloseStep ==
  ASSUME IInv, Typed', NEW r \in RunIds, Open' = Open \ {r}, start' = start,
         \A x \in Renders : Kept(row[x], row'[x]) /\ row'[x].run /= r
  PROVE IInv'
  <1>1. Starting' /\ OneOpenRun'
    BY DEF IInv, Starting, OneOpenRun
  <1>2. NoStrandedRow'
    BY DEF IInv, NoStrandedRow, Kept
  <1>3. Remembered'
    BY DEF IInv, Remembered, Kept
  <1> QED BY <1>1, <1>2, <1>3 DEF IInv

\* cancel_catch_up.
LEMMA CancelStep ==
  ASSUME IInv, NEW r \in RunIds, Cancel(r)
  PROVE IInv'
  <1>0. run[r].state = "open" /\ run[r] \in Run /\ run \in [RunIds -> Run]
    BY DEF Cancel, Open, IInv, Typed
  <1> DEFINE over == Finished(run[r], "cancelled")
  <1>1. run' = [run EXCEPT ![r] = over]
    BY DEF Cancel
  <1>2. over \in Run /\ over.state = "cancelled"
    BY <1>0 DEF Finished, Run
  <1> HIDE DEF over
  <1>3. Open' = Open \ {r} /\ run' \in [RunIds -> Run]
    BY <1>0, <1>1, <1>2 DEF Open
  <1>4. row' = [x \in Renders |-> Cancelled(row[x], r)]
    BY DEF Cancel
  <1>5. \A x \in Renders : Kept(row[x], row'[x]) /\ row'[x].run /= r
    BY <1>4, CancelledKept DEF IInv, Typed
  <1>6. row' \in [Renders -> Row]
    BY <1>4, <1>5 DEF Kept
  <1>7. Typed' /\ start' = start
    BY <1>3, <1>6 DEF Cancel, IInv, Typed
  <1> QED BY <1>3, <1>5, <1>7, CloseStep

\* The drain's close: the run, still open, is finished and its rows released; or it is
\* told how many batches moved nothing; or it had been closed and nothing changes.
LEMMA EndDrainStep ==
  ASSUME IInv, NEW p \in Drains, EndDrain(p)
  PROVE IInv'
  <1> DEFINE r == pass[p].run
             over == TallyOf(r).due = 0 \/ Idle(p, r) >= MaxIdleDrains
  <1>1. /\ run' = [run EXCEPT ![r] = IF over THEN Finished(run[r], "ok")
                                      ELSE Stalled(run[r], Idle(p, r))]
        /\ row' = IF over /\ r \in Open THEN [x \in Renders |-> Released(row[x], r)] ELSE row
        /\ facts' = facts /\ start' = start /\ pipe' = pipe
    BY DEF EndDrain
  <1> HIDE DEF r, over
  <1>2. facts \in Nat /\ pipe.data \in Nat /\ pipe.verdict \in Verdicts /\ run \in [RunIds -> Run]
    BY DEF IInv, Typed
  <1>3. CASE r \notin Open
    <2>1. row' = row
      BY <1>1, <1>3
    <2>2. run' = run
      <3>1. CASE r \in RunIds
        <4>1. run[r].state /= "open"
          BY <1>3, <3>1 DEF Open
        <4>2. Finished(run[r], "ok") = run[r] /\ Stalled(run[r], Idle(p, r)) = run[r]
          BY <4>1 DEF Finished, Stalled
        <4> QED BY <1>1, <1>2, <4>2
      <3>2. CASE r \notin RunIds
        BY <1>1, <1>2, <3>2
      <3> QED BY <3>1, <3>2
    <2> QED BY <1>1, <1>2, <2>1, <2>2, NoRowStep
  <1>4. CASE r \in Open /\ over
    <2>0. r \in RunIds /\ r /= 0 /\ run[r].state = "open"
      BY <1>4, RunIdAssumption DEF Open
    <2> DEFINE end == Finished(run[r], "ok")
    <2>1. run' = [run EXCEPT ![r] = end]
      BY <1>1, <1>4
    <2>2. end \in Run /\ end.state = "ok"
      BY <2>0 DEF Finished, Run
    <2> HIDE DEF end
    <2>3. Open' = Open \ {r} /\ run' \in [RunIds -> Run]
      BY <1>2, <2>0, <2>1, <2>2 DEF Open
    <2>4. row' = [x \in Renders |-> Released(row[x], r)]
      BY <1>1, <1>4
    <2>5. \A x \in Renders : Kept(row[x], row'[x]) /\ row'[x].run /= r
      BY <2>0, <2>4, ReleasedKept DEF IInv, Typed
    <2>6. row' \in [Renders -> Row]
      BY <2>4, <2>5 DEF Kept
    <2>7. Typed'
      BY <1>1, <1>2, <2>3, <2>6 DEF Typed
    <2> QED BY <1>1, <2>0, <2>3, <2>5, <2>7, CloseStep
  <1>5. CASE r \in Open /\ ~over
    <2>0. r \in RunIds /\ run[r].state = "open" /\ run[r] \in Run
      BY <1>2, <1>5 DEF Open
    <2> DEFINE new == Stalled(run[r], Idle(p, r))
    <2>1. run' = [run EXCEPT ![r] = new] /\ row' = row
      BY <1>1, <1>5
    <2>2. Idle(p, r) \in Nat
      BY <2>0 DEF Idle, Run
    <2>3. new \in Run /\ new.state = "open"
      BY <2>0, <2>2 DEF Stalled, Run
    <2> HIDE DEF new
    <2>4. Open' = Open /\ run' \in [RunIds -> Run]
      BY <1>2, <2>0, <2>1, <2>3 DEF Open
    <2>5. Typed'
      BY <1>1, <2>1, <2>4 DEF IInv, Typed
    <2> QED BY <1>1, <2>1, <2>4, <2>5 DEF IInv, Starting, OneOpenRun, NoStrandedRow, Remembered
  <1> QED BY <1>3, <1>4, <1>5

-----------------------------------------------------------------------------
(* The invariant *)

\* Every step keeps the inductive invariant.
LEMMA NextIInv == IInv /\ [Next]_vars => IInv'
  <1> SUFFICES ASSUME IInv, [Next]_vars PROVE IInv'
    OBVIOUS
  <1>1. ASSUME NEW p \in Sweeps, TakeSweep(p) PROVE IInv'
    BY <1>1, IdleStep
  <1>2. ASSUME NEW p \in Drains, EndDrain(p) PROVE IInv'
    BY <1>2, EndDrainStep
  <1>3. ASSUME NEW p \in Drains, NEW r \in RunIds, TakeDrain(p, r) PROVE IInv'
    BY <1>3, IdleStep
  <1>4. ASSUME NEW p \in Sweeps \cup Drains, PassDies(p) PROVE IInv'
    BY <1>4, IdleStep
  <1>5. ASSUME NEW p \in Sweeps \cup Drains, NEW x \in Renders, Unsent(p, x) \/ Send(p, x) \/ RowLost(p, x)
        PROVE IInv'
    BY <1>5, RowOfABatch
  <1>6. ASSUME NEW s \in Starters, StartCheck(s) PROVE IInv'
    BY <1>6, StartCheckStep
  <1>7. ASSUME NEW s \in Starters, StartDies(s) PROVE IInv'
    BY <1>7, IdleStep
  <1>8. ASSUME NEW s \in Starters, NEW told \in Listings, StartMarks(s, told) PROVE IInv'
    BY <1>8, StartMarksStep
  <1>9. ASSUME NEW r \in RunIds, Cancel(r) PROVE IInv'
    BY <1>9, CancelStep
  <1>10. ASSUME NEW x \in Renders, PipeRead(x) PROVE IInv'
    BY <1>10, IdleStep
  <1>11. ASSUME NEW x \in Renders, PipeDecide(x) PROVE IInv'
    BY <1>11, PipeDecideStep
  <1>12. ASSUME NEW x \in Renders, PipeRecord(x) PROVE IInv'
    BY <1>12, PipeRecordStep
  <1>13. ASSUME PipeDies \/ FactsMove \/ Toggle PROVE IInv'
    BY <1>13, IdleStep
  <1>14. ASSUME RetryFailed \/ FullPassOpens PROVE IInv'
    BY <1>14, SweepingStep
  <1>15. CASE UNCHANGED vars
    <2>1. row' = row /\ run' = run /\ start' = start /\ facts' = facts /\ pipe' = pipe
      BY <1>15 DEF vars
    <2> QED BY <2>1, NoRowStep DEF IInv, Typed
  <1> QED BY <1>1, <1>2, <1>3, <1>4, <1>5, <1>6, <1>7, <1>8, <1>9, <1>10, <1>11, <1>12, <1>13, <1>14, <1>15
          DEF Next

\* The inductive invariant holds throughout.
THEOREM Invariance == Spec => []IInv
  BY InitIInv, NextIInv, PTL DEF Spec

\* start_catch_up: however many starts race, one run is open at a time.
THEOREM OneRunAtATime == Spec => []OneOpenRun
  <1>1. IInv => OneOpenRun
    BY DEF IInv
  <1> QED BY <1>1, Invariance, PTL

\* finish_catch_up and cancel_catch_up: no row is left behind by a closed run, where
\* neither the ordinary pass nor any drain would find it.
THEOREM NothingStranded == Spec => []NoStrandedRow
  <1>1. IInv => NoStrandedRow
    BY DEF IInv
  <1> QED BY <1>1, Invariance, PTL

\* start_catch_up's previous_status: what a cancel restores is what the run found.
THEOREM CancelRestoresTheTruth == Spec => []PreviousIsTrue
  <1>1. IInv => PreviousIsTrue
    BY DEF IInv, Remembered, PreviousIsTrue
  <1> QED BY <1>1, Invariance, PTL

\* finish_catch_up's guard: the first verdict on a run stays.
THEOREM FirstVerdictStands == Spec => VerdictStands
  <1> DEFINE Stands == \A r \in RunIds :
               run[r].state \in {"ok", "cancelled"} => run'[r].state = run[r].state
  <1>1. IInv /\ [Next]_vars => [Stands]_vars
    <2> SUFFICES ASSUME IInv, Next PROVE Stands
      OBVIOUS
    <2>0. run \in [RunIds -> Run]
      BY DEF IInv, Typed
    <2>1. CASE run' = run
      BY <2>1
    <2>2. ASSUME NEW q \in RunIds, NEW new, run' = [run EXCEPT ![q] = new],
                 run[q].state \in {"ok", "cancelled"} => new.state = run[q].state
          PROVE Stands
      BY <2>0, <2>2
    <2>3. ASSUME NEW s \in Starters, NEW told \in Listings, StartMarks(s, told) PROVE Stands
      <3>1. PICK q \in RunIds : run[q].state = "none" /\ run' = [run EXCEPT ![q].state = "open"]
        BY <2>3 DEF StartMarks
      <3> QED BY <2>0, <3>1
    <2>4. ASSUME NEW q \in RunIds, Cancel(q) PROVE Stands
      <3>1. run' = [run EXCEPT ![q] = Finished(run[q], "cancelled")]
        BY <2>4 DEF Cancel
      <3>2. run[q].state \in {"ok", "cancelled"} => Finished(run[q], "cancelled").state = run[q].state
        BY DEF Finished
      <3> QED BY <2>2, <3>1, <3>2
    <2>5. ASSUME NEW p \in Drains, EndDrain(p) PROVE Stands
      <3> DEFINE q == pass[p].run
      <3>1. PICK new \in {Finished(run[q], "ok"), Stalled(run[q], Idle(p, q))} :
               run' = [run EXCEPT ![q] = new]
        BY <2>5 DEF EndDrain
      <3>2. run[q].state \in {"ok", "cancelled"} => new.state = run[q].state
        BY DEF Finished, Stalled
      <3> HIDE DEF q
      <3>3. CASE q \in RunIds
        BY <2>2, <3>1, <3>2, <3>3
      <3>4. CASE q \notin RunIds
        BY <2>0, <3>1, <3>4
      <3> QED BY <3>3, <3>4
    <2>6. \/ run' = run
          \/ \E s \in Starters, told \in Listings : StartMarks(s, told)
          \/ \E q \in RunIds : Cancel(q)
          \/ \E p \in Drains : EndDrain(p)
      <3>1. ASSUME NEW x \in Renders, PipeRecord(x) PROVE run' = run
        <4>1. pipe.verdict \in {"leave", "rearm", "skip", "fail", "send"}
          BY DEF IInv, Typed, Verdicts
        <4>2. \E new : PipeWrites(x, new)
          BY <3>1, <4>1 DEF PipeRecord
        <4> QED BY <4>2 DEF PipeWrites
      <3>2. ASSUME NEW p \in Sweeps \cup Drains, NEW x \in Renders,
                   Unsent(p, x) \/ Send(p, x) \/ RowLost(p, x)
            PROVE run' = run
        BY <3>2 DEF Unsent, Send, RowLost, Ends
      <3>3. ASSUME NEW p, NEW r, TakeSweep(p) \/ TakeDrain(p, r) \/ PassDies(p) PROVE run' = run
        BY <3>3 DEF TakeSweep, TakeDrain, PassDies
      <3>4. ASSUME NEW s, StartCheck(s) \/ StartDies(s) PROVE run' = run
        BY <3>4 DEF StartCheck, StartDies
      <3>5. ASSUME NEW x, PipeRead(x) \/ PipeDecide(x) \/ PipeDies \/ RetryFailed \/ FullPassOpens
                          \/ FactsMove \/ Toggle
            PROVE run' = run
        BY <3>5 DEF PipeRead, PipeDecide, PipeDies, RetryFailed, FullPassOpens, FactsMove, Toggle
      <3> QED BY <3>1, <3>2, <3>3, <3>4, <3>5 DEF Next
    <2> QED BY <2>1, <2>3, <2>4, <2>5, <2>6
  <1> QED BY <1>1, Invariance, PTL DEF Spec, VerdictStands
-----------------------------------------------------------------------------
(* The tallies of a drain: sums over the rows of a run *)

\* Induction over the naturals, said of a set of them.
LEMMA SetInduction ==
  ASSUME NEW T \in SUBSET Nat, 0 \in T, \A n \in T : n + 1 \in T
  PROVE  T = Nat
<1> SUFFICES ASSUME Nat \ T /= {} PROVE FALSE
  OBVIOUS
<1>1. PICK n \in Nat \ T : \A m \in Nat \ T : <<m, n>> \notin OpToRel(<, Nat)
  BY NatLessThanWellFounded, WFMin
<1>2. \A m \in Nat \ T : ~(m < n)
  BY <1>1 DEF OpToRel
<1>3. n - 1 \in T
  BY <1>2
<1> QED
  BY <1>3

SumStep(a, f, t) == IF t = {} THEN 0 ELSE LET x == CHOOSE x \in t : TRUE IN a[x] + f[t \ {x}]

\* f adds up a over every subset of S.
AddsUp(a, f, S) == f = [t \in SUBSET S |-> SumStep(a, f, t)]

\* A function that adds up a over every subset of S exists, and its values are naturals.
LEMMA SumExists ==
  ASSUME NEW S, IsFiniteSet(S), NEW a, \A x \in S : a[x] \in Nat
  PROVE  \E f : AddsUp(a, f, S)
<1> DEFINE D(n) == {t \in SUBSET S : Cardinality(t) <= n}
           Adds(n, f) == f = [t \in D(n) |-> SumStep(a, f, t)]
           T == {n \in Nat : \E f \in [D(n) -> Nat] : Adds(n, f)}
<1>0. \A t \in SUBSET S : IsFiniteSet(t) /\ Cardinality(t) \in Nat
  BY FS_Subset, FS_CardinalityType
<1>1. \A t \in SUBSET S : Cardinality(t) = 0 <=> t = {}
  BY <1>0, FS_EmptySet
<1>2. 0 \in T
  <2> DEFINE f == [t \in D(0) |-> 0]
  <2>1. \A t \in D(0) : t = {}
    BY <1>0, <1>1
  <2>2. f \in [D(0) -> Nat] /\ Adds(0, f)
    BY <2>1 DEF SumStep
  <2> QED BY <2>2
<1>3. ASSUME NEW n \in T PROVE n + 1 \in T
  <2>1. PICK f \in [D(n) -> Nat] : Adds(n, f)
    OBVIOUS
  <2> DEFINE g == [t \in D(n + 1) |-> SumStep(a, f, t)]
  <2>2. ASSUME NEW t \in D(n + 1), t /= {}, NEW x, x = CHOOSE y \in t : TRUE
        PROVE  x \in t /\ x \in S /\ t \ {x} \in D(n) /\ t \ {x} \in D(n + 1)
    <3>1. x \in t
      BY <2>2
    <3>2. Cardinality(t \ {x}) = Cardinality(t) - 1
      BY <1>0, <3>1, FS_RemoveElement
    <3> QED BY <1>0, <3>1, <3>2
  <2>3. ASSUME NEW t \in D(n) PROVE t \in D(n + 1) /\ g[t] = f[t]
    <3>1. t \in D(n + 1)
      BY <1>0
    <3>2. f[t] = SumStep(a, f, t)
      BY <2>1
    <3> QED BY <3>1, <3>2
  <2>4. ASSUME NEW t \in D(n + 1)
        PROVE  g[t] \in Nat /\ g[t] = SumStep(a, g, t)
    <3>1. CASE t = {}
      BY <3>1 DEF SumStep
    <3>2. CASE t /= {}
      <4> DEFINE x == CHOOSE y \in t : TRUE
      <4>1. x \in S /\ t \ {x} \in D(n)
        BY <2>2, <3>2
      <4>2. g[t] = a[x] + f[t \ {x}]
        BY <3>2 DEF SumStep
      <4>3. f[t \ {x}] = g[t \ {x}] /\ f[t \ {x}] \in Nat /\ a[x] \in Nat
        BY <2>3, <4>1
      <4>4. SumStep(a, g, t) = a[x] + g[t \ {x}]
        BY <3>2 DEF SumStep
      <4> HIDE DEF x, g
      <4> QED BY <4>2, <4>3, <4>4
    <3> QED BY <3>1, <3>2
  <2>5. g \in [D(n + 1) -> Nat] /\ Adds(n + 1, g)
    BY <2>4
  <2> HIDE DEF g, D
  <2> QED BY <2>5
<1>4. T = Nat
  <2> HIDE DEF T
  <2>1. T \in SUBSET Nat
    BY DEF T
  <2> QED BY <1>2, <1>3, <2>1, SetInduction
<1>5. Cardinality(S) \in T /\ D(Cardinality(S)) = SUBSET S
  <2>1. \A t \in SUBSET S : Cardinality(t) <= Cardinality(S)
    BY FS_Subset
  <2>2. Cardinality(S) \in Nat
    BY <1>0
  <2> HIDE DEF T
  <2> QED BY <1>4, <2>1, <2>2
<1> QED BY <1>5 DEF AddsUp

\* Whatever adds up a over every subset of S has naturals for values.
LEMMA SumValues ==
  ASSUME NEW S, IsFiniteSet(S), NEW a, \A x \in S : a[x] \in Nat,
         NEW f, AddsUp(a, f, S)
  PROVE  f[S] \in Nat
<1> DEFINE T == {n \in Nat : \A t \in SUBSET S : Cardinality(t) <= n => f[t] \in Nat}
<1>0. \A t \in SUBSET S : IsFiniteSet(t) /\ Cardinality(t) \in Nat
  BY FS_Subset, FS_CardinalityType
<1>1. \A t \in SUBSET S : f[t] = SumStep(a, f, t)
  BY DEF AddsUp
<1>z. f[{}] = 0
  <2>1. f[{}] = SumStep(a, f, {})
    BY <1>1
  <2> QED BY <2>1 DEF SumStep
<1>2. 0 \in T
  <2>1. \A t \in SUBSET S : Cardinality(t) <= 0 => t = {}
    BY <1>0, FS_EmptySet
  <2> QED BY <1>z, <2>1
<1>3. ASSUME NEW n \in T PROVE n + 1 \in T
  <2>1. n \in Nat /\ \A t \in SUBSET S : Cardinality(t) <= n => f[t] \in Nat
    OBVIOUS
  <2>2. ASSUME NEW t \in SUBSET S, Cardinality(t) <= n + 1, t /= {}
        PROVE  f[t] \in Nat
    <3> DEFINE x == CHOOSE y \in t : TRUE
    <3>1. x \in t /\ x \in S /\ t \ {x} \in SUBSET S
      BY <2>2
    <3>2. Cardinality(t \ {x}) = Cardinality(t) - 1
      BY <1>0, <3>1, FS_RemoveElement
    <3>3. f[t] = a[x] + f[t \ {x}]
      BY <1>1, <2>2 DEF SumStep
    <3> HIDE DEF x
    <3>4. Cardinality(t \ {x}) <= n
      BY <1>0, <2>1, <2>2, <3>2
    <3>5. f[t \ {x}] \in Nat /\ a[x] \in Nat
      BY <2>1, <3>1, <3>4
    <3> QED BY <3>3, <3>5
  <2>3. \A t \in SUBSET S : Cardinality(t) <= n + 1 => f[t] \in Nat
    BY <1>z, <2>2
  <2> QED BY <2>1, <2>3
<1>4. Cardinality(S) \in T
  <2> HIDE DEF T
  <2>1. T \in SUBSET Nat
    BY DEF T
  <2>2. T = Nat
    BY <1>2, <1>3, <2>1, SetInduction
  <2> QED BY <1>0, <2>2
<1> QED
  <2>1. S \in SUBSET S /\ Cardinality(S) <= Cardinality(S)
    BY <1>0
  <2> QED BY <1>4, <2>1

Attempts(a, S) == MapThenSumSet(LAMBDA x : a[x].attempts, S)

\* The delivery attempts of finitely many rows add up to a natural.
LEMMA AttemptsAddUp ==
  ASSUME NEW S, IsFiniteSet(S), NEW a, \A x \in S : a[x].attempts \in Nat
  PROVE  Attempts(a, S) \in Nat
<1> DEFINE b == [x \in S |-> a[x].attempts]
           Iter(f) == f = [t \in SUBSET S |-> IF t = {} THEN 0
                             ELSE a[CHOOSE x \in t : TRUE].attempts + f[t \ {CHOOSE x \in t : TRUE}]]
<1>1. ASSUME NEW f PROVE Iter(f) <=> AddsUp(b, f, S)
  <2>1. ASSUME NEW t \in SUBSET S, t /= {}
        PROVE  b[CHOOSE x \in t : TRUE] = a[CHOOSE x \in t : TRUE].attempts
    <3>1. (CHOOSE x \in t : TRUE) \in S
      BY <2>1
    <3> QED BY <3>1
  <2> QED BY <2>1 DEF SumStep, AddsUp
<1>2. \E f : Iter(f)
  <2>1. \A x \in S : b[x] \in Nat
    OBVIOUS
  <2>2. \E f : AddsUp(b, f, S)
    <3> HIDE DEF b
    <3> QED BY <2>1, SumExists
  <2> HIDE DEF b, Iter
  <2> QED BY <1>1, <2>2
<1>3. Attempts(a, S) = (CHOOSE g : Iter(g))[S]
  BY DEF Attempts, MapThenSumSet, MapThenFoldSet
<1>4. Iter(CHOOSE g : Iter(g))
  BY <1>2
<1> DEFINE h == CHOOSE g : Iter(g)
<1>5. AddsUp(b, h, S)
  BY <1>1, <1>4
<1>6. \A x \in S : b[x] \in Nat
  OBVIOUS
<1>7. h[S] \in Nat
  <2> HIDE DEF b, h
  <2> QED BY <1>5, <1>6, SumValues
<1> QED BY <1>3, <1>7

\* count_run_rows: the tally of any run is made of naturals.
LEMMA TallyType == ASSUME row \in [Renders -> Row], NEW r PROVE TallyOf(r) \in Tally
<1>1. ASSUME NEW S \in SUBSET Renders PROVE IsFiniteSet(S) /\ Cardinality(S) \in Nat
  BY RendersAssumption, FS_Subset, FS_CardinalityType
<1>2. \A statuses : Count(r, statuses) \in Nat
  BY <1>1 DEF Count
<1>3. MapThenSumSet(LAMBDA x : row[x].attempts, {x \in Renders : row[x].run = r}) \in Nat
  <2> DEFINE S == {x \in Renders : row[x].run = r}
  <2>1. IsFiniteSet(S)
    BY <1>1
  <2>2. \A x \in S : row[x].attempts \in Nat
    BY DEF Row
  <2> HIDE DEF S
  <2>3. Attempts(row, S) \in Nat
    BY <2>1, <2>2, AttemptsAddUp
  <2> QED BY <2>3 DEF S, Attempts
<1> QED BY <1>2, <1>3 DEF TallyOf, Tally

-----------------------------------------------------------------------------
(* The types of what the argument did not need *)

Shaped ==
    /\ on \in BOOLEAN
    /\ finger \in [Renders -> Nat]
    /\ start \subseteq Starters
    /\ pass \in [Sweeps \cup Drains -> Pass]
    /\ pipe \in Pipe

LEMMA NoPassType == NoPass \in Pass
  BY DEF NoPass, Pass, NoTally, Tally

LEMMA NoPipeType == NoPipe \in Pipe
  BY DEF NoPipe, Pipe, Verdicts

\* A step that moves one pass and nothing else of these.
LEMMA PassMoves ==
  ASSUME Shaped, UNCHANGED <<on, finger, start, pipe>>,
         NEW p \in Sweeps \cup Drains, NEW new \in Pass, pass' = [pass EXCEPT ![p] = new]
  PROVE  Shaped'
  BY DEF Shaped

\* A batch is taken, or the pass that took it dies.
LEMMA TakeShaped ==
  ASSUME IInv, Shaped, NEW p \in Sweeps \cup Drains,
         TakeSweep(p) \/ (\E r \in RunIds : TakeDrain(p, r)) \/ PassDies(p)
  PROVE  Shaped'
<1>1. CASE TakeSweep(p)
  <2>1. PICK todo \in SUBSET Renders :
           pass' = [pass EXCEPT ![p] = [NoPass EXCEPT !.at = "batch", !.todo = todo]]
    BY <1>1 DEF TakeSweep, Due
  <2>2. [NoPass EXCEPT !.at = "batch", !.todo = todo] \in Pass
    BY DEF NoPass, Pass, NoTally, Tally
  <2>3. UNCHANGED <<on, finger, start, pipe>>
    BY <1>1 DEF TakeSweep
  <2> QED BY <2>1, <2>2, <2>3, PassMoves
<1>2. ASSUME NEW r \in RunIds, TakeDrain(p, r) PROVE Shaped'
  <2>1. PICK todo \in SUBSET Renders :
           pass' = [pass EXCEPT ![p] = [NoPass EXCEPT !.at = "batch", !.run = r, !.todo = todo,
                                                      !.before = TallyOf(r)]]
    BY <1>2 DEF TakeDrain, Due
  <2>2. TallyOf(r) \in Tally
    BY TallyType DEF IInv, Typed
  <2>3. [NoPass EXCEPT !.at = "batch", !.run = r, !.todo = todo, !.before = TallyOf(r)] \in Pass
    BY <2>2 DEF NoPass, Pass
  <2>4. UNCHANGED <<on, finger, start, pipe>>
    BY <1>2 DEF TakeDrain
  <2> QED BY <2>1, <2>3, <2>4, PassMoves
<1>3. CASE PassDies(p)
  <2>1. pass' = [pass EXCEPT ![p] = NoPass] /\ UNCHANGED <<on, finger, start, pipe>>
    BY <1>3 DEF PassDies
  <2> QED BY <2>1, NoPassType, PassMoves
<1> QED BY <1>1, <1>2, <1>3

\* A row of a batch ends, or the batch does.
LEMMA BatchShaped ==
  ASSUME Shaped, NEW p \in Sweeps \cup Drains,
         EndDrain(p) \/ \E x \in Renders : Unsent(p, x) \/ Send(p, x) \/ RowLost(p, x)
  PROVE  Shaped'
<1>1. CASE EndDrain(p)
  <2>1. pass' = [pass EXCEPT ![p] = NoPass] /\ UNCHANGED <<on, finger, start, pipe>>
    BY <1>1 DEF EndDrain
  <2> QED BY <2>1, NoPassType, PassMoves
<1>2. ASSUME NEW x \in Renders, Unsent(p, x) \/ Send(p, x) \/ RowLost(p, x) PROVE Shaped'
  <2>1. pass' = Without(p, x) /\ UNCHANGED <<on, finger, start, pipe>>
    BY <1>2 DEF Unsent, Send, RowLost, Ends
  <2> DEFINE rest == [pass[p] EXCEPT !.todo = @ \ {x}]
  <2>2. pass' = [pass EXCEPT ![p] = NoPass] \/ pass' = [pass EXCEPT ![p] = rest]
    BY <2>1 DEF Without, Shaped
  <2>3. rest \in Pass
    <3>1. pass[p] \in Pass
      BY DEF Shaped
    <3> QED BY <3>1 DEF Pass
  <2> HIDE DEF rest
  <2> QED BY <2>1, <2>2, <2>3, NoPassType, PassMoves
<1> QED BY <1>1, <1>2

\* A start begins, marks or is rolled back.
LEMMA StartShaped ==
  ASSUME Shaped, NEW s \in Starters,
         StartCheck(s) \/ StartDies(s) \/ \E told \in Listings : StartMarks(s, told)
  PROVE  Shaped'
<1>1. UNCHANGED <<on, finger, pass, pipe>> /\ start' \subseteq start \cup {s}
  BY DEF StartCheck, StartDies, StartMarks
<1> QED BY <1>1 DEF Shaped

\* The pipeline reads, decides, records or dies.
LEMMA PipeShaped ==
  ASSUME IInv, Shaped,
         PipeDies \/ \E x \in Renders : PipeRead(x) \/ PipeDecide(x) \/ PipeRecord(x)
  PROVE  Shaped'
<1>1. ASSUME UNCHANGED <<on, finger, start, pass>>, pipe' \in Pipe PROVE Shaped'
  BY <1>1 DEF Shaped
<1>2. CASE PipeDies
  BY <1>1, <1>2, NoPipeType DEF PipeDies
<1>3. ASSUME NEW x \in Renders, PipeRead(x) PROVE Shaped'
  <2>1. PICK absent \in BOOLEAN :
           pipe' = [NoPipe EXCEPT !.at = "read", !.x = {x}, !.on = on, !.runs = Open, !.absent = absent]
    BY <1>3 DEF PipeRead
  <2>2. [NoPipe EXCEPT !.at = "read", !.x = {x}, !.on = on, !.runs = Open, !.absent = absent] \in Pipe
    BY DEF NoPipe, Pipe, Verdicts, Open, Shaped
  <2> QED BY <1>1, <1>3, <2>1, <2>2 DEF PipeRead
<1>4. ASSUME NEW x \in Renders, PipeDecide(x) PROVE Shaped'
  <2> DEFINE data == IF facts = finger[x] THEN 0 ELSE facts
             decided(v) == [NoPipe EXCEPT !.at = "decided", !.x = {x}, !.data = data, !.verdict = v]
  <2>1. PICK found \in {"yes", "no", "mismatch"} :
           pipe' = NoPipe \/ pipe' = decided(Verdict(x, found, data))
    BY <1>4 DEF PipeDecide
  <2>2. data \in Nat
    BY DEF IInv, Typed
  <2> HIDE DEF data
  <2>3. \A v \in Verdicts : decided(v) \in Pipe
    BY <2>2 DEF NoPipe, Pipe
  <2>4. Verdict(x, found, data) \in Verdicts
    BY VerdictType
  <2> HIDE DEF decided
  <2>5. pipe' \in Pipe
    BY <2>1, <2>3, <2>4, NoPipeType
  <2> QED BY <1>1, <1>4, <2>5 DEF PipeDecide
<1>5. ASSUME NEW x \in Renders, PipeRecord(x) PROVE Shaped'
  <2>1. pipe.verdict \in {"leave", "rearm", "skip", "fail", "send"}
    BY DEF IInv, Typed, Verdicts
  <2>2. \E new : PipeWrites(x, new)
    BY <1>5, <2>1 DEF PipeRecord
  <2>3. /\ UNCHANGED <<on, start, pass>> /\ pipe' = NoPipe
        /\ finger' = finger \/ finger' = [finger EXCEPT ![x] = pipe.data]
    BY <2>2 DEF PipeWrites
  <2>4. finger' \in [Renders -> Nat]
    BY <2>3 DEF Shaped, IInv, Typed
  <2> QED BY <2>3, <2>4, NoPipeType DEF Shaped
<1> QED BY <1>2, <1>3, <1>4, <1>5

\* Every variable of CatchUp keeps its type, the tallies of the passes included.
THEOREM TypesHold == Spec => []TypeOK
<1>1. Init => Shaped
  BY NoPassType, NoPipeType DEF Init, Shaped
<1>2. IInv /\ Shaped /\ [Next]_vars => Shaped'
  <2> SUFFICES ASSUME IInv, Shaped, [Next]_vars PROVE Shaped'
    OBVIOUS
  <2>1. CASE \E p \in Sweeps \cup Drains :
               TakeSweep(p) \/ (\E r \in RunIds : TakeDrain(p, r)) \/ PassDies(p)
    BY <2>1, TakeShaped
  <2>2. CASE \E p \in Sweeps \cup Drains :
               EndDrain(p) \/ \E x \in Renders : Unsent(p, x) \/ Send(p, x) \/ RowLost(p, x)
    BY <2>2, BatchShaped
  <2>3. CASE \E s \in Starters :
               StartCheck(s) \/ StartDies(s) \/ \E told \in Listings : StartMarks(s, told)
    BY <2>3, StartShaped
  <2>4. CASE PipeDies \/ \E x \in Renders : PipeRead(x) \/ PipeDecide(x) \/ PipeRecord(x)
    BY <2>4, PipeShaped
  <2>5. CASE (\E r \in RunIds : Cancel(r)) \/ RetryFailed \/ FullPassOpens \/ FactsMove \/ UNCHANGED vars
    <3>1. UNCHANGED <<on, finger, start, pass, pipe>>
      BY <2>5 DEF Cancel, RetryFailed, FullPassOpens, FactsMove, vars
    <3> QED BY <3>1 DEF Shaped
  <2>6. CASE Toggle
    BY <2>6 DEF Toggle, Shaped
  <2> QED BY <2>1, <2>2, <2>3, <2>4, <2>5, <2>6 DEF Next
<1>3. IInv /\ Shaped => TypeOK
  BY DEF IInv, Typed, Shaped, TypeOK
<1> QED BY <1>1, <1>2, <1>3, Invariance, PTL DEF Spec

\* Everything the run checks of the catch-up, for any number of rows, runs and passes.
THEOREM CatchUpIsSafe == Spec => []CatchUpSafety
<1>1. TypeOK /\ OneOpenRun /\ NoStrandedRow /\ PreviousIsTrue => CatchUpSafety
  BY DEF CatchUpSafety
<1> QED BY <1>1, TypesHold, OneRunAtATime, NothingStranded, CancelRestoresTheTruth, PTL

-----------------------------------------------------------------------------
(***************************************************************************)
(* The library                                                             *)
(***************************************************************************)
Link == {a \in Answer : a.parent = None \/ Title[a.parent] = ParentTitle[Title[a.key]]}

\* An answer that a worker holds: one id a server, at least one.
Answered(answer) ==
    /\ DOMAIN answer \in (SUBSET Natives) \ {{}}
    /\ \A n \in DOMAIN answer : answer[n] \in Link
    /\ \A m, n \in DOMAIN answer : ServerOf[m] = ServerOf[n] => m = n

Asked ==
    /\ keys \subseteq Keys
    /\ holds \in [Natives -> Link \cup {NoAnswer}]
    /\ DOMAIN worker = Workers
    /\ \A w \in Workers : worker[w] /= <<>> => Answered(worker[w])
    /\ retry /= <<>> => retry[1] \in Ids /\ retry[2] \in Natives
    /\ queued \subseteq Natives

JobTyped ==
    /\ job.at \in {"idle", "p_read", "p_ask", "p_apply", "m_read", "m_ask", "m_apply"}
    /\ job.cand \subseteq Ids /\ job.parents \in [Ids -> 0 .. MaxRows]
    /\ job.hung \in [Ids -> SUBSET Hangs] /\ job.stale \subseteq Natives
    /\ Lane("idle") => job.pairs = {}
    /\ \A x \in job.seen : x[1] \in Natives
    /\ job = [at |-> job.at, cand |-> job.cand, parents |-> job.parents, seen |-> job.seen,
              asked |-> job.asked, stale |-> job.stale, list |-> job.list, excl |-> job.excl,
              pairs |-> job.pairs, dead |-> job.dead, hung |-> job.hung]

\* What a scan has read of the rows above one another.
Scanned ==
    \A i \in job.cand : job.parents[i] /= 0 =>
        LET p == job.parents[i]
            g == job.parents[p]
        IN /\ p \in job.cand /\ p /= i
           /\ g /= 0 => g \in job.cand /\ g \notin {i, p} /\ job.parents[g] = 0

Sorted ==
    Lane("p_apply") =>
        /\ job.list \in Seq(job.cand)
        /\ \A k \in DOMAIN job.list, x \in job.cand :
              job.list[k] \in AncestorsOf(x) => \E l \in 1 .. k - 1 : job.list[l] = x
        /\ \A n \in Natives \ (job.stale \cup db.movedRefs) :
              db.refs[n] \in job.cand =>
                 \A k \in DOMAIN job.list : job.list[k] \notin {db.refs[n]} \cup AncestorsOf(db.refs[n])

Planned ==
    /\ \A p \in job.pairs :
          /\ p.stale \in Ids /\ p.survivor \in Ids /\ p.stale /= p.survivor
          /\ Unmoved(p) => Title[db.items[p.stale].key] = Title[db.items[p.survivor].key]
    /\ job.at \in {"m_ask", "m_apply"} =>
          \A i \in RowsOf(db) \ db.moved : "planned" \in db.hung[i] <=> "planned" \in job.hung[i]

LInv == Sound(db) /\ Asked /\ JobTyped /\ Scanned /\ Sorted /\ Planned

\* What a write outside the lane leaves of what the lane's job has read: a row that is
\* not stamped, and a ref that is not, are as they were, or gone.
Undisturbed(d, e) ==
    /\ d.moved \subseteq e.moved /\ d.movedRefs \subseteq e.movedRefs
    /\ \A i \in RowsOf(e) \ e.moved :
          /\ i \in RowsOf(d) /\ e.items[i] = d.items[i]
          /\ "planned" \in e.hung[i] <=> "planned" \in d.hung[i]
    /\ \A n \in Natives \ e.movedRefs : e.refs[n] \in {d.refs[n], 0}

Follows(d, e) == Sound(e) /\ (~Lane("idle") => Undisturbed(d, e))

(***************************************************************************)
(* Tables                                                                  *)
(***************************************************************************)
LEMMA TableIs ==
  ASSUME NEW d \in Table
  PROVE  /\ d = [items |-> d.items, refs |-> d.refs, hung |-> d.hung, later |-> d.later, next |-> d.next,
                 moved |-> d.moved, movedRefs |-> d.movedRefs, audit |-> d.audit]
         /\ d.items \in [Ids -> [key : Keys \cup {None}, parent : 0 .. MaxRows]]
         /\ d.refs \in [Natives -> 0 .. MaxRows] /\ d.hung \in [Ids -> SUBSET Hangs]
         /\ d.later \in SUBSET (Ids \X Ids) /\ d.next \in 1 .. MaxRows + 1
         /\ d.moved \in SUBSET Ids /\ d.movedRefs \in SUBSET Natives /\ d.audit \in SUBSET Ids
         /\ RowsOf(d) \subseteq Ids
BY DEF Table, RowsOf

LEMMA IdsAre == MaxRows \in Nat /\ Ids = 1 .. MaxRows /\ 0 \notin Ids /\ Ids \subseteq 0 .. MaxRows
BY TitleAssumption DEF Ids

LEMMA SoundIs ==
  ASSUME NEW d, Sound(d)
  PROVE  /\ d \in Table
         /\ \A n \in Natives : d.refs[n] \in RowsOf(d) \cup {0}
         /\ \A i \in Ids : d.items[i].parent \in RowsOf(d) \cup {0}
         /\ \A i \in RowsOf(d) : /\ i \in Ids /\ i < d.next /\ d.items[i].key \in Keys
                                 /\ Title[d.items[i].key] /= None /\ Kin(d, i)
         /\ \A i \in Ids \ RowsOf(d) : d.items[i] = NoItem
BY TitleAssumption DEF Sound, Linked, RowsOf

\* Nothing hangs three levels below another row, and no row below itself.
LEMMA Height ==
  ASSUME NEW d, Sound(d), NEW i \in Ids, NEW p, p = d.items[i].parent, p /= 0
  PROVE  /\ i \in RowsOf(d) /\ p \in RowsOf(d) /\ p /= i
         /\ LET g == d.items[p].parent
            IN g /= 0 => /\ g \in RowsOf(d) /\ g /= i /\ g /= p /\ d.items[g].parent = 0
<1> USE SoundIs, IdsAre
<1>1. i \in RowsOf(d)
  BY DEF NoItem, RowsOf
<1>2. p \in RowsOf(d) /\ Title[d.items[p].key] = ParentTitle[Title[d.items[i].key]]
  BY <1>1 DEF Kin
<1> DEFINE g == d.items[p].parent
           r == d.items[g].parent
<1>3. g /= 0 => g \in RowsOf(d) /\ Title[d.items[g].key] = ParentTitle[Title[d.items[p].key]]
  BY <1>2 DEF Kin
<1>4. g /= 0 /\ r /= 0 => r \in RowsOf(d) /\ Title[d.items[r].key] = ParentTitle[Title[d.items[g].key]]
  BY <1>3 DEF Kin
<1>5. g /= 0 => r = 0
  <2> SUFFICES ASSUME g /= 0, r /= 0 PROVE FALSE
    OBVIOUS
  <2> DEFINE t == Title[d.items[i].key]
             tp == Title[d.items[p].key]
             tg == Title[d.items[g].key]
             tr == Title[d.items[r].key]
  <2>1. tp = ParentTitle[t] /\ tg = ParentTitle[tp] /\ tr = ParentTitle[tg]
    BY <1>2, <1>3, <1>4
  <2>2. tp /= None /\ tg /= None /\ tr /= None /\ d.items[i].key \in Keys
    BY <1>1, <1>2, <1>3, <1>4
  <2> HIDE DEF tp, tg, tr
  <2> QED
    BY <2>1, <2>2, ParentAssumption
<1>6. p /= i
  BY <1>5
<1> QED
  BY <1>1, <1>2, <1>3, <1>5, <1>6

\* Being sound is a matter of the rows and the refs.
LEMMA SoundAlike ==
  ASSUME NEW d, Sound(d), NEW e \in Table, e.items = d.items, e.refs = d.refs, e.next = d.next
  PROVE  Sound(e) /\ RowsOf(e) = RowsOf(d)
<1>1. RowsOf(e) = RowsOf(d)
  BY DEF RowsOf
<1> QED
  BY <1>1 DEF Sound, Linked, Kin

LEMMA FollowsIsTransitive ==
  ASSUME NEW d, NEW e, NEW f, Follows(d, e), Follows(e, f)
  PROVE  Follows(d, f)
<1> SUFFICES ASSUME ~Lane("idle") PROVE Undisturbed(d, f)
  BY DEF Follows
<1>1. Undisturbed(d, e) /\ Undisturbed(e, f)
  BY DEF Follows
<1>2. d.moved \subseteq f.moved /\ d.movedRefs \subseteq f.movedRefs
  BY <1>1 DEF Undisturbed
<1>3. ASSUME NEW i \in RowsOf(f) \ f.moved
      PROVE  i \in RowsOf(d) /\ f.items[i] = d.items[i] /\ ("planned" \in f.hung[i] <=> "planned" \in d.hung[i])
  <2>1. i \in RowsOf(e) \ e.moved /\ f.items[i] = e.items[i] /\ ("planned" \in f.hung[i] <=> "planned" \in e.hung[i])
    BY <1>1 DEF Undisturbed
  <2> QED
    BY <1>1, <2>1 DEF Undisturbed
<1>4. ASSUME NEW n \in Natives \ f.movedRefs PROVE f.refs[n] \in {d.refs[n], 0}
  <2>1. n \in Natives \ e.movedRefs /\ f.refs[n] \in {e.refs[n], 0}
    BY <1>1 DEF Undisturbed
  <2> QED
    BY <1>1, <2>1 DEF Undisturbed
<1> QED
  BY <1>2, <1>3, <1>4 DEF Undisturbed

(***************************************************************************)
(* What the pipeline's writes do to them                                   *)
(***************************************************************************)
LEMMA TouchIs ==
  ASSUME NEW d \in Table, NEW S \in SUBSET Ids, NEW e, e = Touch(d, S)
  PROVE  /\ e \in Table /\ e.items = d.items /\ e.refs = d.refs /\ e.hung = d.hung /\ e.next = d.next
         /\ e.movedRefs = d.movedRefs /\ e.audit = d.audit /\ RowsOf(e) = RowsOf(d)
         /\ ~Lane("idle") => e.moved = d.moved \cup S
<1> DEFINE T == S \cap RowsOf(d)
           l == {p \in d.later : p[1] \notin S /\ p[2] \notin S}
                   \cup {p \in RowsOf(d) \X T : p[1] \notin T \/ p[1] < p[2]}
           m == IF job.at = "idle" THEN {} ELSE d.moved \cup S
<1>1. e = [d EXCEPT !.later = l, !.moved = m]
  BY DEF Touch
<1>2. l \in SUBSET (Ids \X Ids) /\ m \in SUBSET Ids
  BY TableIs
<1>3. ~Lane("idle") => m = d.moved \cup S
  BY DEF Lane
<1> HIDE DEF l, m
<1>4. e = [items |-> d.items, refs |-> d.refs, hung |-> d.hung, later |-> l, next |-> d.next,
           moved |-> m, movedRefs |-> d.movedRefs, audit |-> d.audit]
  BY <1>1, TableIs DEF Table
<1>5. e \in Table
  BY <1>2, <1>4, TableIs DEF Table
<1> QED
  BY <1>3, <1>4, <1>5 DEF RowsOf

LEMMA TouchFollows ==
  ASSUME NEW d, Sound(d), NEW S \in SUBSET Ids
  PROVE  Follows(d, Touch(d, S))
<1> DEFINE e == Touch(d, S)
<1>1. d \in Table
  BY DEF Sound
<1>2. /\ e \in Table /\ e.items = d.items /\ e.refs = d.refs /\ e.hung = d.hung /\ e.next = d.next
      /\ e.movedRefs = d.movedRefs /\ RowsOf(e) = RowsOf(d)
      /\ ~Lane("idle") => e.moved = d.moved \cup S
  BY <1>1, TouchIs
<1> HIDE DEF e
<1>3. Sound(e)
  BY <1>2, SoundAlike
<1>4. ~Lane("idle") => Undisturbed(d, e)
  BY <1>2 DEF Undisturbed
<1> QED
  BY <1>3, <1>4 DEF e, Follows

LEMMA PutRefsIs ==
  ASSUME NEW d, Sound(d), NEW i \in RowsOf(d), NEW S \in SUBSET Natives,
         \A m, n \in S : ServerOf[m] = ServerOf[n] => m = n
  PROVE  LET e == PutRefs(d, i, S)
         IN /\ Follows(d, e)
            /\ e.items = d.items /\ e.hung = d.hung /\ e.next = d.next /\ e.moved = d.moved /\ e.audit = d.audit
            /\ RowsOf(e) = RowsOf(d)
            /\ \A n \in S : e.refs[n] = i
<1> USE SoundIs, IdsAre
<1> DEFINE e == PutRefs(d, i, S)
           r == [m \in Natives |-> IF m \in S THEN i
                                   ELSE IF d.refs[m] = i /\ \E n \in S : ServerOf[m] = ServerOf[n] THEN 0
                                   ELSE d.refs[m]]
           v == IF job.at = "idle" THEN {} ELSE d.movedRefs \cup S
<1>1. e = [d EXCEPT !.refs = r, !.movedRefs = v]
  BY DEF PutRefs
<1>2. i \in Ids /\ d \in Table
  OBVIOUS
<1>3. r \in [Natives -> 0 .. MaxRows]
  BY <1>2, TableIs
<1>4. \A n \in S : r[n] = i
  OBVIOUS
<1>5. \A m \in Natives \ S : /\ r[m] \in {d.refs[m], 0}
                             /\ r[m] = i => \A n \in S : ServerOf[m] /= ServerOf[n]
  BY <1>2
<1>6. v \in SUBSET Natives /\ (~Lane("idle") => v = d.movedRefs \cup S)
  BY TableIs DEF Lane
<1> HIDE DEF e, r, v
<1>7. e = [items |-> d.items, refs |-> r, hung |-> d.hung, later |-> d.later, next |-> d.next,
           moved |-> d.moved, movedRefs |-> v, audit |-> d.audit]
  BY <1>1, <1>2, TableIs DEF Table
<1>8. e \in Table
  BY <1>2, <1>3, <1>6, <1>7, TableIs DEF Table
<1>9. RowsOf(e) = RowsOf(d)
  BY <1>7 DEF RowsOf
<1>10. \A n \in Natives : r[n] \in RowsOf(d) \cup {0}
  BY <1>4, <1>5
<1>11. ASSUME NEW m \in Natives, NEW n \in Natives, m /= n, r[m] = r[n], r[m] /= 0
       PROVE  ServerOf[m] /= ServerOf[n]
  <2>1. CASE m \in S /\ n \in S
    BY <1>11, <2>1
  <2>2. CASE m \in S /\ n \notin S
    BY <1>4, <1>5, <1>11, <2>2
  <2>3. CASE m \notin S /\ n \in S
    BY <1>4, <1>5, <1>11, <2>3
  <2>4. CASE m \notin S /\ n \notin S
    BY <1>5, <1>11, <2>4 DEF Sound
  <2> QED
    BY <2>1, <2>2, <2>3, <2>4
<1>12. \A x \in RowsOf(d) : Kin(e, x)
  BY <1>7 DEF Kin
<1>13. Sound(e)
  BY <1>7, <1>8, <1>9, <1>10, <1>11, <1>12 DEF Sound, Linked
<1>14. ~Lane("idle") => Undisturbed(d, e)
  BY <1>5, <1>6, <1>7, <1>9 DEF Undisturbed
<1> QED
  BY <1>4, <1>7, <1>9, <1>13, <1>14 DEF e, Follows

LEMMA RekeyedFollows ==
  ASSUME NEW d, Sound(d), NEW n \in Natives, NEW k \in Keys
  PROVE  Follows(d, Rekeyed(d, n, k)) /\ Rekeyed(d, n, k).next = d.next
<1> USE SoundIs, IdsAre
<1> DEFINE i == d.refs[n]
           e == [d EXCEPT !.items[i].key = k]
<1>1. CASE i /= 0 /\ d.items[i].key /= k /\ Stem[d.items[i].key] = Stem[k] /\ WithKey(d, k) = {}
  <2>1. i \in RowsOf(d) /\ i \in Ids /\ Title[d.items[i].key] = Title[k] /\ d \in Table
    BY <1>1, TitleAssumption
  <2> DEFINE items == [d.items EXCEPT ![i] = [key |-> k, parent |-> d.items[i].parent]]
  <2>2. d.items[i] = [key |-> d.items[i].key, parent |-> d.items[i].parent]
    BY <2>1, TableIs
  <2>3. e = [d EXCEPT !.items = items]
    <3>1. [d.items[i] EXCEPT !.key = k] = [key |-> k, parent |-> d.items[i].parent]
      BY <2>2
    <3>2. items = [d.items EXCEPT ![i] = [d.items[i] EXCEPT !.key = k]]
      BY <3>1
    <3>3. e = [d EXCEPT !.items = [d.items EXCEPT ![i] = [d.items[i] EXCEPT !.key = k]]]
      OBVIOUS
    <3> QED
      BY <3>2, <3>3
  <2>4. items \in [Ids -> [key : Keys \cup {None}, parent : 0 .. MaxRows]]
    BY <2>1, TableIs
  <2>5. \A j \in Ids : /\ items[j].parent = d.items[j].parent
                       /\ j /= i => items[j] = d.items[j]
    BY <2>1, TableIs
  <2>6. items[i].key = k
    BY <2>1, TableIs
  <2> HIDE DEF items, e
  <2>7. e = [items |-> items, refs |-> d.refs, hung |-> d.hung, later |-> d.later, next |-> d.next,
             moved |-> d.moved, movedRefs |-> d.movedRefs, audit |-> d.audit]
    BY <2>1, <2>3, TableIs DEF Table
  <2>8. e \in Table
    BY <2>1, <2>4, <2>7, TableIs DEF Table
  <2>9. \A j \in Ids : items[j] = NoItem <=> d.items[j] = NoItem
    BY <2>1, <2>5, <2>6, TitleAssumption DEF NoItem, RowsOf
  <2>10. RowsOf(e) = RowsOf(d)
    BY <2>7, <2>9 DEF RowsOf
  <2>11. \A j \in RowsOf(d) : items[j].key \in Keys /\ Title[items[j].key] = Title[d.items[j].key]
    BY <2>1, <2>5, <2>6
  <2>12. \A j \in RowsOf(d) : Kin(e, j)
    <3> SUFFICES ASSUME NEW j \in RowsOf(d), d.items[j].parent /= 0
                 PROVE  Title[e.items[d.items[j].parent].key] = ParentTitle[Title[e.items[j].key]]
      BY <2>5, <2>7 DEF Kin
    <3>1. d.items[j].parent \in RowsOf(d) /\ Title[d.items[d.items[j].parent].key] = ParentTitle[Title[d.items[j].key]]
      BY DEF Kin
    <3> QED
      BY <2>7, <2>11, <3>1
  <2>13. Linked(e)
    BY <2>5, <2>7, <2>10 DEF Linked
  <2>14. Sound(e)
    BY <2>7, <2>8, <2>10, <2>11, <2>12, <2>13 DEF Sound
  <2>15. Rekeyed(d, n, k) = Touch(e, {i})
    BY <1>1 DEF Rekeyed, e
  <2> DEFINE f == Touch(e, {i})
  <2>16. Follows(e, f)
    BY <2>1, <2>14, TouchFollows
  <2>17. /\ f.items = e.items /\ f.refs = e.refs /\ f.hung = e.hung /\ f.next = e.next /\ f.movedRefs = e.movedRefs
         /\ ~Lane("idle") => f.moved = e.moved \cup {i}
    BY <2>1, <2>8, TouchIs
  <2> HIDE DEF f
  <2>18. ~Lane("idle") => Undisturbed(d, f)
    <3>1. RowsOf(f) = RowsOf(d)
      BY <2>10, <2>17 DEF RowsOf
    <3> QED
      BY <2>5, <2>7, <2>17, <3>1 DEF Undisturbed
  <2> QED
    BY <2>7, <2>15, <2>16, <2>17, <2>18 DEF f, Follows
<1>2. CASE ~(i /= 0 /\ d.items[i].key /= k /\ Stem[d.items[i].key] = Stem[k] /\ WithKey(d, k) = {})
  <2>1. Rekeyed(d, n, k) = d
    BY <1>2 DEF Rekeyed
  <2> QED
    BY <2>1 DEF Follows, Undisturbed
<1> QED
  BY <1>1, <1>2

\* The row an upsert writes is there afterwards, and stamped.
LEMMA UpsertIs ==
  ASSUME NEW d, Sound(d), NEW a \in Link, d.next \in Ids
  PROVE  LET e == Upsert(d, a)
             i == RowFor(d, a.key)
         IN /\ Follows(d, e)
            /\ i \in RowsOf(e) /\ i \in Ids
            /\ ~Lane("idle") => i \in e.moved
<1> USE SoundIs, IdsAre
<1> DEFINE e == Upsert(d, a)
           i == RowFor(d, a.key)
           ups == IF a.parent = None THEN {} ELSE WithKey(d, a.parent)
           up == IF ups = {} THEN 0 ELSE CHOOSE x \in ups : TRUE
           new == WithKey(d, a.key) = {}
           d1 == IF new THEN [d EXCEPT !.items[i] = [key |-> a.key, parent |-> up], !.next = @ + 1]
                 ELSE IF up = 0 THEN d ELSE [d EXCEPT !.items[i].parent = up]
<1>1. e = Touch(d1, {i})
  BY DEF Upsert
<1>2. a.key \in Keys /\ d \in Table
  BY DEF Link, Answer
<1>3. up = 0 \/ (up \in RowsOf(d) /\ Title[d.items[up].key] = ParentTitle[Title[a.key]])
  BY DEF WithKey, Link
<1>4. /\ i \in Ids
      /\ new => i = d.next /\ i \notin RowsOf(d)
      /\ ~new => i \in RowsOf(d) /\ d.items[i].key = a.key
  BY <1>2 DEF RowFor, WithKey
<1> DEFINE par == IF new \/ up /= 0 THEN up ELSE d.items[i].parent
           items == [d.items EXCEPT ![i] = [key |-> a.key, parent |-> par]]
           next == IF new THEN d.next + 1 ELSE d.next
<1>5. d1 = [d EXCEPT !.items = items, !.next = next]
  <2>1. CASE new
    BY <1>2, <1>4, <2>1, TableIs
  <2>2. CASE ~new
    <3>1. d.items[i] = [key |-> a.key, parent |-> d.items[i].parent]
      BY <1>2, <1>4, <2>2, TableIs
    <3>2. CASE up = 0
      <4>1. items = d.items
        BY <1>2, <1>4, <2>2, <3>1, <3>2, TableIs
      <4>2. d1 = d /\ next = d.next
        BY <2>2, <3>2
      <4>3. d = [d EXCEPT !.items = d.items, !.next = d.next]
        <5>1. [d EXCEPT !.items = d.items, !.next = d.next] =
                [items |-> d.items, refs |-> d.refs, hung |-> d.hung, later |-> d.later, next |-> d.next,
                 moved |-> d.moved, movedRefs |-> d.movedRefs, audit |-> d.audit]
          BY <1>2 DEF Table
        <5> QED
          BY <1>2, <5>1, TableIs
      <4> HIDE DEF items, next, d1
      <4> QED
        BY <4>1, <4>2, <4>3
    <3>3. CASE up /= 0
      <4> DEFINE x == [d.items[i] EXCEPT !.parent = up]
      <4>1. x = [key |-> a.key, parent |-> up]
        <5>1. PICK q : d.items[i] = [key |-> a.key, parent |-> q]
          BY <3>1
        <5> HIDE DEF up, i
        <5> QED
          BY <5>1
      <4>2. d1 = [d EXCEPT !.items = [d.items EXCEPT ![i] = x]]
        BY <2>2, <3>3
      <4>3. items = [d.items EXCEPT ![i] = x] /\ next = d.next
        BY <2>2, <3>3, <4>1
      <4> HIDE DEF items, next, d1, x, i, up
      <4>4. [d EXCEPT !.items = items] = [d EXCEPT !.items = items, !.next = d.next]
        BY <1>2, TableIs
      <4> QED
        BY <4>2, <4>3, <4>4
    <3> QED
      BY <3>2, <3>3
  <2> QED
    BY <2>1, <2>2
<1>6. up \in 0 .. MaxRows /\ (~new => d.items[i].parent \in RowsOf(d) \cup {0})
  <2> HIDE DEF up, new, i
  <2>1. up \in 0 .. MaxRows
    BY <1>2, <1>3, TableIs
  <2> QED
    BY <1>2, <1>4, <2>1
<1>7. /\ par = 0 \/ (par \in RowsOf(d) /\ Title[d.items[par].key] = ParentTitle[Title[a.key]])
      /\ par \in 0 .. MaxRows
  <2>1. CASE new \/ up /= 0
    <3>1. par = up
      BY <2>1
    <3> HIDE DEF par, up
    <3> QED
      BY <1>3, <1>6, <3>1
  <2>2. CASE ~new /\ up = 0
    <3>1. par = d.items[i].parent
      BY <2>2
    <3> HIDE DEF par, up, new, i
    <3>2. i \in RowsOf(d) /\ d.items[i].key = a.key /\ Kin(d, i)
      BY <1>4, <2>2
    <3> QED
      BY <1>2, <1>6, <2>2, <3>1, <3>2, TableIs DEF Kin
  <2> QED
    BY <2>1, <2>2
<1>8. next \in 1 .. MaxRows + 1 /\ next >= d.next /\ i < next
  BY <1>2, <1>4, TableIs
<1>9. /\ items \in [Ids -> [key : Keys \cup {None}, parent : 0 .. MaxRows]]
      /\ items[i] = [key |-> a.key, parent |-> par]
      /\ \A j \in Ids \ {i} : items[j] = d.items[j]
  <2> HIDE DEF par, i
  <2> QED
    BY <1>2, <1>4, <1>7, TableIs
<1> HIDE DEF e, d1, up, ups, items, next, par, i
<1>10. d1 = [items |-> items, refs |-> d.refs, hung |-> d.hung, later |-> d.later, next |-> next,
             moved |-> d.moved, movedRefs |-> d.movedRefs, audit |-> d.audit]
  BY <1>2, <1>5, TableIs DEF Table
<1>11. d1 \in Table
  BY <1>2, <1>8, <1>9, <1>10, TableIs DEF Table
<1>12. RowsOf(d1) = RowsOf(d) \cup {i}
  <2>1. items[i] /= NoItem
    BY <1>2, <1>9, TitleAssumption DEF NoItem
  <2> QED
    BY <1>4, <1>9, <1>10, <2>1 DEF RowsOf
<1>13. \A j \in RowsOf(d) : Title[items[j].key] = Title[d.items[j].key]
  BY <1>4, <1>9
<1>14. \A j \in RowsOf(d1) : j < next /\ items[j].key \in Keys
  <2>1. d.next \in Int /\ next \in Int /\ i < next
    BY <1>2, <1>4, <1>8, TableIs
  <2>2. ASSUME NEW j \in RowsOf(d) \ {i} PROVE j < next /\ items[j].key \in Keys
    <3>1. j \in Ids /\ j < d.next /\ d.items[j].key \in Keys
      BY <2>2
    <3> QED
      BY <1>8, <1>9, <2>1, <3>1
  <2> QED
    BY <1>2, <1>9, <1>12, <2>1, <2>2
<1>15. \A j \in RowsOf(d1) : Kin(d1, j)
  <2> SUFFICES ASSUME NEW j \in RowsOf(d1), items[j].parent /= 0
               PROVE  Title[items[items[j].parent].key] = ParentTitle[Title[items[j].key]]
    BY <1>10 DEF Kin
  <2>1. CASE j = i
    BY <1>7, <1>9, <1>13, <2>1
  <2>2. CASE j /= i
    <3>1. j \in RowsOf(d) /\ items[j] = d.items[j]
      BY <1>9, <1>12, <2>2
    <3>2. d.items[j].parent \in RowsOf(d) /\ Title[d.items[d.items[j].parent].key] = ParentTitle[Title[d.items[j].key]]
      BY <3>1 DEF Kin
    <3> QED
      BY <1>13, <3>1, <3>2
  <2> QED
    BY <2>1, <2>2
<1>16. Linked(d1)
  <2>1. \A j \in Ids : items[j].parent \in RowsOf(d) \cup {0}
    BY <1>7, <1>9
  <2> QED
    BY <1>10, <1>12, <2>1 DEF Linked
<1>17. Sound(d1)
  BY <1>10, <1>11, <1>14, <1>15, <1>16 DEF Sound
<1>18. Follows(d1, e)
  BY <1>1, <1>4, <1>17, TouchFollows
<1>19. /\ e.items = items /\ e.refs = d.refs /\ e.hung = d.hung /\ e.movedRefs = d.movedRefs /\ RowsOf(e) = RowsOf(d1)
       /\ ~Lane("idle") => e.moved = d.moved \cup {i}
  <2>1. {i} \in SUBSET Ids
    BY <1>4
  <2>2. /\ e.items = d1.items /\ e.refs = d1.refs /\ e.hung = d1.hung /\ e.movedRefs = d1.movedRefs /\ RowsOf(e) = RowsOf(d1)
        /\ ~Lane("idle") => e.moved = d1.moved \cup {i}
    BY <1>1, <1>11, <2>1, TouchIs
  <2> QED
    BY <1>10, <2>2
<1>20. ~Lane("idle") => Undisturbed(d, e)
  BY <1>9, <1>12, <1>19 DEF Undisturbed
<1> QED
  BY <1>4, <1>12, <1>18, <1>19, <1>20 DEF Follows, e, i

\* Nothing that upserts hang off the rows of S matters to a job, once they are stamped.
LEMMA HangingFollows ==
  ASSUME NEW d, Sound(d), NEW h \in [Ids -> SUBSET Hangs],
         ~Lane("idle") => \A i \in Ids \ d.moved : "planned" \in h[i] <=> "planned" \in d.hung[i]
  PROVE  LET e == [d EXCEPT !.hung = h]
         IN /\ Follows(d, e)
            /\ e.items = d.items /\ e.refs = d.refs /\ e.next = d.next /\ e.hung = h
            /\ RowsOf(e) = RowsOf(d) /\ e.moved = d.moved /\ e.audit = d.audit
<1> DEFINE e == [d EXCEPT !.hung = h]
<1>1. d \in Table /\ e = [d EXCEPT !.hung = h]
  BY DEF Sound
<1> HIDE DEF e
<1>2. e = [items |-> d.items, refs |-> d.refs, hung |-> h, later |-> d.later, next |-> d.next,
           moved |-> d.moved, movedRefs |-> d.movedRefs, audit |-> d.audit]
  BY <1>1, TableIs DEF Table
<1>3. e \in Table
  <2>1. /\ d.items \in [Ids -> [key : Keys \cup {None}, parent : 0 .. MaxRows]]
        /\ d.refs \in [Natives -> 0 .. MaxRows] /\ d.later \in SUBSET (Ids \X Ids) /\ d.next \in 1 .. MaxRows + 1
        /\ d.moved \in SUBSET Ids /\ d.movedRefs \in SUBSET Natives /\ d.audit \in SUBSET Ids
    BY <1>1, TableIs
  <2> QED
    BY <1>2, <2>1 DEF Table
<1>4. RowsOf(e) = RowsOf(d)
  BY <1>2 DEF RowsOf
<1>5. Sound(e)
  BY <1>2, <1>3, SoundAlike
<1>6. ~Lane("idle") => Undisturbed(d, e)
  <2> SUFFICES ASSUME ~Lane("idle") PROVE Undisturbed(d, e)
    OBVIOUS
  <2> QED
    BY <1>2, <1>4 DEF Undisturbed, RowsOf
<1> QED
  BY <1>2, <1>4, <1>5, <1>6 DEF e, Follows

LEMMA FirstIs ==
  ASSUME NEW answer, Answered(answer)
  PROVE  First(answer) \in DOMAIN answer
<1>1. \E n \in DOMAIN answer : \A m \in DOMAIN answer : ServerOf[m] = Plex => m = n
  <2>1. CASE \E n \in DOMAIN answer : ServerOf[n] = Plex
    BY <2>1 DEF Answered
  <2>2. CASE ~\E n \in DOMAIN answer : ServerOf[n] = Plex
    BY <2>2 DEF Answered
  <2> QED
    BY <2>1, <2>2
<1> QED
  BY <1>1 DEF First

\* The row at which a worker's write points the answer is there afterwards, and stamped.
LEMMA PersistFollows ==
  ASSUME NEW d, Sound(d), d.next \in Ids, NEW answer, Answered(answer)
  PROVE  LET e == Persist(d, answer)
             i == e.refs[First(answer)]
         IN /\ Follows(d, e)
            /\ i \in RowsOf(e) /\ i \in Ids
            /\ ~Lane("idle") => i \in e.moved
<1> DEFINE n == First(answer)
           S == DOMAIN answer
           a == answer[n]
           d1 == Rekeyed(d, n, a.key)
           i == RowFor(d1, a.key)
           d2 == Upsert(d1, a)
           e == PutRefs(d2, i, S)
<1>1. n \in S /\ n \in Natives /\ S \in SUBSET Natives /\ a \in Link /\ a.key \in Keys
  BY FirstIs DEF Answered, Link, Answer
<1>2. \A l, m \in S : ServerOf[l] = ServerOf[m] => l = m
  BY DEF Answered
<1>3. Persist(d, answer) = e
  BY DEF Persist
<1> HIDE DEF n, S, a
<1>4. Follows(d, d1) /\ d1.next = d.next
  BY <1>1, RekeyedFollows
<1>5. Sound(d1) /\ d1.next \in Ids
  BY <1>4 DEF Follows
<1> HIDE DEF d1
<1>6. /\ Follows(d1, d2) /\ i \in RowsOf(d2) /\ i \in Ids
      /\ ~Lane("idle") => i \in d2.moved
  BY <1>1, <1>5, UpsertIs
<1>7. Sound(d2)
  BY <1>6 DEF Follows
<1> HIDE DEF d2, i
<1>8. /\ Follows(d2, e) /\ e.moved = d2.moved /\ RowsOf(e) = RowsOf(d2)
      /\ \A m \in S : e.refs[m] = i
  BY <1>1, <1>2, <1>6, <1>7, PutRefsIs
<1> HIDE DEF e
<1>9. Follows(d, e)
  BY <1>4, <1>6, <1>8, FollowsIsTransitive
<1>10. e.refs[n] = i
  BY <1>1, <1>8
<1> QED
  BY <1>3, <1>6, <1>8, <1>9, <1>10 DEF n

LEMMA WritesFollow ==
  ASSUME NEW d, Sound(d), d.next \in Ids, NEW answer, Answered(answer), NEW hangs \in SUBSET Hangs
  PROVE  LET e == Persist(d, answer)
         IN Follows(d, [e EXCEPT !.hung[e.refs[First(answer)]] = @ \cup hangs])
<1> DEFINE e == Persist(d, answer)
           i == e.refs[First(answer)]
           h == [e.hung EXCEPT ![i] = @ \cup hangs]
<1>1. Follows(d, e) /\ i \in RowsOf(e) /\ i \in Ids /\ (~Lane("idle") => i \in e.moved)
  BY PersistFollows
<1>2. Sound(e) /\ e \in Table
  BY <1>1 DEF Follows, Sound
<1> HIDE DEF e
<1>3. h \in [Ids -> SUBSET Hangs] /\ \A x \in Ids \ {i} : h[x] = e.hung[x]
  <2> HIDE DEF i
  <2> QED
    BY <1>1, <1>2, TableIs
<1>4. [e EXCEPT !.hung[i] = @ \cup hangs] = [e EXCEPT !.hung = h]
  OBVIOUS
<1> HIDE DEF h
<1>5. Follows(e, [e EXCEPT !.hung = h])
  <2> HIDE DEF i
  <2>1. ~Lane("idle") => \A x \in Ids \ e.moved : "planned" \in h[x] <=> "planned" \in e.hung[x]
    BY <1>1, <1>3
  <2> QED
    BY <1>2, <1>3, <2>1, HangingFollows
<1> DEFINE f == [e EXCEPT !.hung = h]
<1>6. Follows(d, f)
  <2> HIDE DEF f
  <2>1. Follows(e, f)
    BY <1>5 DEF f
  <2> QED
    BY <1>1, <2>1, FollowsIsTransitive
<1> QED
  BY <1>4, <1>6 DEF e, i

(***************************************************************************)
(* What a delete takes                                                     *)
(***************************************************************************)
\* The cascade is closed: what hangs under a row it takes, it takes too.
LEMMA BelowIsClosed ==
  ASSUME NEW d, Sound(d), NEW S \in SUBSET Ids, NEW i \in Ids, d.items[i].parent \in Below(d, S)
  PROVE  i \in Below(d, S)
<1> DEFINE p == d.items[i].parent
<1>1. Below(d, S) \subseteq Ids
  BY DEF Below, Children, RowsOf
<1>2. p /= 0 /\ p \in Ids
  BY <1>1, IdsAre
<1>3. i \in RowsOf(d)
  BY <1>2, Height
<1>4. p \notin Children(d, Children(d, S))
  <2> SUFFICES ASSUME p \in Children(d, Children(d, S)) PROVE FALSE
    OBVIOUS
  <2> DEFINE g == d.items[p].parent
  <2>1. g \in Children(d, S)
    BY DEF Children
  <2>2. g \in RowsOf(d) /\ d.items[g].parent \in S
    BY <2>1 DEF Children
  <2>3. g /= 0 /\ d.items[g].parent /= 0
    BY <2>2, IdsAre DEF RowsOf
  <2>4. d.items[g].parent = 0
    BY <1>2, <2>3, Height
  <2> QED
    BY <2>3, <2>4
<1>5. p \in S \cup Children(d, S)
  BY <1>4 DEF Below
<1> QED
  BY <1>3, <1>5 DEF Below, Children

LEMMA CascadeIs ==
  ASSUME NEW d, Sound(d), NEW S \in SUBSET Ids
  PROVE  LET e == Cascade(d, S)
             gone == Below(d, S)
         IN /\ Follows(d, e)
            /\ RowsOf(e) = RowsOf(d) \ gone
            /\ \A i \in Ids : e.items[i] = IF i \in gone THEN NoItem ELSE d.items[i]
            /\ \A i \in Ids \ gone : e.hung[i] = d.hung[i]
            /\ \A n \in Natives : e.refs[n] = IF d.refs[n] \in gone THEN 0 ELSE d.refs[n]
            /\ e.moved = d.moved /\ e.movedRefs = d.movedRefs /\ e.audit = d.audit /\ e.next = d.next
<1> DEFINE gone == Below(d, S)
           e == Cascade(d, S)
           items == [i \in Ids |-> IF i \in gone THEN NoItem ELSE d.items[i]]
           refs == [n \in Natives |-> IF d.refs[n] \in gone THEN 0 ELSE d.refs[n]]
           hung == [i \in Ids |-> IF i \in gone THEN {} ELSE d.hung[i]]
           later == {p \in d.later : p[1] \notin gone /\ p[2] \notin gone}
<1>1. e = [d EXCEPT !.items = items, !.refs = refs, !.hung = hung, !.later = later]
  BY DEF Cascade
<1>2. d \in Table
  BY DEF Sound
<1>3. gone \subseteq Ids
  BY DEF Below, Children, RowsOf
<1> HIDE DEF gone
<1>4. NoItem \in [key : Keys \cup {None}, parent : 0 .. MaxRows]
  BY IdsAre DEF NoItem
<1>5. /\ items \in [Ids -> [key : Keys \cup {None}, parent : 0 .. MaxRows]]
      /\ refs \in [Natives -> 0 .. MaxRows]
      /\ hung \in [Ids -> SUBSET Hangs]
      /\ later \in SUBSET (Ids \X Ids)
  <2>1. items \in [Ids -> [key : Keys \cup {None}, parent : 0 .. MaxRows]]
    BY <1>2, <1>4, TableIs
  <2>2. refs \in [Natives -> 0 .. MaxRows]
    BY <1>2, IdsAre, TableIs
  <2>3. hung \in [Ids -> SUBSET Hangs]
    BY <1>2, TableIs
  <2>4. later \in SUBSET (Ids \X Ids)
    BY <1>2, TableIs
  <2> QED
    BY <2>1, <2>2, <2>3, <2>4
<1>6. /\ \A i \in Ids : items[i] = IF i \in gone THEN NoItem ELSE d.items[i]
      /\ \A i \in Ids \ gone : hung[i] = d.hung[i]
      /\ \A n \in Natives : refs[n] = IF d.refs[n] \in gone THEN 0 ELSE d.refs[n]
  OBVIOUS
<1> HIDE DEF items, refs, hung, later, e
<1>7. e = [items |-> items, refs |-> refs, hung |-> hung, later |-> later, next |-> d.next,
           moved |-> d.moved, movedRefs |-> d.movedRefs, audit |-> d.audit]
  BY <1>1, <1>2, TableIs DEF Table
<1>8. e \in Table
  <2>1. d.next \in 1 .. MaxRows + 1 /\ d.moved \in SUBSET Ids /\ d.movedRefs \in SUBSET Natives /\ d.audit \in SUBSET Ids
    BY <1>2, TableIs
  <2> QED
    BY <1>5, <1>7, <2>1 DEF Table
<1>9. RowsOf(e) = RowsOf(d) \ gone
  BY <1>6, <1>7 DEF RowsOf
<1>10. \A i \in Ids : items[i].parent \in RowsOf(e) \cup {0}
  <2> SUFFICES ASSUME NEW i \in Ids PROVE items[i].parent \in RowsOf(e) \cup {0}
    OBVIOUS
  <2>1. CASE i \in gone
    BY <1>6, <2>1 DEF NoItem
  <2>2. CASE i \notin gone
    <3>1. d.items[i].parent \notin gone
      BY <2>2, BelowIsClosed DEF gone
    <3> QED
      BY <1>6, <1>9, <2>2, <3>1, SoundIs
  <2> QED
    BY <2>1, <2>2
<1>11. \A n \in Natives : refs[n] \in RowsOf(e) \cup {0}
  BY <1>6, <1>9, SoundIs
<1>12. ASSUME NEW m \in Natives, NEW n \in Natives, m /= n, refs[m] = refs[n], refs[m] /= 0
       PROVE  ServerOf[m] /= ServerOf[n]
  BY <1>6, <1>12 DEF Sound
<1>13. \A i \in RowsOf(e) : i < d.next /\ items[i].key \in Keys
  BY <1>6, <1>9, SoundIs
<1>14. \A i \in RowsOf(e) : Kin(e, i)
  <2> SUFFICES ASSUME NEW i \in RowsOf(e), items[i].parent /= 0
               PROVE  Title[items[items[i].parent].key] = ParentTitle[Title[items[i].key]]
    BY <1>7 DEF Kin
  <2>1. i \in RowsOf(d) /\ i \in Ids /\ items[i] = d.items[i]
    BY <1>6, <1>9, SoundIs
  <2>2. items[i].parent \in RowsOf(e) /\ items[i].parent \in Ids
    BY <1>10, <2>1 DEF RowsOf
  <2>3. items[items[i].parent] = d.items[items[i].parent]
    BY <1>6, <1>9, <2>2
  <2> QED
    BY <2>1, <2>3, SoundIs DEF Kin
<1>15. Sound(e)
  BY <1>7, <1>8, <1>10, <1>11, <1>12, <1>13, <1>14 DEF Sound, Linked
<1>16. Undisturbed(d, e)
  <2>1. \A i \in RowsOf(e) : i \in RowsOf(d) /\ i \in Ids \ gone
    BY <1>9 DEF RowsOf
  <2> QED
    BY <1>6, <1>7, <2>1 DEF Undisturbed
<1> QED
  BY <1>6, <1>7, <1>9, <1>15, <1>16 DEF e, gone, Follows

(***************************************************************************)
(* What the merge of a pair does                                           *)
(***************************************************************************)
\* A rewritten table of items in which no row changes its title and every link is kin.
LEMMA ItemsSound ==
  ASSUME NEW d, Sound(d), NEW items \in [Ids -> [key : Keys \cup {None}, parent : 0 .. MaxRows]],
         \A i \in Ids : items[i].key = d.items[i].key,
         \A i \in Ids \ RowsOf(d) : items[i] = NoItem,
         \A i \in RowsOf(d) : items[i].parent /= 0 =>
            /\ items[i].parent \in RowsOf(d)
            /\ Title[d.items[items[i].parent].key] = ParentTitle[Title[d.items[i].key]],
         NEW e \in Table, e.items = items, e.refs = d.refs, e.next = d.next
  PROVE  Sound(e) /\ RowsOf(e) = RowsOf(d)
<1>1. RowsOf(e) = RowsOf(d)
  <2>1. \A i \in RowsOf(d) : i \in Ids /\ items[i] /= NoItem
    BY SoundIs, TitleAssumption DEF NoItem
  <2> QED
    BY <2>1 DEF RowsOf
<1>2. \A i \in Ids : items[i].parent \in RowsOf(d) \cup {0}
  BY DEF NoItem
<1>3. \A i \in RowsOf(d) : i < d.next /\ items[i].key \in Keys /\ i \in Ids
  BY SoundIs
<1>4. \A i \in RowsOf(d) : Kin(e, i)
  <2> SUFFICES ASSUME NEW i \in RowsOf(d), items[i].parent /= 0
               PROVE  Title[items[items[i].parent].key] = ParentTitle[Title[items[i].key]]
    BY DEF Kin
  <2>1. i \in Ids /\ items[i].parent \in Ids
    BY <1>3
  <2> QED
    BY <2>1
<1> QED
  BY <1>1, <1>2, <1>3, <1>4, SoundIs DEF Sound, Linked

\* The tables after the merge of a pair, as MergePair writes them.
MergedInto(p) ==
    LET d1 == [db EXCEPT !.hung[p.survivor] = @ \cup Carried(p),
                         !.items[p.survivor].parent =
                             IF @ = 0 THEN db.items[p.stale].parent ELSE @]
    IN Cascade(Repointed(Touch(d1, {p.survivor}), p), {p.stale})

LEMMA MergedFollows ==
  ASSUME Sound(db), Planned, JobTyped, NEW p \in job.pairs, Unmoved(p), Lane("m_apply")
  PROVE  LET e == MergedInto(p)
         IN /\ Follows(db, e)
            /\ RowsOf(e) = RowsOf(db) \ {p.stale}
            /\ e.hung[p.survivor] = db.hung[p.stale] \cup db.hung[p.survivor]
            /\ Children(db, {p.stale}) \subseteq Children(e, {p.survivor})
<1> DEFINE st == p.stale
           sv == p.survivor
           title(i) == Title[db.items[i].key]
           up == db.items[st].parent
           par == IF db.items[sv].parent = 0 THEN up ELSE db.items[sv].parent
           hung == [db.hung EXCEPT ![sv] = @ \cup Carried(p)]
           items == [db.items EXCEPT ![sv] = [key |-> db.items[sv].key, parent |-> par]]
           d1 == [db EXCEPT !.hung[sv] = @ \cup Carried(p),
                            !.items[sv].parent = IF @ = 0 THEN up ELSE @]
           d2 == Touch(d1, {sv})
           moved == [i \in Ids |-> IF items[i].parent = st THEN [key |-> items[i].key, parent |-> sv] ELSE items[i]]
           d3 == [d2 EXCEPT !.items = moved]
           d4 == Touch(d3, Children(d2, {st}))
           e == Cascade(d4, {st})
<1>1. db \in Table /\ ~Lane("idle")
  BY DEF Sound, Lane
<1>2. /\ st \in Ids /\ sv \in Ids /\ st /= sv /\ st \in RowsOf(db) /\ sv \in RowsOf(db)
      /\ st \notin db.moved /\ sv \notin db.moved /\ title(st) = title(sv)
      /\ "planned" \in db.hung[st] <=> "planned" \in job.hung[st]
      /\ "planned" \in db.hung[sv] <=> "planned" \in job.hung[sv]
  BY DEF Planned, Unmoved, Lane
<1>3. Carried(p) \subseteq Hangs /\ db.hung[st] \cup db.hung[sv] = Carried(p) \cup db.hung[sv]
  <2>1. db.hung[st] \subseteq Hangs
    BY <1>1, <1>2, TableIs
  <2> QED
    BY <1>2, <2>1 DEF Carried
<1>4. db.items[sv] = [key |-> db.items[sv].key, parent |-> db.items[sv].parent] /\ db.items[sv].key \in Keys
  BY <1>1, <1>2, TableIs, SoundIs
<1>5. par \in 0 .. MaxRows /\ (par /= 0 => par \in RowsOf(db) /\ title(par) = ParentTitle[title(sv)])
  <2>1. \A i \in {st, sv} : /\ db.items[i].parent \in 0 .. MaxRows
                            /\ db.items[i].parent /= 0 => /\ db.items[i].parent \in RowsOf(db)
                                                          /\ title(db.items[i].parent) = ParentTitle[title(i)]
    BY <1>1, <1>2, TableIs, SoundIs DEF Kin
  <2> QED
    BY <1>2, <2>1
<1>6. d1 = [db EXCEPT !.hung = hung, !.items = items]
  <2> DEFINE x == [db.items[sv] EXCEPT !.parent = par]
  <2>1. x = [key |-> db.items[sv].key, parent |-> par]
    <3>1. PICK q : db.items[sv] = [key |-> db.items[sv].key, parent |-> q]
      BY <1>4
    <3> HIDE DEF par, sv
    <3> QED
      BY <3>1
  <2>2. d1 = [db EXCEPT !.hung = hung, !.items = [db.items EXCEPT ![sv] = x]]
    OBVIOUS
  <2> QED
    BY <2>1, <2>2
<1>7. /\ items \in [Ids -> [key : Keys \cup {None}, parent : 0 .. MaxRows]]
      /\ items[sv] = [key |-> db.items[sv].key, parent |-> par]
      /\ \A i \in Ids \ {sv} : items[i] = db.items[i]
      /\ hung \in [Ids -> SUBSET Hangs]
      /\ hung[sv] = db.hung[sv] \cup Carried(p)
      /\ \A i \in Ids \ {sv} : hung[i] = db.hung[i]
  <2> HIDE DEF par, sv
  <2>1. /\ db.items \in [Ids -> [key : Keys \cup {None}, parent : 0 .. MaxRows]]
        /\ db.hung \in [Ids -> SUBSET Hangs]
    BY <1>1, TableIs
  <2>2. [key |-> db.items[sv].key, parent |-> par] \in [key : Keys \cup {None}, parent : 0 .. MaxRows]
    BY <1>4, <1>5
  <2>3. db.hung[sv] \cup Carried(p) \in SUBSET Hangs
    BY <1>2, <1>3, <2>1
  <2> HIDE DEF sv, par
  <2> QED
    BY <1>2, <2>1, <2>2, <2>3
<1> HIDE DEF par, hung, items, d1
<1>8. d1 = [items |-> items, refs |-> db.refs, hung |-> hung, later |-> db.later, next |-> db.next,
            moved |-> db.moved, movedRefs |-> db.movedRefs, audit |-> db.audit]
  BY <1>1, <1>6, TableIs DEF Table
<1>9. d1 \in Table
  <2>1. /\ db.refs \in [Natives -> 0 .. MaxRows] /\ db.later \in SUBSET (Ids \X Ids) /\ db.next \in 1 .. MaxRows + 1
        /\ db.moved \in SUBSET Ids /\ db.movedRefs \in SUBSET Natives /\ db.audit \in SUBSET Ids
    BY <1>1, TableIs
  <2> QED
    BY <1>7, <1>8, <2>1 DEF Table
<1>10. \A i \in Ids : items[i].key = db.items[i].key
  BY <1>7
<1>11. \A i \in Ids \ RowsOf(db) : items[i] = NoItem
  BY <1>2, <1>7, SoundIs
<1>12. \A i \in RowsOf(db) : items[i].parent /= 0 =>
            items[i].parent \in RowsOf(db) /\ title(items[i].parent) = ParentTitle[title(i)]
  <2> SUFFICES ASSUME NEW i \in RowsOf(db), items[i].parent /= 0
               PROVE  items[i].parent \in RowsOf(db) /\ title(items[i].parent) = ParentTitle[title(i)]
    OBVIOUS
  <2>1. CASE i = sv
    BY <1>5, <1>7, <2>1
  <2>2. CASE i /= sv
    BY <1>7, <2>2, SoundIs DEF Kin
  <2> QED
    BY <2>1, <2>2
<1>13. Sound(d1) /\ RowsOf(d1) = RowsOf(db)
  BY <1>7, <1>8, <1>9, <1>10, <1>11, <1>12, ItemsSound
<1>14. /\ d2 \in Table /\ d2.items = items /\ d2.refs = db.refs /\ d2.hung = hung /\ d2.next = db.next
       /\ d2.movedRefs = db.movedRefs /\ RowsOf(d2) = RowsOf(db) /\ d2.moved = db.moved \cup {sv}
       /\ Sound(d2)
  <2>1. {sv} \in SUBSET Ids
    BY <1>2
  <2>2. Sound(d2)
    BY <1>13, <2>1, TouchFollows DEF Follows
  <2> QED
    BY <1>1, <1>8, <1>9, <1>13, <2>1, <2>2, TouchIs
<1>15. Repointed(d2, p) = d4
  <2>1. d2.items = items
    BY <1>14
  <2>2. \A i \in Ids : items[i] = [key |-> items[i].key, parent |-> items[i].parent]
    BY <1>7
  <2>3. \A i \in Ids : [items[i] EXCEPT !.parent = sv] = [key |-> items[i].key, parent |-> sv]
    <3> TAKE i \in Ids
    <3>1. PICK q, r : items[i] = [key |-> q, parent |-> r]
      BY <2>2
    <3> QED
      BY <3>1
  <2>4. moved = [i \in Ids |-> IF items[i].parent = st THEN [items[i] EXCEPT !.parent = sv] ELSE items[i]]
    BY <2>3
  <2> HIDE DEF moved, d2
  <2> QED
    BY <2>1, <2>4 DEF Repointed
<1>16. /\ moved \in [Ids -> [key : Keys \cup {None}, parent : 0 .. MaxRows]]
       /\ \A i \in Ids : /\ moved[i].key = items[i].key
                         /\ moved[i].parent = IF items[i].parent = st THEN sv ELSE items[i].parent
                         /\ items[i].parent /= st => moved[i] = items[i]
  <2>1. sv \in 0 .. MaxRows
    BY <1>2, IdsAre
  <2> HIDE DEF sv, st
  <2> QED
    BY <1>7, <2>1
<1> HIDE DEF moved, d2
<1>17. d3 = [items |-> moved, refs |-> db.refs, hung |-> hung, later |-> d2.later, next |-> db.next,
             moved |-> d2.moved, movedRefs |-> db.movedRefs, audit |-> d2.audit]
  <2>1. d3 = [d2 EXCEPT !.items = moved]
    OBVIOUS
  <2> HIDE DEF d3
  <2>2. d2 = [items |-> items, refs |-> db.refs, hung |-> hung, later |-> d2.later, next |-> db.next,
              moved |-> d2.moved, movedRefs |-> db.movedRefs, audit |-> d2.audit]
    BY <1>14, TableIs
  <2>3. PICK x, y, z : d2 = [items |-> items, refs |-> db.refs, hung |-> hung, later |-> x, next |-> db.next,
                             moved |-> y, movedRefs |-> db.movedRefs, audit |-> z]
    BY <2>2
  <2> QED
    BY <2>1, <2>3
<1> HIDE DEF d3
<1>18. d3 \in Table
  <2>1. /\ db.refs \in [Natives -> 0 .. MaxRows] /\ d2.later \in SUBSET (Ids \X Ids) /\ db.next \in 1 .. MaxRows + 1
        /\ d2.moved \in SUBSET Ids /\ db.movedRefs \in SUBSET Natives /\ d2.audit \in SUBSET Ids
    BY <1>1, <1>14, TableIs
  <2> QED
    BY <1>7, <1>16, <1>17, <2>1 DEF Table
<1>19. \A i \in Ids \ RowsOf(db) : moved[i] = NoItem
  BY <1>2, <1>11, <1>16, IdsAre DEF NoItem
<1>20. \A i \in RowsOf(db) : moved[i].parent /= 0 =>
          moved[i].parent \in RowsOf(db) /\ title(moved[i].parent) = ParentTitle[title(i)]
  <2> SUFFICES ASSUME NEW i \in RowsOf(db), moved[i].parent /= 0
               PROVE  moved[i].parent \in RowsOf(db) /\ title(moved[i].parent) = ParentTitle[title(i)]
    OBVIOUS
  <2>1. i \in Ids
    BY DEF RowsOf
  <2>2. CASE items[i].parent = st
    <3>1. st /= 0
      BY <1>2, IdsAre
    <3>2. title(st) = ParentTitle[title(i)]
      BY <1>12, <2>2, <3>1
    <3> QED
      BY <1>2, <1>16, <2>1, <2>2, <3>2
  <2>3. CASE items[i].parent /= st
    BY <1>12, <1>16, <2>1, <2>3
  <2> QED
    BY <2>2, <2>3
<1>21. Sound(d3) /\ RowsOf(d3) = RowsOf(db)
  <2>1. \A i \in Ids : moved[i].key = db.items[i].key
    BY <1>10, <1>16
  <2> QED
    BY <1>16, <1>17, <1>18, <1>19, <1>20, <2>1, ItemsSound
<1>22. /\ Sound(d4) /\ d4.items = moved /\ d4.refs = db.refs /\ d4.hung = hung
       /\ d4.movedRefs = db.movedRefs /\ RowsOf(d4) = RowsOf(db)
       /\ d4.moved = db.moved \cup {sv} \cup Children(d2, {st})
  <2>1. Children(d2, {st}) \in SUBSET Ids
    BY DEF Children, RowsOf
  <2>2. Sound(d4)
    BY <1>21, <2>1, TouchFollows DEF Follows
  <2>3. /\ d4.items = d3.items /\ d4.refs = d3.refs /\ d4.hung = d3.hung
        /\ d4.movedRefs = d3.movedRefs /\ RowsOf(d4) = RowsOf(d3)
        /\ ~Lane("idle") => d4.moved = d3.moved \cup Children(d2, {st})
    <3> DEFINE kids == Children(d2, {st})
    <3>1. d4 = Touch(d3, kids) /\ kids \in SUBSET Ids
      BY <2>1
    <3> HIDE DEF kids, d4
    <3>2. /\ d4.items = d3.items /\ d4.refs = d3.refs /\ d4.hung = d3.hung
          /\ d4.movedRefs = d3.movedRefs /\ RowsOf(d4) = RowsOf(d3)
          /\ ~Lane("idle") => d4.moved = d3.moved \cup kids
      BY <1>18, <3>1, TouchIs
    <3> QED
      BY <3>2 DEF kids
  <2> HIDE DEF d4
  <2> QED
    BY <1>1, <1>14, <1>17, <1>21, <2>2, <2>3
<1> HIDE DEF d4
<1>23. Below(d4, {st}) = {st}
  <2>1. Children(d4, {st}) = {}
    <3> SUFFICES ASSUME NEW i \in Ids PROVE moved[i].parent /= st
      BY <1>22 DEF Children, RowsOf
    <3> QED
      BY <1>2, <1>16
  <2>2. Children(d4, {}) = {}
    BY DEF Children
  <2> QED
    BY <2>1, <2>2 DEF Below
<1>24. /\ Sound(e) /\ RowsOf(e) = RowsOf(db) \ {st}
       /\ \A i \in Ids \ {st} : e.items[i] = moved[i] /\ e.hung[i] = hung[i]
       /\ \A n \in Natives : e.refs[n] \in {db.refs[n], 0}
       /\ e.moved = db.moved \cup {sv} \cup Children(d2, {st}) /\ e.movedRefs = db.movedRefs
  <2>1. {st} \in SUBSET Ids
    BY <1>2
  <2> DEFINE gone == Below(d4, {st})
  <2>2. /\ Follows(d4, e)
        /\ RowsOf(e) = RowsOf(d4) \ gone
        /\ \A i \in Ids : e.items[i] = IF i \in gone THEN NoItem ELSE d4.items[i]
        /\ \A i \in Ids \ gone : e.hung[i] = d4.hung[i]
        /\ \A n \in Natives : e.refs[n] = IF d4.refs[n] \in gone THEN 0 ELSE d4.refs[n]
        /\ e.moved = d4.moved /\ e.movedRefs = d4.movedRefs
    BY <1>22, <2>1, CascadeIs
  <2> HIDE DEF e
  <2> QED
    BY <1>22, <1>23, <2>2 DEF Follows
<1>25. MergedInto(p) = e
  BY <1>15 DEF MergedInto, d1, d2
<1> HIDE DEF e
<1>26. Children(d2, {st}) = {i \in RowsOf(db) : items[i].parent = st}
  BY <1>14 DEF Children
<1>27. Undisturbed(db, e)
  <2>1. ASSUME NEW i \in RowsOf(e) \ e.moved
        PROVE  /\ i \in RowsOf(db) /\ e.items[i] = db.items[i]
               /\ "planned" \in e.hung[i] <=> "planned" \in db.hung[i]
    <3>1. i \in RowsOf(db) /\ i \in Ids /\ i /= st /\ i /= sv
      BY <1>24 DEF RowsOf
    <3>2. items[i].parent /= st
      BY <1>24, <1>26, <3>1
    <3> QED
      BY <1>7, <1>16, <1>24, <3>1, <3>2
  <2> QED
    BY <1>24, <2>1 DEF Undisturbed
<1>28. e.hung[sv] = db.hung[st] \cup db.hung[sv]
  BY <1>2, <1>3, <1>7, <1>24
<1>29. Children(db, {st}) \subseteq Children(e, {sv})
  <2> SUFFICES ASSUME NEW i \in RowsOf(db), db.items[i].parent = st
               PROVE  i \in RowsOf(e) /\ e.items[i].parent = sv
    BY DEF Children
  <2>1. i \in Ids /\ st /= 0
    BY <1>2, IdsAre DEF RowsOf
  <2>2. i /= st
    BY <2>1, Height
  <2>3. items[i].parent = st
    <3>1. CASE i = sv
      BY <1>7, <2>1, <3>1 DEF par
    <3>2. CASE i /= sv
      BY <1>7, <2>1, <3>2
    <3> QED
      BY <3>1, <3>2
  <2> QED
    BY <1>16, <1>24, <2>1, <2>2, <2>3
<1> QED
  BY <1>24, <1>25, <1>27, <1>28, <1>29 DEF Follows

Begun == [d |-> db, pruned |-> {}, blocked |-> {}]

\* The fold has a value at every length of the list.
LEMMA RetiringExists ==
  ASSUME NEW list
  PROVE  \A n \in Nat : \E f : f = [k \in 0 .. n |-> IF k = 0 THEN Begun ELSE Retire(f[k - 1], list[k])]
<1> DEFINE T == {n \in Nat : \E f : f = [k \in 0 .. n |-> IF k = 0 THEN Begun ELSE Retire(f[k - 1], list[k])]}
<1>1. 0 \in T
  <2> DEFINE f == [k \in 0 .. 0 |-> Begun]
  <2>1. f = [k \in 0 .. 0 |-> IF k = 0 THEN Begun ELSE Retire(f[k - 1], list[k])]
    OBVIOUS
  <2> QED
    BY <2>1
<1>2. ASSUME NEW n \in T PROVE n + 1 \in T
  <2>1. PICK f : f = [k \in 0 .. n |-> IF k = 0 THEN Begun ELSE Retire(f[k - 1], list[k])]
    OBVIOUS
  <2> DEFINE last == Retire(f[n], list[n + 1])
             h == [k \in 0 .. n + 1 |-> IF k <= n THEN f[k] ELSE last]
  <2>2. \A k \in 0 .. n : h[k] = f[k]
    OBVIOUS
  <2>3. h[n + 1] = last
    OBVIOUS
  <2> DEFINE e(k) == IF k = 0 THEN Begun ELSE Retire(h[k - 1], list[k])
  <2>4. \A k \in 0 .. n + 1 : h[k] = e(k)
    <3> TAKE k \in 0 .. n + 1
    <3>1. CASE k = n + 1
      BY <2>2, <2>3, <3>1
    <3>2. CASE k /= n + 1
      <4>1. k \in 0 .. n
        BY <3>2
      <4>2. f[k] = IF k = 0 THEN Begun ELSE Retire(f[k - 1], list[k])
        BY <2>1, <4>1
      <4>3. k /= 0 => h[k - 1] = f[k - 1]
        BY <2>2, <4>1
      <4> QED
        BY <2>2, <4>1, <4>2, <4>3
    <3> QED
      BY <3>1, <3>2
  <2>5. h = [k \in 0 .. n + 1 |-> h[k]]
    OBVIOUS
  <2> HIDE DEF h
  <2>6. [k \in 0 .. n + 1 |-> h[k]] = [k \in 0 .. n + 1 |-> e(k)]
    BY <2>4
  <2>7. h = [k \in 0 .. n + 1 |-> IF k = 0 THEN Begun ELSE Retire(h[k - 1], list[k])]
    BY <2>5, <2>6
  <2>8. \E g : g = [k \in 0 .. n + 1 |-> IF k = 0 THEN Begun ELSE Retire(g[k - 1], list[k])]
    BY <2>7
  <2> QED
    BY <2>8
<1>3. T \in SUBSET Nat
  OBVIOUS
<1> HIDE DEF T
<1>4. T = Nat
  BY <1>1, <1>2, <1>3, SetInduction
<1> QED
  BY <1>4 DEF T

LEMMA RetiredIs ==
  ASSUME NEW list, Len(list) \in Nat
  PROVE  \E f : /\ f[0] = Begun
                /\ \A k \in 0 .. Len(list) - 1 : f[k + 1] = Retire(f[k], list[k + 1])
                /\ Retired(list) = f[Len(list)]
<1> DEFINE n == Len(list)
           f == CHOOSE f : f = [k \in 0 .. n |-> IF k = 0 THEN Begun ELSE Retire(f[k - 1], list[k])]
<1>1. f = [k \in 0 .. n |-> IF k = 0 THEN Begun ELSE Retire(f[k - 1], list[k])]
  BY RetiringExists
<1>2. Retired(list) = f[n]
  BY DEF Retired, Begun
<1> HIDE DEF f
<1>3. f[0] = Begun
  BY <1>1
<1>4. \A k \in 0 .. n - 1 : f[k + 1] = Retire(f[k], list[k + 1])
  <2> TAKE k \in 0 .. n - 1
  <2>1. k + 1 \in 0 .. n /\ k + 1 /= 0 /\ (k + 1) - 1 = k
    OBVIOUS
  <2>2. f[k + 1] = IF k + 1 = 0 THEN Begun ELSE Retire(f[(k + 1) - 1], list[k + 1])
    BY <1>1, <2>1
  <2> QED
    BY <2>1, <2>2
<1> QED
  BY <1>2, <1>3, <1>4

\* What holds when the first k of the list are dealt with: a row in its place is removed
\* as one of the list, never with the row above it, since that would have been skipped.
Retiring(acc, k) ==
    /\ acc = [d |-> acc.d, pruned |-> acc.pruned, blocked |-> acc.blocked]
    /\ Sound(acc.d) /\ acc.d.moved = db.moved /\ acc.d.movedRefs = db.movedRefs
    /\ RowsOf(acc.d) \subseteq RowsOf(db)
    /\ \A i \in RowsOf(acc.d) : acc.d.items[i] = db.items[i]
    /\ \A i \in acc.pruned : /\ i \notin db.moved /\ i \notin RowsOf(acc.d) /\ i \in Ids
                             /\ \E l \in 1 .. k : job.list[l] = i
    /\ \A l \in 1 .. k : job.list[l] \in acc.pruned \/ job.parents[job.list[l]] \in acc.blocked
    /\ \A i \in Ids : InPlace(i) /\ i \notin RowsOf(acc.d) => i \in acc.pruned

LEMMA RetireStep ==
  ASSUME Sound(db), JobTyped, Scanned, Sorted, Lane("p_apply"),
         NEW k \in 0 .. Len(job.list) - 1, NEW acc, Retiring(acc, k)
  PROVE  Retiring(Retire(acc, job.list[k + 1]), k + 1)
<1> DEFINE j == job.list[k + 1]
           d == acc.d
           new == Retire(acc, j)
<1> SUFFICES Retiring(new, k + 1)
  OBVIOUS
<1>1. /\ k \in Nat /\ k + 1 \in DOMAIN job.list /\ j \in job.cand /\ j \in Ids
      /\ 1 .. k + 1 = (1 .. k) \cup {k + 1}
  BY DEF Sorted, JobTyped
<1>2. PICK x, y, z : acc = [d |-> x, pruned |-> y, blocked |-> z]
  BY DEF Retiring
<1>3. CASE j \in acc.blocked \/ j \notin RowsOf(d) \/ j \in d.moved
  <2>1. new = [d |-> acc.d, pruned |-> acc.pruned, blocked |-> acc.blocked \cup {job.parents[j]}]
    <3>1. new = [acc EXCEPT !.blocked = @ \cup {job.parents[j]}]
      BY <1>3 DEF Retire
    <3> HIDE DEF new, j
    <3> QED
      BY <1>2, <3>1
  <2> HIDE DEF new
  <2> QED
    BY <1>1, <2>1 DEF Retiring
<1>4. CASE ~(j \in acc.blocked \/ j \notin RowsOf(d) \/ j \in d.moved)
  <2> DEFINE e == Cascade(d, {j})
             gone == Below(d, {j})
  <2>1. new = [d |-> e, pruned |-> acc.pruned \cup {j}, blocked |-> acc.blocked]
    <3>1. new = [acc EXCEPT !.d = e, !.pruned = @ \cup {j}]
      BY <1>4 DEF Retire
    <3> HIDE DEF new, j, e
    <3> QED
      BY <1>2, <3>1
  <2>2. Sound(d) /\ {j} \in SUBSET Ids
    BY <1>1 DEF Retiring
  <2>3. /\ Sound(e) /\ RowsOf(e) = RowsOf(d) \ gone
        /\ \A i \in Ids : e.items[i] = IF i \in gone THEN NoItem ELSE d.items[i]
        /\ e.moved = d.moved /\ e.movedRefs = d.movedRefs
    BY <2>2, CascadeIs DEF Follows
  <2>4. j \in gone
    BY DEF Below
  <2>5. \A i \in RowsOf(e) : i \in RowsOf(d) /\ i \in Ids /\ i \notin gone
    BY <2>3 DEF RowsOf
  <2> HIDE DEF e
  <2>6. ASSUME NEW i \in Ids, InPlace(i), i \notin RowsOf(e) PROVE i \in acc.pruned \cup {j}
    <3> SUFFICES ASSUME i \in RowsOf(d), i /= j PROVE FALSE
      BY <2>6 DEF Retiring
    <3>1. i \in gone /\ d.items[i] = db.items[i] /\ i \in job.cand /\ job.parents[i] = db.items[i].parent
      BY <2>3, <2>6 DEF Retiring, InPlace
    <3>2. j /= 0 /\ j \notin acc.blocked
      BY <1>1, <1>4, IdsAre
    <3>3. \A m \in RowsOf(d) : m \in job.cand /\ job.parents[m] = j => FALSE
      <4> SUFFICES ASSUME NEW m \in RowsOf(d), m \in job.cand, job.parents[m] = j PROVE FALSE
        OBVIOUS
      <4>1. j \in AncestorsOf(m)
        BY <3>2 DEF AncestorsOf
      <4>2. PICK l \in 1 .. k : job.list[l] = m
        BY <1>1, <4>1 DEF Sorted
      <4> QED
        BY <3>2, <4>2 DEF Retiring
    <3>4. CASE i \in Children(d, {j})
      <4>1. job.parents[i] = j
        BY <3>1, <3>4 DEF Children
      <4> QED
        BY <3>1, <3>3, <4>1
    <3>5. CASE i \in Children(d, Children(d, {j}))
      <4> DEFINE m == d.items[i].parent
      <4>1. m \in RowsOf(d) /\ d.items[m].parent = j
        BY <3>5 DEF Children
      <4>2. m = job.parents[i] /\ m /= 0 /\ d.items[m] = db.items[m]
        BY <3>1, <4>1, IdsAre DEF Retiring, RowsOf
      <4>3. m \in job.cand
        BY <3>1, <4>2 DEF Scanned
      <4>4. job.parents[m] = j
        BY <2>6, <3>1, <4>1, <4>2 DEF InPlace
      <4> QED
        BY <3>3, <4>1, <4>3, <4>4
    <3> QED
      BY <3>1, <3>4, <3>5 DEF Below
  <2> HIDE DEF new, gone
  <2>7. /\ new.d = e /\ new.pruned = acc.pruned \cup {j} /\ new.blocked = acc.blocked
    BY <2>1
  <2>8. \A i \in RowsOf(e) : i \in RowsOf(db) /\ e.items[i] = db.items[i]
    BY <2>3, <2>5 DEF Retiring
  <2>9. \A i \in acc.pruned \cup {j} : /\ i \notin db.moved /\ i \notin RowsOf(e) /\ i \in Ids
                                       /\ \E l \in 1 .. k + 1 : job.list[l] = i
    BY <1>1, <1>4, <2>3, <2>4 DEF Retiring
  <2>10. \A l \in 1 .. k + 1 : job.list[l] \in acc.pruned \cup {j} \/ job.parents[job.list[l]] \in acc.blocked
    BY <1>1 DEF Retiring
  <2>11. e.moved = db.moved /\ e.movedRefs = db.movedRefs
    BY <2>3 DEF Retiring
  <2>12. new = [d |-> new.d, pruned |-> new.pruned, blocked |-> new.blocked]
    BY <2>1, <2>7
  <2> QED
    BY <2>3, <2>6, <2>7, <2>8, <2>9, <2>10, <2>11, <2>12 DEF Retiring
<1> QED
  BY <1>3, <1>4

LEMMA RetiringAll ==
  ASSUME Sound(db), JobTyped, Scanned, Sorted, Lane("p_apply")
  PROVE  Retiring(Retired(job.list), Len(job.list))
<1> DEFINE n == Len(job.list)
<1>1. n \in Nat
  BY DEF Sorted
<1>2. PICK f : /\ f[0] = Begun
               /\ \A k \in 0 .. n - 1 : f[k + 1] = Retire(f[k], job.list[k + 1])
               /\ Retired(job.list) = f[n]
  BY <1>1, RetiredIs
<1> DEFINE T == {k \in Nat : k <= n => Retiring(f[k], k)}
<1>3. 0 \in T
  <2>1. Retiring(Begun, 0)
    BY DEF Retiring, Begun, InPlace
  <2> QED
    BY <1>2, <2>1
<1>4. ASSUME NEW k \in T PROVE k + 1 \in T
  <2> SUFFICES ASSUME k + 1 <= n PROVE Retiring(f[k + 1], k + 1)
    OBVIOUS
  <2>1. k \in 0 .. n - 1 /\ Retiring(f[k], k)
    BY <1>1
  <2>2. f[k + 1] = Retire(f[k], job.list[k + 1])
    BY <1>2, <2>1
  <2> QED
    BY <2>1, <2>2, RetireStep
<1>5. T \in SUBSET Nat
  OBVIOUS
<1> HIDE DEF T
<1>6. T = Nat
  BY <1>3, <1>4, <1>5, SetInduction
<1>7. Retiring(f[n], n)
  BY <1>1, <1>6 DEF T
<1> QED
  BY <1>2, <1>7

(***************************************************************************)
(* The steps                                                               *)
(***************************************************************************)
LEMMA LibraryStarts == LibraryInit => LInv
<1> SUFFICES ASSUME LibraryInit PROVE LInv
  OBVIOUS
<1>1. Sound(db)
  BY FirstRowsAssumption DEF LibraryInit
<1>2. job = NoJob
  BY DEF LibraryInit
<1>3. JobTyped
  BY <1>2, IdsAre DEF JobTyped, NoJob, Lane
<1>4. Scanned /\ Sorted /\ Planned
  BY <1>2 DEF Scanned, Sorted, Planned, NoJob, Lane
<1>5. holds \in [Natives -> Link \cup {NoAnswer}]
  <2> DEFINE answer(n) == [key |-> db.items[db.refs[n]].key,
                           parent |-> IF db.items[db.refs[n]].parent = 0 THEN None
                                      ELSE db.items[db.items[db.refs[n]].parent].key]
  <2>1. ASSUME NEW n \in Natives, db.refs[n] /= 0 PROVE answer(n) \in Link
    <3> DEFINE i == db.refs[n]
               u == db.items[i].parent
    <3>1. i \in RowsOf(db) /\ db.items[i].key \in Keys
      BY <1>1, <2>1, SoundIs
    <3>2. u /= 0 => db.items[u].key \in Keys /\ Title[db.items[u].key] = ParentTitle[Title[db.items[i].key]]
      BY <1>1, <3>1, SoundIs DEF Kin, RowsOf
    <3>3. \A k \in Keys : \A l : l = None \/ (l \in Keys /\ Title[l] = ParentTitle[Title[k]])
                             => [key |-> k, parent |-> l] \in Link
      BY DEF Link, Answer
    <3> QED
      BY <3>1, <3>2, <3>3
  <2>2. holds = [n \in Natives |-> IF db.refs[n] = 0 THEN NoAnswer ELSE answer(n)]
    BY DEF LibraryInit
  <2> HIDE DEF answer
  <2> QED
    BY <2>1, <2>2
<1>6. Asked
  BY <1>5, LibrariesAssumption DEF LibraryInit, Asked
<1> QED
  BY <1>1, <1>3, <1>4, <1>6 DEF LInv

\* What a job has read still stands after a write that follows.
LEMMA LaneStep ==
  ASSUME LInv, Follows(db, db'), JobTyped', Asked',
         job'.at = job.at, job'.cand = job.cand, job'.parents = job.parents, job'.hung = job.hung,
         job'.stale = job.stale, job'.list = job.list, job'.pairs \subseteq job.pairs
  PROVE  LInv'
<1>1. Sound(db')
  BY DEF Follows
<1>2. ~Lane("idle") => Undisturbed(db, db')
  BY DEF Follows
<1>3. Scanned'
  BY DEF LInv, Scanned
<1>4. Sorted'
  <2> SUFFICES ASSUME job.at = "p_apply" PROVE Sorted'
    BY DEF Sorted, Lane
  <2>1. Sorted /\ Lane("p_apply") /\ Undisturbed(db, db') /\ 0 \notin job.cand
    BY <1>2, IdsAre DEF LInv, Lane, JobTyped
  <2>2. /\ job.list \in Seq(job.cand)
        /\ \A k \in DOMAIN job.list, x \in job.cand :
              job.list[k] \in AncestorsOf(x) => \E l \in 1 .. k - 1 : job.list[l] = x
    BY <2>1 DEF Sorted
  <2>3. ASSUME NEW n \in Natives \ (job.stale \cup db'.movedRefs), db'.refs[n] \in job.cand
        PROVE  \A k \in DOMAIN job.list : job.list[k] \notin {db'.refs[n]} \cup AncestorsOf(db'.refs[n])
    <3>1. n \notin job.stale \cup db.movedRefs /\ db'.refs[n] = db.refs[n]
      BY <2>1, <2>3 DEF Undisturbed
    <3> QED
      BY <2>1, <2>3, <3>1 DEF Sorted
  <2>4. \A x : AncestorsOf(x)' = AncestorsOf(x)
    BY DEF AncestorsOf
  <2> QED
    BY <2>2, <2>3, <2>4 DEF Sorted
<1>5. Planned'
  <2>1. CASE job.at = "idle"
    <3>1. job'.pairs = {}
      BY <2>1 DEF LInv, JobTyped, Lane
    <3> QED
      BY <2>1, <3>1 DEF Planned
  <2>2. CASE job.at /= "idle"
    <3>1. Undisturbed(db, db')
      BY <1>2, <2>2 DEF Lane
    <3>2. ASSUME NEW p \in job'.pairs, Unmoved(p)'
          PROVE  Title[db'.items[p.stale].key] = Title[db'.items[p.survivor].key]
      <4>1. Unmoved(p) /\ db'.items[p.stale] = db.items[p.stale] /\ db'.items[p.survivor] = db.items[p.survivor]
        BY <3>1, <3>2 DEF Undisturbed, Unmoved, RowsOf
      <4> QED
        BY <4>1 DEF LInv, Planned
    <3>3. job.at \in {"m_ask", "m_apply"} =>
            \A i \in RowsOf(db') \ db'.moved : "planned" \in db'.hung[i] <=> "planned" \in job.hung[i]
      BY <3>1 DEF LInv, Planned, Undisturbed
    <3>4. \A p \in job'.pairs : p.stale \in Ids /\ p.survivor \in Ids /\ p.stale /= p.survivor
      BY DEF LInv, Planned
    <3> QED
      BY <3>2, <3>3, <3>4 DEF Planned, RowsOf
  <2> QED
    BY <2>1, <2>2
<1> QED
  BY <1>1, <1>3, <1>4, <1>5 DEF LInv

\* A step that leaves the lane alone.
LEMMA OutsideStep ==
  ASSUME LInv, Follows(db, db'), Asked', UNCHANGED job
  PROVE  LInv'
<1>1. JobTyped'
  BY DEF LInv, JobTyped, Lane, Ids, NoJob
<1> QED
  BY <1>1, LaneStep

\* And one that leaves the tables alone too.
LEMMA ServersStep ==
  ASSUME LInv, UNCHANGED <<db, job>>, Asked'
  PROVE  LInv'
<1>1. Follows(db, db')
  BY DEF LInv, Follows, Undisturbed
<1> QED
  BY <1>1, OutsideStep

LEMMA OutsideStarts ==
  ASSUME LInv, UNCHANGED <<db, job>>,
         \/ \E n \in Natives : Loses(n) \/ Enqueue(n) \/ Unresolved(n) \/ \E a \in Answers(n) : Gains(n, a)
         \/ \E w \in Workers : Resolve(w)
         \/ \E i \in Ids, n \in Natives : RetryResolve(i, n)
  PROVE  LInv'
<1>1. Asked
  BY DEF LInv
<1>2. CASE \E n \in Natives : Loses(n) \/ Enqueue(n) \/ Unresolved(n)
  <2>1. PICK n \in Natives : Loses(n) \/ Enqueue(n) \/ Unresolved(n)
    BY <1>2
  <2>2. Asked'
    BY <1>1, <2>1 DEF Loses, Enqueue, Unresolved, Asked, Answered
  <2> QED
    BY <2>2, ServersStep
<1>3. CASE \E n \in Natives : \E a \in Answers(n) : Gains(n, a)
  <2>0. PICK n \in Natives : \E a \in Answers(n) : Gains(n, a)
    BY <1>3
  <2>1. PICK a \in Answers(n) : Gains(n, a)
    BY <2>0
  <2>2. a \in Link
    BY DEF Answers, Link
  <2>3. Asked'
    BY <1>1, <2>1, <2>2 DEF Gains, Asked, Answered
  <2> QED
    BY <2>3, ServersStep
<1>4. CASE \E w \in Workers : Resolve(w)
  <2>0. PICK w \in Workers : \E t, hint : ResolvesTitle(w, t, hint)
    BY <1>4 DEF Resolve
  <2>1. PICK t, hint : ResolvesTitle(w, t, hint)
    BY <2>0
  <2>2. PICK got \in (SUBSET {n \in Natives : Held(n) /\ Title[holds[n].key] = t}) \ {{}} :
          /\ \A m, n \in got : ServerOf[m] = ServerOf[n] => m = n
          /\ worker' = [worker EXCEPT ![w] = [n \in got |-> holds[n]]]
    BY <2>1 DEF ResolvesTitle
  <2> DEFINE answer == [n \in got |-> holds[n]]
  <2>3. Answered(answer)
    <3>1. DOMAIN answer = got /\ got \in (SUBSET Natives) \ {{}}
      <4>1. got \subseteq Natives /\ got /= {}
        BY <2>2
      <4>2. DOMAIN answer = got
        OBVIOUS
      <4> HIDE DEF answer
      <4> QED
        BY <4>1, <4>2
    <3>2. \A n \in got : answer[n] = holds[n] /\ holds[n] /= NoAnswer /\ n \in Natives
      BY <2>2 DEF Held
    <3> HIDE DEF answer
    <3>3. \A n \in got : answer[n] \in Link
      BY <1>1, <3>2 DEF Asked
    <3> QED
      BY <2>2, <3>1, <3>3 DEF Answered
  <2> HIDE DEF answer
  <2>4. UNCHANGED <<keys, holds, retry>> /\ queued' \subseteq queued
    BY <2>1 DEF ResolvesTitle
  <2>5. worker' = [worker EXCEPT ![w] = answer]
    BY <2>2 DEF answer
  <2>6. \A v \in Workers : worker'[v] /= <<>> => Answered(worker'[v])
    BY <1>1, <2>3, <2>5 DEF Asked
  <2>7. DOMAIN worker' = Workers
    BY <1>1, <2>5 DEF Asked
  <2>8. Asked'
    BY <1>1, <2>4, <2>6, <2>7 DEF Asked, Answered
  <2> QED
    BY <2>8, ServersStep
<1>5. CASE \E i \in Ids, n \in Natives : RetryResolve(i, n)
  <2>1. PICK i \in Ids, n \in Natives : RetryResolve(i, n)
    BY <1>5
  <2>2. Asked'
    BY <1>1, <2>1 DEF RetryResolve, Asked, Answered
  <2> QED
    BY <2>2, ServersStep
<1> QED
  BY <1>2, <1>3, <1>4, <1>5

\* A worker commits what it resolved.
LEMMA WritesStep ==
  ASSUME LInv, NEW w \in Workers, NEW hangs \in SUBSET Hangs, NEW done \in BOOLEAN, Writes(w, hangs, done)
  PROVE  LInv'
<1>1. Asked /\ Sound(db)
  BY DEF LInv
<1>2. Answered(worker[w])
  BY <1>1 DEF Asked, Writes
<1>3. db.next \in Ids
  <2>1. db.next \in 1 .. MaxRows + 1 /\ db.next <= MaxRows
    BY <1>1, TableIs DEF Writes, Sound
  <2> QED
    BY <2>1, IdsAre
<1> DEFINE answer == worker[w]
           d == Persist(db, answer)
<1>4. db' = [d EXCEPT !.hung[d.refs[First(answer)]] = @ \cup hangs] /\ UNCHANGED <<job, keys, holds, queued, retry>>
  BY DEF Writes
<1>5. worker' = IF done THEN [worker EXCEPT ![w] = <<>>] ELSE worker
  BY DEF Writes
<1>6. Follows(db, db')
  <2> HIDE DEF answer
  <2>1. Follows(db, [d EXCEPT !.hung[d.refs[First(answer)]] = @ \cup hangs])
    BY <1>1, <1>2, <1>3, WritesFollow DEF answer
  <2> HIDE DEF d
  <2> QED
    BY <1>4, <2>1
<1>7. Asked'
  BY <1>1, <1>4, <1>5 DEF Asked, Answered
<1> QED
  BY <1>4, <1>6, <1>7, OutsideStep

LEMMA RetryWriteStep == ASSUME LInv, RetryWrite PROVE LInv'
<1>1. Asked /\ Sound(db)
  BY DEF LInv
<1>2. retry[1] \in Ids /\ retry[2] \in Natives /\ UNCHANGED <<keys, holds, queued, worker, job>> /\ retry' = <<>>
  BY <1>1 DEF RetryWrite, Asked
<1>3. Follows(db, db')
  <2>1. CASE retry[1] \in RowsOf(db)
    <3> DEFINE S == {retry[2]}
    <3>1. S \in SUBSET Natives /\ \A m, n \in S : ServerOf[m] = ServerOf[n] => m = n
      BY <1>2
    <3>2. db' = PutRefs(db, retry[1], S)
      BY <2>1 DEF RetryWrite
    <3> HIDE DEF S
    <3> QED
      BY <1>1, <2>1, <3>1, <3>2, PutRefsIs
  <2>2. CASE retry[1] \notin RowsOf(db)
    BY <1>1, <2>2 DEF RetryWrite, Follows, Undisturbed
  <2> QED
    BY <2>1, <2>2
<1>4. Asked'
  BY <1>1, <1>2 DEF Asked, Answered
<1> QED
  BY <1>2, <1>3, <1>4, OutsideStep

LEMMA DeclareStep == ASSUME LInv, NEW i \in Ids, Declare(i) PROVE LInv'
<1>1. Asked /\ Sound(db) /\ db \in Table
  BY DEF LInv, Sound
<1> DEFINE h == [db.hung EXCEPT ![i] = @ \cup {"reread"}]
<1>2. db' = [db EXCEPT !.hung = h] /\ UNCHANGED <<keys, holds, queued, worker, retry, job>>
  BY DEF Declare
<1>3. h \in [Ids -> SUBSET Hangs] /\ \A x \in Ids : "planned" \in h[x] <=> "planned" \in db.hung[x]
  BY <1>1, TableIs DEF Hangs
<1> HIDE DEF h
<1>4. Follows(db, db')
  BY <1>1, <1>2, <1>3, HangingFollows
<1>5. Asked'
  BY <1>1, <1>2 DEF Asked, Answered
<1> QED
  BY <1>2, <1>4, <1>5, OutsideStep

\* A heavy job starts and ends with no stamp noted.
LEMMA Forgets ==
  ASSUME NEW d, Sound(d)
  PROVE  /\ Sound([d EXCEPT !.moved = {}]) /\ Sound([d EXCEPT !.movedRefs = {}]) /\ Sound(Quiet(d))
         /\ LET e == [d EXCEPT !.moved = {}] IN e.items = d.items /\ e.refs = d.refs /\ e.hung = d.hung
         /\ RowsOf([d EXCEPT !.moved = {}]) = RowsOf(d) /\ RowsOf(Quiet(d)) = RowsOf(d)
         /\ Quiet(d).items = d.items /\ Quiet(d).refs = d.refs /\ Quiet(d).hung = d.hung /\ Quiet(d).audit = d.audit
<1>1. d \in Table
  BY DEF Sound
<1>2. PICK i, r, h, l, n, v, w, a : d = [items |-> i, refs |-> r, hung |-> h, later |-> l, next |-> n,
                                         moved |-> v, movedRefs |-> w, audit |-> a]
  BY <1>1, TableIs
<1>3. /\ [d EXCEPT !.moved = {}] = [items |-> i, refs |-> r, hung |-> h, later |-> l, next |-> n,
                                    moved |-> {}, movedRefs |-> w, audit |-> a]
      /\ [d EXCEPT !.movedRefs = {}] = [items |-> i, refs |-> r, hung |-> h, later |-> l, next |-> n,
                                        moved |-> v, movedRefs |-> {}, audit |-> a]
      /\ Quiet(d) = [items |-> i, refs |-> r, hung |-> h, later |-> l, next |-> n,
                     moved |-> {}, movedRefs |-> {}, audit |-> a]
  <2>1. [d EXCEPT !.moved = {}] = [items |-> i, refs |-> r, hung |-> h, later |-> l, next |-> n,
                                   moved |-> {}, movedRefs |-> w, audit |-> a]
    BY <1>2
  <2>2. [d EXCEPT !.movedRefs = {}] = [items |-> i, refs |-> r, hung |-> h, later |-> l, next |-> n,
                                       moved |-> v, movedRefs |-> {}, audit |-> a]
    BY <1>2
  <2>3. Quiet(d) = [items |-> i, refs |-> r, hung |-> h, later |-> l, next |-> n,
                    moved |-> {}, movedRefs |-> {}, audit |-> a]
    <3>1. Quiet(d) = [d EXCEPT !.moved = {}, !.movedRefs = {}]
      BY DEF Quiet
    <3> DEFINE none == {}
    <3> HIDE DEF none
    <3>2. Quiet(d) = [d EXCEPT !.moved = none, !.movedRefs = none]
      BY <3>1 DEF none
    <3>3. Quiet(d) = [items |-> i, refs |-> r, hung |-> h, later |-> l, next |-> n,
                      moved |-> none, movedRefs |-> none, audit |-> a]
      BY <1>2, <3>2
    <3> QED
      BY <3>3 DEF none
  <2> QED
    BY <2>1, <2>2, <2>3
<1> DEFINE e == [d EXCEPT !.moved = {}]
           f == [d EXCEPT !.movedRefs = {}]
           q == Quiet(d)
<1> HIDE DEF e, f, q
<1>4. e \in Table /\ f \in Table /\ q \in Table
  BY <1>1, <1>2, <1>3 DEF Table, e, f, q
<1>5. /\ e.items = d.items /\ e.refs = d.refs /\ e.hung = d.hung /\ e.next = d.next
      /\ f.items = d.items /\ f.refs = d.refs /\ f.next = d.next
      /\ q.items = d.items /\ q.refs = d.refs /\ q.hung = d.hung /\ q.next = d.next /\ q.audit = d.audit
  BY <1>2, <1>3 DEF e, f, q
<1>6. /\ Sound(e) /\ RowsOf(e) = RowsOf(d) /\ Sound(f) /\ Sound(q) /\ RowsOf(q) = RowsOf(d)
  BY <1>4, <1>5, SoundAlike
<1> QED
  BY <1>5, <1>6 DEF e, f, q

\* An idle lane has read nothing that must still stand.
LEMMA IdleLaneStep ==
  ASSUME LInv, Sound(db'), job' = NoJob, queued' \subseteq queued, UNCHANGED <<keys, holds, worker, retry>>
  PROVE  LInv'
<1>1. JobTyped'
  BY IdsAre DEF JobTyped, NoJob, Lane
<1>2. Scanned' /\ Sorted' /\ Planned'
  BY DEF Scanned, Sorted, Planned, NoJob, Lane
<1>3. Asked'
  BY DEF LInv, Asked, Answered
<1> QED
  BY <1>1, <1>2, <1>3 DEF LInv

LEMMA StopStep == ASSUME LInv, JobStops \/ MergeEnds PROVE LInv'
<1>1. Sound(db') /\ job' = NoJob
  BY Forgets DEF LInv, JobStops, MergeEnds, Stop
<1>2. queued' \subseteq queued /\ UNCHANGED <<keys, holds, worker, retry>>
  BY DEF JobStops, MergeEnds
<1> QED
  BY <1>1, <1>2, IdleLaneStep

\* The scan of a prune finds the rows above one another as the table has them.
LEMMA JobIs ==
  ASSUME JobTyped
  PROVE  \E at, cand, parents, seen, asked, stale, list, excl, pairs, dead, hung :
            job = [at |-> at, cand |-> cand, parents |-> parents, seen |-> seen, asked |-> asked, stale |-> stale,
                   list |-> list, excl |-> excl, pairs |-> pairs, dead |-> dead, hung |-> hung]
BY DEF JobTyped

LEMMA PruneReadStep == ASSUME LInv, PruneRead PROVE LInv'
<1>1. Sound(db) /\ Asked /\ Lane("idle")
  BY DEF LInv, PruneRead
<1>2. PICK excl : job' = [NoJob EXCEPT !.at = "p_read", !.cand = RowsOf(db), !.excl = excl,
                                       !.parents = [i \in Ids |-> db.items[i].parent]]
  BY DEF PruneRead
<1>3. db' = [db EXCEPT !.moved = {}] /\ UNCHANGED <<keys, holds, queued, worker, retry>>
  BY DEF PruneRead
<1>4. Sound(db')
  BY <1>1, <1>3, Forgets
<1>5. /\ job'.at = "p_read" /\ job'.cand = RowsOf(db) /\ job'.parents = [i \in Ids |-> db.items[i].parent]
      /\ job'.hung = [i \in Ids |-> {}] /\ job'.stale = {} /\ job'.pairs = {} /\ job'.seen = {}
  BY <1>2 DEF NoJob
<1>6. \A i \in Ids : db.items[i].parent \in 0 .. MaxRows
  BY <1>1, TableIs DEF Sound
<1>7. JobTyped'
  <2>1. job' = [at |-> job'.at, cand |-> job'.cand, parents |-> job'.parents, seen |-> job'.seen,
                asked |-> job'.asked, stale |-> job'.stale, list |-> job'.list, excl |-> job'.excl,
                pairs |-> job'.pairs, dead |-> job'.dead, hung |-> job'.hung]
    BY <1>2 DEF NoJob
  <2>2. job'.parents \in [Ids -> 0 .. MaxRows] /\ job'.hung \in [Ids -> SUBSET Hangs] /\ job'.cand \subseteq Ids
    BY <1>5, <1>6 DEF RowsOf
  <2> QED
    BY <1>5, <2>1, <2>2 DEF JobTyped, Lane, Ids
<1>8. Scanned'
  <2> SUFFICES ASSUME NEW i \in RowsOf(db), NEW p, p = db.items[i].parent, p /= 0
               PROVE  /\ p \in RowsOf(db) /\ p /= i
                      /\ LET g == db.items[p].parent
                         IN g /= 0 => g \in RowsOf(db) /\ g \notin {i, p} /\ db.items[g].parent = 0
    <3>1. \A i \in RowsOf(db) : i \in Ids
      BY DEF RowsOf
    <3>2. \A i \in Ids : job'.parents[i] = db.items[i].parent
      BY <1>5
    <3> QED
      BY <1>5, <3>1, <3>2 DEF Scanned
  <2> QED
    BY <1>1, Height DEF RowsOf
<1>9. Sorted' /\ Planned'
  BY <1>5 DEF Sorted, Planned, Lane
<1>10. Asked'
  BY <1>1, <1>3 DEF Asked, Answered
<1> QED
  BY <1>4, <1>7, <1>8, <1>9, <1>10 DEF LInv

LEMMA PruneReadRefsStep == ASSUME LInv, PruneReadRefs PROVE LInv'
<1>1. Sound(db) /\ Asked /\ JobTyped /\ Lane("p_read")
  BY DEF LInv, PruneReadRefs
<1>2. PICK at, cand, parents, seen, asked, stale, list, excl, pairs, dead, hung :
         job = [at |-> at, cand |-> cand, parents |-> parents, seen |-> seen, asked |-> asked, stale |-> stale,
                list |-> list, excl |-> excl, pairs |-> pairs, dead |-> dead, hung |-> hung]
  BY <1>1, JobIs
<1> DEFINE read == {<<n, Title[db.items[db.refs[n]].key]>> : n \in {m \in Natives : db.refs[m] /= 0}}
<1>3. /\ job' = [job EXCEPT !.at = "p_ask", !.seen = read] /\ db' = [db EXCEPT !.movedRefs = {}]
      /\ UNCHANGED <<keys, holds, queued, worker, retry>>
  BY DEF PruneReadRefs
<1>4. \A x \in read : x[1] \in Natives
  OBVIOUS
<1> HIDE DEF read
<1>5. job' = [at |-> "p_ask", cand |-> cand, parents |-> parents, seen |-> read, asked |-> asked, stale |-> stale,
              list |-> list, excl |-> excl, pairs |-> pairs, dead |-> dead, hung |-> hung]
  BY <1>2, <1>3
<1>6. JobTyped'
  BY <1>1, <1>2, <1>4, <1>5 DEF JobTyped, Lane, Ids
<1>7. Sound(db') /\ db'.items = db.items /\ db'.moved = db.moved
  <2>1. db \in Table
    BY <1>1 DEF Sound
  <2>2. PICK i, r, h, l, n, v, w, a : db = [items |-> i, refs |-> r, hung |-> h, later |-> l, next |-> n,
                                            moved |-> v, movedRefs |-> w, audit |-> a]
    BY <2>1, TableIs
  <2> QED
    BY <1>1, <1>3, <2>2, Forgets
<1>8. Scanned' /\ Sorted'
  BY <1>2, <1>5 DEF LInv, Scanned, Sorted, Lane
<1>9. Planned'
  <2>1. RowsOf(db') = RowsOf(db)
    BY <1>7 DEF RowsOf
  <2>2. \A p \in pairs : /\ p.stale \in Ids /\ p.survivor \in Ids /\ p.stale /= p.survivor
                         /\ Unmoved(p)' => Title[db.items[p.stale].key] = Title[db.items[p.survivor].key]
    BY <1>2, <1>7, <2>1 DEF LInv, Planned, Unmoved
  <2> QED
    BY <1>5, <1>7, <2>2 DEF Planned
<1>10. Asked'
  BY <1>1, <1>3 DEF Asked, Answered
<1> QED
  BY <1>6, <1>7, <1>8, <1>9, <1>10 DEF LInv

LEMMA PruneAskStep == ASSUME LInv, NEW s \in Servers, PruneAsk(s) PROVE LInv'
<1>1. Sound(db) /\ Asked /\ JobTyped /\ Lane("p_ask")
  BY DEF LInv, PruneAsk
<1>2. PICK at, cand, parents, seen, asked, stale, list, excl, pairs, dead, hung :
         job = [at |-> at, cand |-> cand, parents |-> parents, seen |-> seen, asked |-> asked, stale |-> stale,
                list |-> list, excl |-> excl, pairs |-> pairs, dead |-> dead, hung |-> hung]
  BY <1>1, JobIs
<1> DEFINE found == {x[1] : x \in {y \in job.seen :
                        /\ ServerOf[y[1]] = s
                        /\ \/ y[1] \in job.excl
                           \/ \A m \in Natives : ServerOf[m] = s /\ Held(m) => Title[holds[m].key] /= y[2]}}
<1>3. /\ job' = [job EXCEPT !.asked = @ \cup {s}, !.stale = @ \cup found]
      /\ UNCHANGED <<keys, holds, db, queued, worker, retry>>
  BY DEF PruneAsk
<1>4. found \subseteq Natives
  BY <1>1 DEF JobTyped
<1> HIDE DEF found
<1>5. job' = [at |-> at, cand |-> cand, parents |-> parents, seen |-> seen, asked |-> asked \cup {s},
              stale |-> stale \cup found,
              list |-> list, excl |-> excl, pairs |-> pairs, dead |-> dead, hung |-> hung]
  BY <1>2, <1>3
<1>6. JobTyped'
  BY <1>1, <1>2, <1>4, <1>5 DEF JobTyped, Lane, Ids
<1>7. Scanned' /\ Sorted'
  BY <1>1, <1>2, <1>5 DEF LInv, Scanned, Sorted, Lane
<1>8. Planned'
  BY <1>1, <1>2, <1>3, <1>5 DEF LInv, Planned, Unmoved, Lane, RowsOf
<1>9. Asked'
  BY <1>1, <1>3 DEF Asked, Answered
<1> QED
  BY <1>1, <1>3, <1>6, <1>7, <1>8, <1>9 DEF LInv

LEMMA PairIsFinite == ASSUME NEW p, NEW q PROVE IsFiniteSet({p, q})
<1>1. IsFiniteSet({p})
  BY FS_Singleton
<1>2. {p, q} = {p} \cup {q}
  OBVIOUS
<1> QED
  BY <1>1, <1>2, FS_AddElement

\* What the scan found above a row lies above it still further from the rows below.
LEMMA AncestorsNest ==
  ASSUME JobTyped, Scanned, NEW x \in job.cand, NEW j \in AncestorsOf(x)
  PROVE  /\ j \in job.cand /\ j /= 0
         /\ AncestorsOf(j) \subseteq AncestorsOf(x) \ {j}
         /\ Cardinality(AncestorsOf(j)) < Cardinality(AncestorsOf(x))
<1> DEFINE p == job.parents[x]
           g == job.parents[p]
<1>1. x \in Ids /\ 0 \notin Ids /\ p /= 0
  BY IdsAre DEF JobTyped, AncestorsOf
<1>2. p \in job.cand /\ (g /= 0 => g \in job.cand /\ g /= p /\ job.parents[g] = 0)
  BY <1>1 DEF Scanned
<1>3. AncestorsOf(x) = {p, g} \ {0}
  BY <1>1 DEF AncestorsOf
<1>4. j /= 0 /\ j \in job.cand /\ AncestorsOf(j) \subseteq AncestorsOf(x) \ {j}
  <2>1. CASE j = p
    <3>1. AncestorsOf(j) \subseteq {g} \ {0}
      BY <1>2, <2>1 DEF AncestorsOf
    <3> QED
      BY <1>1, <1>2, <1>3, <2>1, <3>1
  <2>2. CASE j /= p
    <3>1. j = g /\ AncestorsOf(j) = {}
      BY <1>2, <1>3, <2>2 DEF AncestorsOf
    <3> QED
      BY <1>2, <1>3, <2>2, <3>1
  <2> QED
    BY <2>1, <2>2
<1>5. IsFiniteSet(AncestorsOf(x))
  <2>1. IsFiniteSet({p, g})
    BY PairIsFinite
  <2> QED
    BY <1>3, <2>1, FS_Subset
<1>6. IsFiniteSet(AncestorsOf(x) \ {j}) /\ Cardinality(AncestorsOf(x) \ {j}) = Cardinality(AncestorsOf(x)) - 1
  BY <1>5, FS_RemoveElement
<1>7. Cardinality(AncestorsOf(j)) <= Cardinality(AncestorsOf(x) \ {j})
  BY <1>4, <1>6, FS_Subset
<1>8. Cardinality(AncestorsOf(j)) \in Nat /\ Cardinality(AncestorsOf(x)) \in Nat
  BY <1>4, <1>5, <1>6, FS_Subset, FS_CardinalityType
<1> QED
  BY <1>4, <1>6, <1>7, <1>8

LEMMA AncestorsCount ==
  ASSUME NEW x
  PROVE  Cardinality(AncestorsOf(x)) \in Nat
<1> DEFINE p == job.parents[x]
<1>1. IsFiniteSet({p, job.parents[p]}) /\ AncestorsOf(x) \subseteq {p, job.parents[p]}
  BY PairIsFinite DEF AncestorsOf
<1> QED
  BY <1>1, FS_Subset, FS_CardinalityType

\* The list of a prune deals with every row below one of its rows before it, and names
\* no row that holds a ref which may still resolve, nor a row above such a one.
LEMMA PruneDecideStep == ASSUME LInv, PruneDecide PROVE LInv'
<1>1. Sound(db) /\ Asked /\ JobTyped /\ Scanned /\ Lane("p_ask")
  BY DEF LInv, PruneDecide
<1>2. PICK list \in DeepestFirst(Prunable) : job' = [job EXCEPT !.at = "p_apply", !.list = list]
  BY DEF PruneDecide
<1>3. UNCHANGED <<keys, holds, db, queued, worker, retry>>
  BY DEF PruneDecide
<1>4. /\ job'.at = "p_apply" /\ job'.list = list /\ job'.cand = job.cand /\ job'.parents = job.parents
      /\ job'.hung = job.hung /\ job'.pairs = job.pairs /\ job'.stale = job.stale /\ job'.seen = job.seen
      /\ JobTyped'
  <2>1. PICK at, cand, parents, seen, asked, stale, old, excl, pairs, dead, hung :
           job = [at |-> at, cand |-> cand, parents |-> parents, seen |-> seen, asked |-> asked, stale |-> stale,
                  list |-> old, excl |-> excl, pairs |-> pairs, dead |-> dead, hung |-> hung]
    BY <1>1, JobIs
  <2>2. job' = [at |-> "p_apply", cand |-> cand, parents |-> parents, seen |-> seen, asked |-> asked, stale |-> stale,
                list |-> list, excl |-> excl, pairs |-> pairs, dead |-> dead, hung |-> hung]
    BY <1>2, <2>1
  <2>3. JobTyped'
    BY <1>1, <2>1, <2>2 DEF JobTyped, Lane, Ids
  <2> QED
    BY <2>1, <2>2, <2>3
<1> DEFINE n == Cardinality(Prunable)
<1>5. Prunable \subseteq job.cand /\ n \in Nat
  <2>1. Prunable \subseteq job.cand /\ Prunable \subseteq Ids
    BY <1>1 DEF Prunable, JobTyped
  <2>2. IsFiniteSet(Ids)
    BY IdsAre, FS_Interval
  <2> QED
    BY <2>1, <2>2, FS_Subset, FS_CardinalityType
<1>6. /\ list \in [1 .. n -> Prunable] /\ DOMAIN list = 1 .. n
      /\ \A i \in Prunable : \E k \in 1 .. n : list[k] = i
      /\ \A k, l \in 1 .. n : k < l =>
             Cardinality(AncestorsOf(list[k])) >= Cardinality(AncestorsOf(list[l]))
  BY <1>2 DEF DeepestFirst
<1> HIDE DEF n
<1>7. list \in Seq(job.cand)
  BY <1>5, <1>6
<1>8. ASSUME NEW k \in 1 .. n, NEW x \in job.cand, list[k] \in AncestorsOf(x)
      PROVE  \E l \in 1 .. k - 1 : list[l] = x
  <2>1. list[k] \in Prunable
    BY <1>6
  <2>2. x \in Prunable
    <3>1. x \notin Remaining
      BY <1>8, <2>1 DEF Prunable
    <3>2. ASSUME NEW i \in job.cand \cap Remaining, x \in AncestorsOf(i) PROVE FALSE
      <4>1. list[k] \in AncestorsOf(i)
        BY <1>1, <1>8, <3>2, AncestorsNest
      <4> QED
        BY <2>1, <4>1 DEF Prunable
    <3> QED
      BY <3>1, <3>2 DEF Prunable
  <2>3. PICK l \in 1 .. n : list[l] = x
    BY <1>6, <2>2
  <2>4. /\ Cardinality(AncestorsOf(list[k])) < Cardinality(AncestorsOf(x))
        /\ list[k] /= x
    BY <1>1, <1>8, AncestorsNest
  <2>5. ~(k < l) /\ k /= l
    <3>1. Cardinality(AncestorsOf(list[k])) \in Nat /\ Cardinality(AncestorsOf(x)) \in Nat
      BY AncestorsCount
    <3> QED
      BY <1>6, <2>3, <2>4, <3>1
  <2> QED
    BY <1>5, <2>3, <2>5
<1>9. ASSUME NEW m \in Natives \ (job.stale \cup db.movedRefs), db.refs[m] \in job.cand, NEW k \in 1 .. n
      PROVE  list[k] \notin {db.refs[m]} \cup AncestorsOf(db.refs[m])
  <2>1. db.refs[m] \in Remaining
    BY <1>1, <1>9, IdsAre DEF Remaining, JobTyped
  <2>2. list[k] \in Prunable
    BY <1>6
  <2> QED
    BY <1>9, <2>1, <2>2 DEF Prunable
<1>10. Sorted'
  <2>1. \A x : AncestorsOf(x)' = AncestorsOf(x)
    BY <1>4 DEF AncestorsOf
  <2>2. db' = db
    BY <1>3
  <2> QED
    BY <1>4, <1>6, <1>7, <1>8, <1>9, <2>1, <2>2 DEF Sorted
<1>11. Scanned' /\ Planned'
  BY <1>1, <1>3, <1>4 DEF LInv, Scanned, Planned, Unmoved, RowsOf
<1>12. Asked'
  BY <1>1, <1>3 DEF Asked, Answered
<1> QED
  BY <1>1, <1>3, <1>4, <1>10, <1>11, <1>12 DEF LInv

LEMMA PruneApplyStep == ASSUME LInv, PruneApply PROVE LInv'
<1>1. Sound(db) /\ Asked /\ JobTyped /\ Scanned /\ Sorted /\ Lane("p_apply")
  BY DEF LInv, PruneApply
<1> DEFINE out == Retired(job.list)
           doomed == job.stale \ db.movedRefs
           q == Quiet(out.d)
           refs == [n \in Natives |-> IF n \in doomed THEN 0 ELSE out.d.refs[n]]
<1>2. /\ Sound(out.d) /\ out.pruned \subseteq Ids
  BY <1>1, RetiringAll DEF Retiring
<1>3. db' = [q EXCEPT !.audit = @ \cup out.pruned, !.refs = refs]
  BY DEF PruneApply
<1>4. job' = NoJob /\ queued' \subseteq queued /\ UNCHANGED <<keys, holds, worker, retry>>
  BY DEF PruneApply
<1> HIDE DEF out, doomed
<1>5. Sound(q) /\ q.refs = out.d.refs
  BY <1>2, Forgets
<1>6. \A n \in Natives : refs[n] \in {q.refs[n], 0}
  BY <1>5
<1> HIDE DEF q, refs
<1>7. q \in Table
  BY <1>5 DEF Sound
<1>8. PICK i, r, h, l, n, v, w, a : q = [items |-> i, refs |-> r, hung |-> h, later |-> l, next |-> n,
                                         moved |-> v, movedRefs |-> w, audit |-> a]
  BY <1>7, TableIs
<1>9. db' = [items |-> i, refs |-> refs, hung |-> h, later |-> l, next |-> n,
             moved |-> v, movedRefs |-> w, audit |-> a \cup out.pruned]
  BY <1>3, <1>8
<1>10. refs \in [Natives -> 0 .. MaxRows]
  <2>1. \A m \in Natives : q.refs[m] \in 0 .. MaxRows
    BY <1>7, TableIs
  <2> QED
    BY <1>6, <2>1, IdsAre DEF refs
<1>11. db' \in Table
  <2>1. /\ i \in [Ids -> [key : Keys \cup {None}, parent : 0 .. MaxRows]]
        /\ h \in [Ids -> SUBSET Hangs] /\ l \in SUBSET (Ids \X Ids) /\ n \in 1 .. MaxRows + 1
        /\ v \in SUBSET Ids /\ w \in SUBSET Natives /\ a \in SUBSET Ids
    BY <1>7, <1>8 DEF Table
  <2> QED
    BY <1>2, <1>9, <1>10, <2>1 DEF Table
<1>12. Sound(db')
  <2>1. db'.items = q.items /\ db'.next = q.next /\ db'.refs = refs
    BY <1>8, <1>9
  <2>2. RowsOf(db') = RowsOf(q)
    BY <2>1 DEF RowsOf
  <2>3. \A m, o \in Natives : m /= o /\ refs[m] = refs[o] /\ refs[m] /= 0 => ServerOf[m] /= ServerOf[o]
    BY <1>5, <1>6 DEF Sound
  <2>4. \A m \in Natives : refs[m] \in RowsOf(q) \cup {0}
    BY <1>5, <1>6, SoundIs
  <2>5. \A x \in RowsOf(q) : Kin(db', x)
    BY <1>5, <2>1, SoundIs DEF Kin
  <2>6. /\ \A x \in Ids : q.items[x].parent \in RowsOf(q) \cup {0}
        /\ \A x \in RowsOf(q) : x < q.next /\ q.items[x].key \in Keys
    BY <1>5, SoundIs
  <2> QED
    BY <1>11, <2>1, <2>2, <2>3, <2>4, <2>5, <2>6 DEF Sound, Linked
<1> QED
  BY <1>4, <1>12, IdleLaneStep

LEMMA MergeReadStep == ASSUME LInv, MergeRead PROVE LInv'
<1>1. Sound(db) /\ Asked
  BY DEF LInv
<1>2. job' = [NoJob EXCEPT !.at = "m_read", !.pairs = TwinPairs] /\ db' = [db EXCEPT !.moved = {}]
  BY DEF MergeRead
<1>3. UNCHANGED <<keys, holds, queued, worker, retry>>
  BY DEF MergeRead
<1>4. Sound(db') /\ db'.items = db.items
  BY <1>1, <1>2, Forgets
<1>5. job' = [at |-> "m_read", cand |-> {}, parents |-> [i \in Ids |-> 0], seen |-> {},
              asked |-> {}, stale |-> {}, list |-> <<>>, excl |-> {}, pairs |-> TwinPairs, dead |-> {},
              hung |-> [i \in Ids |-> {}]]
  BY <1>2 DEF NoJob
<1> DEFINE pairs == TwinPairs
<1>6. \A p \in pairs : /\ p.stale \in Ids /\ p.survivor \in Ids /\ p.stale /= p.survivor
                       /\ Title[db.items[p.stale].key] = Title[db.items[p.survivor].key]
  <2> SUFFICES ASSUME NEW x \in RowsOf(db) \X RowsOf(db), x[1] /= x[2],
                      {i \in RowsOf(db) : Title[db.items[i].key] = Title[db.items[x[1]].key]} = {x[1], x[2]}
               PROVE  x[1] \in Ids /\ x[2] \in Ids /\ Title[db.items[x[1]].key] = Title[db.items[x[2]].key]
    BY DEF TwinPairs
  <2> QED
    BY DEF RowsOf
<1> HIDE DEF pairs
<1>7. JobTyped'
  BY <1>5, IdsAre DEF JobTyped, Lane, Ids
<1>8. Scanned' /\ Sorted'
  BY <1>5 DEF Scanned, Sorted, Lane
<1>9. Planned'
  BY <1>4, <1>5, <1>6 DEF Planned, pairs
<1>10. Asked'
  BY <1>1, <1>3 DEF Asked, Answered
<1> QED
  BY <1>4, <1>7, <1>8, <1>9, <1>10 DEF LInv

LEMMA MergeScanStep == ASSUME LInv, MergePlan \/ MergeAsk PROVE LInv'
<1>1. Sound(db) /\ Asked /\ JobTyped /\ Scanned /\ Planned /\ db \in Table
  BY DEF LInv, Sound
<1>2. PICK at, cand, parents, seen, asked, stale, list, excl, pairs, dead, hung :
         job = [at |-> at, cand |-> cand, parents |-> parents, seen |-> seen, asked |-> asked, stale |-> stale,
                list |-> list, excl |-> excl, pairs |-> pairs, dead |-> dead, hung |-> hung]
  BY <1>1, JobIs
<1>3. UNCHANGED <<keys, holds, db, queued, worker, retry>>
  BY DEF MergePlan, MergeAsk
<1>4. Asked'
  BY <1>1, <1>3 DEF Asked, Answered
<1>5. CASE MergePlan
  <2>1. job' = [at |-> "m_ask", cand |-> cand, parents |-> parents, seen |-> seen, asked |-> asked, stale |-> stale,
                list |-> list, excl |-> excl, pairs |-> pairs, dead |-> dead, hung |-> db.hung]
    BY <1>2, <1>5 DEF MergePlan
  <2>2. db.hung \in [Ids -> SUBSET Hangs]
    BY <1>1, TableIs
  <2>3. JobTyped'
    BY <1>1, <1>2, <2>1, <2>2 DEF JobTyped, Lane, Ids
  <2>4. Scanned' /\ Sorted'
    BY <1>1, <1>2, <2>1 DEF Scanned, Sorted, Lane
  <2>5. Planned'
    BY <1>1, <1>2, <1>3, <2>1 DEF Planned, Unmoved, RowsOf
  <2> QED
    BY <1>1, <1>3, <1>4, <2>3, <2>4, <2>5 DEF LInv
<1>6. CASE MergeAsk
  <2> DEFINE kept == {p \in pairs : Accepts(p.vid, p.survivor) /\ ~Accepts(p.sid, p.stale)}
  <2>1. job' = [at |-> "m_apply", cand |-> cand, parents |-> parents, seen |-> seen, asked |-> asked, stale |-> stale,
                list |-> list, excl |-> excl, pairs |-> kept, dead |-> dead, hung |-> hung]
    BY <1>2, <1>6 DEF MergeAsk
  <2>2. kept \subseteq pairs
    OBVIOUS
  <2>3. Lane("m_ask") /\ at = "m_ask"
    BY <1>2, <1>6 DEF MergeAsk, Lane
  <2> HIDE DEF kept
  <2>4. JobTyped'
    BY <1>1, <1>2, <2>1 DEF JobTyped, Lane, Ids
  <2>5. Scanned' /\ Sorted'
    BY <1>1, <1>2, <2>1 DEF Scanned, Sorted, Lane
  <2>6. Planned'
    BY <1>1, <1>2, <1>3, <2>1, <2>2, <2>3 DEF Planned, Unmoved, RowsOf
  <2> QED
    BY <1>1, <1>3, <1>4, <2>4, <2>5, <2>6 DEF LInv
<1> QED
  BY <1>5, <1>6

\* Adding to the audit changes nothing a reader of the tables would see.
LEMMA AuditIs ==
  ASSUME NEW d, Sound(d), NEW S \in SUBSET Ids
  PROVE  LET e == [d EXCEPT !.audit = @ \cup S]
         IN /\ Follows(d, e) /\ RowsOf(e) = RowsOf(d) /\ e.items = d.items /\ e.hung = d.hung
<1> DEFINE e == [d EXCEPT !.audit = @ \cup S]
<1>1. d \in Table
  BY DEF Sound
<1>2. PICK i, r, h, l, n, v, w, a : d = [items |-> i, refs |-> r, hung |-> h, later |-> l, next |-> n,
                                         moved |-> v, movedRefs |-> w, audit |-> a]
  BY <1>1, TableIs
<1>3. e = [items |-> i, refs |-> r, hung |-> h, later |-> l, next |-> n,
           moved |-> v, movedRefs |-> w, audit |-> a \cup S]
  BY <1>2
<1> HIDE DEF e
<1>4. e \in Table
  BY <1>1, <1>2, <1>3 DEF Table
<1>5. /\ e.items = d.items /\ e.refs = d.refs /\ e.hung = d.hung /\ e.next = d.next
      /\ e.moved = d.moved /\ e.movedRefs = d.movedRefs
  BY <1>2, <1>3
<1>6. Sound(e) /\ RowsOf(e) = RowsOf(d)
  BY <1>4, <1>5, SoundAlike
<1>7. Undisturbed(d, e)
  BY <1>5, <1>6 DEF Undisturbed
<1> QED
  BY <1>5, <1>6, <1>7 DEF e, Follows

LEMMA MergePairIs ==
  ASSUME LInv, NEW p \in job.pairs, MergePair(p), Unmoved(p)
  PROVE  /\ Follows(db, db') /\ RowsOf(db') = RowsOf(db) \ {p.stale}
         /\ db'.hung[p.survivor] = db.hung[p.stale] \cup db.hung[p.survivor]
         /\ Children(db, {p.stale}) \subseteq Children(db', {p.survivor})
<1>1. Sound(db) /\ Planned /\ JobTyped /\ Lane("m_apply")
  BY DEF LInv, MergePair
<1> DEFINE e == MergedInto(p)
           f == [e EXCEPT !.audit = @ \cup {p.stale}]
<1>2. db' = f
  BY DEF MergePair, MergedInto
<1>3. /\ Follows(db, e) /\ RowsOf(e) = RowsOf(db) \ {p.stale}
      /\ e.hung[p.survivor] = db.hung[p.stale] \cup db.hung[p.survivor]
      /\ Children(db, {p.stale}) \subseteq Children(e, {p.survivor})
  BY <1>1, MergedFollows
<1>4. Sound(e) /\ {p.stale} \in SUBSET Ids
  BY <1>1, <1>3 DEF Follows, Planned
<1> HIDE DEF e
<1>5. Follows(e, f) /\ RowsOf(f) = RowsOf(e) /\ f.items = e.items /\ f.hung = e.hung
  BY <1>4, AuditIs
<1> HIDE DEF f
<1>6. Follows(db, f)
  BY <1>3, <1>5, FollowsIsTransitive
<1>7. Children(f, {p.survivor}) = Children(e, {p.survivor})
  BY <1>5 DEF Children
<1> QED
  BY <1>2, <1>3, <1>5, <1>6, <1>7

LEMMA MergePairStep == ASSUME LInv, NEW p \in job.pairs, MergePair(p) PROVE LInv'
<1>1. Sound(db) /\ Asked /\ JobTyped
  BY DEF LInv
<1>2. PICK at, cand, parents, seen, asked, stale, list, excl, pairs, dead, hung :
         job = [at |-> at, cand |-> cand, parents |-> parents, seen |-> seen, asked |-> asked, stale |-> stale,
                list |-> list, excl |-> excl, pairs |-> pairs, dead |-> dead, hung |-> hung]
  BY <1>1, JobIs
<1>3. PICK new : job' = [at |-> at, cand |-> cand, parents |-> parents, seen |-> seen, asked |-> asked, stale |-> stale,
                         list |-> list, excl |-> excl, pairs |-> pairs \ {p}, dead |-> new, hung |-> hung]
  <2>1. CASE Unmoved(p)
    BY <1>2, <2>1 DEF MergePair
  <2>2. CASE ~Unmoved(p)
    <3>1. job' = [job EXCEPT !.pairs = @ \ {p}]
      BY <2>2 DEF MergePair
    <3> QED
      BY <1>2, <3>1
  <2> QED
    BY <2>1, <2>2
<1>4. Follows(db, db')
  <2>1. CASE Unmoved(p)
    BY <2>1, MergePairIs
  <2>2. CASE ~Unmoved(p)
    BY <1>1, <2>2 DEF MergePair, Follows, Undisturbed
  <2> QED
    BY <2>1, <2>2
<1>5. Asked'
  <2>1. UNCHANGED <<keys, holds, queued, worker, retry>>
    BY DEF MergePair
  <2> QED
    BY <1>1, <2>1 DEF Asked, Answered
<1>6. JobTyped'
  <2>1. at /= "idle"
    BY <1>2 DEF MergePair, Lane
  <2> QED
    BY <1>1, <1>2, <1>3, <2>1 DEF JobTyped, Lane, Ids
<1> QED
  BY <1>2, <1>3, <1>4, <1>5, <1>6, LaneStep

LEMMA LibraryStep == LInv /\ [LibraryNext]_libraryVars => LInv'
<1> SUFFICES ASSUME LInv, [LibraryNext]_libraryVars PROVE LInv'
  OBVIOUS
<1>1. CASE \E n \in Natives : Loses(n) \/ Enqueue(n) \/ Unresolved(n) \/ \E a \in Answers(n) : Gains(n, a)
  BY <1>1, OutsideStarts DEF Loses, Enqueue, Unresolved, Gains
<1>2. CASE \E w \in Workers : Resolve(w) \/ WriteIdentity(w) \/ WriteArtifact(w)
  <2>1. PICK w \in Workers : Resolve(w) \/ WriteIdentity(w) \/ WriteArtifact(w)
    BY <1>2
  <2>2. CASE Resolve(w)
    BY <2>2, OutsideStarts DEF Resolve, ResolvesTitle
  <2>3. CASE WriteIdentity(w) \/ WriteArtifact(w)
    BY <2>3, WritesStep DEF WriteIdentity, WriteArtifact, Hangs
  <2> QED
    BY <2>1, <2>2, <2>3
<1>3. CASE \E i \in Ids : Declare(i) \/ \E n \in Natives : RetryResolve(i, n)
  BY <1>3, OutsideStarts, DeclareStep DEF RetryResolve
<1>4. CASE RetryWrite
  BY <1>4, RetryWriteStep
<1>5. CASE PruneRead \/ PruneReadRefs \/ PruneDecide \/ PruneApply
  BY <1>5, PruneReadStep, PruneReadRefsStep, PruneDecideStep, PruneApplyStep
<1>6. CASE \E s \in Servers : PruneAsk(s)
  BY <1>6, PruneAskStep
<1>7. CASE MergeRead \/ MergePlan \/ MergeAsk \/ MergeEnds \/ JobStops
  BY <1>7, MergeReadStep, MergeScanStep, StopStep
<1>8. CASE \E p \in job.pairs : MergePair(p)
  BY <1>8, MergePairStep
<1>9. CASE UNCHANGED libraryVars
  BY <1>9, ServersStep DEF libraryVars, LInv, Asked, Answered
<1> QED
  BY <1>1, <1>2, <1>3, <1>4, <1>5, <1>6, <1>7, <1>8, <1>9 DEF LibraryNext

(***************************************************************************)
(* The theorems                                                            *)
(***************************************************************************)
\* No ref or link names a row that is gone, an item has one ref on a server whatever
\* upserts, retries, merges and prunes have done, and a merge's plan that passes the test
\* under the lock is current (render/pipeline.py, upsert_server_ref; scheduler/merge.py).
THEOREM LibraryIsSafe == LibrarySpec => []LibrarySafety
<1>1. LInv => LibrarySafety
  <2> SUFFICES ASSUME LInv PROVE LibrarySafety
    OBVIOUS
  <2>1. LibraryTypeOK /\ OneRefPerServer
    BY DEF LInv, Sound, Asked, LibraryTypeOK, OneRefPerServer
  <2>2. PlanIsCurrent
    BY DEF LInv, Planned, PlanIsCurrent, Unmoved, Lane
  <2> QED
    BY <2>1, <2>2 DEF LibrarySafety
<1> QED
  BY <1>1, LibraryStarts, LibraryStep, PTL DEF LibrarySpec

\* A merge removes the stale row alone and loses nothing that hung off either row
\* (scheduler/merge.py: every child and every hanging moves before the delete).
THEOREM MergesKeepAll == LibrarySpec => MergeKeepsAll
<1>1. ASSUME LInv, [LibraryNext]_libraryVars
      PROVE  [\A p \in job.pairs : MergePair(p) /\ RowsOf(db') /= RowsOf(db) =>
                 /\ RowsOf(db') = RowsOf(db) \ {p.stale}
                 /\ db'.hung[p.survivor] = db.hung[p.stale] \cup db.hung[p.survivor]
                 /\ Children(db, {p.stale}) \subseteq Children(db', {p.survivor})]_libraryVars
  <2> SUFFICES ASSUME NEW p \in job.pairs, MergePair(p), RowsOf(db') /= RowsOf(db)
               PROVE  /\ RowsOf(db') = RowsOf(db) \ {p.stale}
                      /\ db'.hung[p.survivor] = db.hung[p.stale] \cup db.hung[p.survivor]
                      /\ Children(db, {p.stale}) \subseteq Children(db', {p.survivor})
    OBVIOUS
  <2>1. Unmoved(p)
    <3> SUFFICES ASSUME ~Unmoved(p) PROVE FALSE
      OBVIOUS
    <3>1. db' = db
      BY DEF MergePair
    <3> QED
      BY <3>1
  <2> QED
    BY <1>1, <2>1, MergePairIs
<1> QED
  BY <1>1, LibraryStarts, LibraryStep, PTL DEF LibrarySpec, MergeKeepsAll

LEMMA ApplyEnds ==
  ASSUME LInv, [LibraryNext]_libraryVars, Lane("p_apply"), job'.at = "idle"
  PROVE  PruneApply \/ JobStops
<1>1. job' /= job /\ job.at = "p_apply"
  BY DEF Lane
<1> QED
  BY <1>1 DEF LibraryNext, libraryVars, Loses, Enqueue, Unresolved, Gains, Resolve, ResolvesTitle,
              WriteIdentity, WriteArtifact, Writes, Declare, RetryResolve, RetryWrite, PruneRead,
              PruneReadRefs, PruneDecide, PruneAsk, MergeRead, MergePlan, MergeAsk, MergeEnds, MergePair, Lane

\* What the end of a prune leaves: a row in its place is removed only as one of the list
\* whose stamp had not moved, and is audited.
LEMMA ApplyRemoves ==
  ASSUME LInv, [LibraryNext]_libraryVars, Lane("p_apply"), job'.at = "idle",
         NEW i \in Ids, InPlace(i), i \notin RowsOf(db')
  PROVE  /\ i \in db'.audit /\ i \notin db.moved
         /\ \E l \in DOMAIN job.list : job.list[l] = i
<1>1. Sound(db) /\ JobTyped /\ Scanned /\ Sorted
  BY DEF LInv
<1>2. CASE JobStops
  <2>1. RowsOf(db') = RowsOf(db)
    BY <1>1, <1>2, Forgets DEF JobStops, Stop
  <2> QED
    BY <2>1 DEF InPlace
<1>3. CASE PruneApply
  <2> DEFINE out == Retired(job.list)
             refs == [n \in Natives |-> IF n \in job.stale \ db.movedRefs THEN 0 ELSE out.d.refs[n]]
             q == Quiet(out.d)
  <2>1. Retiring(out, Len(job.list))
    BY <1>1, RetiringAll
  <2>2. db' = [q EXCEPT !.audit = @ \cup out.pruned, !.refs = refs]
    BY <1>3 DEF PruneApply
  <2> HIDE DEF out, refs
  <2>3. Sound(out.d)
    BY <2>1 DEF Retiring
  <2>4. Sound(q) /\ RowsOf(q) = RowsOf(out.d)
    BY <2>3, Forgets
  <2> HIDE DEF q
  <2>5. PICK x, r, h, l, n, v, w, a : q = [items |-> x, refs |-> r, hung |-> h, later |-> l, next |-> n,
                                           moved |-> v, movedRefs |-> w, audit |-> a]
    BY <2>4, TableIs DEF Sound
  <2>6. db' = [items |-> x, refs |-> refs, hung |-> h, later |-> l, next |-> n,
               moved |-> v, movedRefs |-> w, audit |-> a \cup out.pruned]
    BY <2>2, <2>5
  <2>7. RowsOf(db') = RowsOf(out.d) /\ out.pruned \subseteq db'.audit
    BY <2>4, <2>5, <2>6 DEF RowsOf
  <2>8. i \in out.pruned
    BY <2>1, <2>7 DEF Retiring
  <2>9. DOMAIN job.list = 1 .. Len(job.list)
    BY <1>1 DEF Sorted
  <2> QED
    BY <2>1, <2>7, <2>8, <2>9 DEF Retiring
<1> QED
  BY <1>2, <1>3, ApplyEnds

\* Every candidate in its place that a prune removes, by itself or by a cascade, has its
\* own audit row (scheduler/prune.py, retire: a skipped row shields its parent).
THEOREM RemovalsHaveAudits == LibrarySpec => RemovalsAreAudited
<1>1. ASSUME LInv, [LibraryNext]_libraryVars
      PROVE  [Lane("p_apply") /\ job'.at = "idle" =>
                 \A i \in Ids : InPlace(i) /\ i \notin RowsOf(db') => i \in db'.audit]_libraryVars
  BY <1>1, ApplyRemoves
<1> QED
  BY <1>1, LibraryStarts, LibraryStep, PTL DEF LibrarySpec, RemovalsAreAudited

\* A candidate in its place that a worker wrote since the scan outlives the prune
\* (scheduler/prune.py: the delete by (id, updated_at)).
THEOREM RewrittenRowsSurvive == LibrarySpec => RewrittenSurvive
<1>1. ASSUME LInv, [LibraryNext]_libraryVars
      PROVE  [Lane("p_apply") /\ job'.at = "idle" =>
                 \A i \in db.moved : InPlace(i) => i \in RowsOf(db')]_libraryVars
  <2>1. db.moved \subseteq Ids
    BY <1>1, TableIs DEF LInv, Sound
  <2> QED
    BY <1>1, <2>1, ApplyRemoves
<1> QED
  BY <1>1, LibraryStarts, LibraryStep, PTL DEF LibrarySpec, RewrittenSurvive

\* What stands where the scan found it stands under rows that do, too.
LEMMA PlacesNest ==
  ASSUME LInv, NEW i \in Ids, InPlace(i), NEW a \in AncestorsOf(i)
  PROVE  a \in Ids /\ InPlace(a)
<1> DEFINE p == db.items[i].parent
           g == db.items[p].parent
<1>1. Sound(db) /\ JobTyped /\ Scanned
  BY DEF LInv
<1>2. /\ p /= 0 /\ p = job.parents[i] /\ g = job.parents[p] /\ a \in {p, g} \ {0} /\ i \in job.cand
  BY DEF InPlace, AncestorsOf
<1>3. p \in RowsOf(db) /\ p \in job.cand /\ p \in Ids
  BY <1>1, <1>2, Height DEF Scanned, RowsOf
<1>4. g /= 0 => /\ g \in RowsOf(db) /\ g \in job.cand /\ g \in Ids
                /\ db.items[g].parent = 0 /\ job.parents[g] = 0
  BY <1>1, <1>2, Height DEF Scanned, RowsOf
<1>5. CASE a = p
  BY <1>2, <1>3, <1>4, <1>5 DEF InPlace
<1>6. CASE a = g
  BY <1>2, <1>4, <1>6 DEF InPlace
<1> QED
  BY <1>2, <1>5, <1>6

\* A row in its place that holds a ref which the scan did not find gone, or that was
\* written again before the decision, outlives the prune with all above it
\* (scheduler/prune.py, find_prunable: the ancestors of what remains are not prunable).
THEOREM ResolvedRowsSurvive == LibrarySpec => ResolvedSurvive
<1>1. ASSUME LInv, [LibraryNext]_libraryVars
      PROVE  [Lane("p_apply") /\ job'.at = "idle" =>
                 \A n \in Natives : /\ n \in {x[1] : x \in job.seen} \ job.stale
                                    /\ n \notin db.movedRefs /\ db.refs[n] /= 0
                                    /\ InPlace(db.refs[n])
                                    => {db.refs[n]} \cup AncestorsOf(db.refs[n]) \subseteq RowsOf(db')]_libraryVars
  <2> SUFFICES ASSUME Lane("p_apply"), job'.at = "idle",
                      NEW n \in Natives, n \notin job.stale, n \notin db.movedRefs, db.refs[n] /= 0,
                      InPlace(db.refs[n]), NEW a \in {db.refs[n]} \cup AncestorsOf(db.refs[n])
               PROVE  a \in RowsOf(db')
    OBVIOUS
  <2>1. db.refs[n] \in Ids /\ db.refs[n] \in job.cand
    BY DEF InPlace, RowsOf
  <2>2. a \in Ids /\ InPlace(a)
    BY <1>1, <2>1, PlacesNest
  <2>3. \A l \in DOMAIN job.list : job.list[l] /= a
    BY <1>1, <2>1 DEF LInv, Sorted
  <2> QED
    BY <1>1, <2>2, <2>3, ApplyRemoves
<1> QED
  BY <1>1, LibraryStarts, LibraryStep, PTL DEF LibrarySpec, ResolvedSurvive

\* What merges and prunes keep, together: the step properties of the library's run.
THEOREM LibraryStepsHold == LibrarySpec => LibrarySteps
BY MergesKeepAll, ResolvedRowsSurvive, RewrittenRowsSurvive, RemovalsHaveAudits DEF LibrarySteps
====
