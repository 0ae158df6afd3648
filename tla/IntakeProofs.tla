---------------------------- MODULE IntakeProofs -----------------------------
(***************************************************************************)
(* Proofs about what comes in and what is said of it.                      *)
(*                                                                         *)
(* Discovery, for every server, library order, batch size and number of    *)
(* events: a stored identity answers for one item and one item for it,     *)
(* because a row is found by its film and file before any other is made or *)
(* moved, and because the id that takes a row is taken off every other.    *)
(* What the safety net remembers of a listing only ever names items, so    *)
(* what it queues is a hint or none.                                       *)
(*                                                                         *)
(* ArrSync, for every listing: a title is judged once, because a pass takes *)
(* it off its own list when it counts it, and a title leaves the gaps only *)
(* when its server registers it.                                           *)
(*                                                                         *)
(* Notify, for every number of runs, retries and fields: a send's sleep    *)
(* grows by at most the worst wait each time its attempt does, what a send *)
(* says of a run is on the row before the send exists, and the marker of   *)
(* omitted fields has its place kept in an embed's budget.                 *)
(***************************************************************************)
EXTENDS Discovery, ArrSync, Notify, FiniteSetTheorems, SequenceTheorems, NaturalsInduction, WellFoundedInduction, TLAPS

(***************************************************************************)
(* Discovery                                                               *)
(***************************************************************************)
\* A library's items come in the order of their ids: a listing that is not
\* empty has a first one (enqueue_unknown_items walks it from there).
LEMMA OldestIsListed ==
  ASSUME NEW S, S # {}, S \subseteq Keys
  PROVE  Oldest(S) \in S
<1>1. S \subseteq Nat
  BY KeysAssumption
<1>2. PICK k \in S : \A m \in S : <<m, k>> \notin OpToRel(<, Nat)
  BY <1>1, NatLessThanWellFounded, WFMin
<1>3. \A m \in S : ~(m < k)
  BY <1>1, <1>2 DEF OpToRel
<1>4. \A m \in S : k <= m
  BY <1>1, <1>3
<1> QED
  BY <1>4 DEF Oldest

(***************************************************************************)
(* The inductive invariant                                                 *)
(***************************************************************************)
RowType == [film : Films, file : Files, lib : ToSet(Libs)]
JobType == [state : {"none", "pending", "deferred"}, hint : Keys \cup {NoHint}]

\* The sweep holds items of a listing, and a hint for each it does not know.
SweepShape ==
    /\ sweep = [at |-> sweep.at, lib |-> sweep.lib, todo |-> sweep.todo,
                known |-> sweep.known, hint |-> sweep.hint, count |-> sweep.count]
    /\ sweep.todo \subseteq Keys
    /\ sweep.count \in 0..Batch
    /\ sweep.at = "enqueueing" =>
          \A k \in sweep.todo \ sweep.known : sweep.hint[k] \in Keys \cup {NoHint}

IInv ==
    /\ plex \subseteq Keys
    /\ file \in [Keys -> Files]
    /\ rows \in Seq(RowType)
    /\ ref \in [Keys -> 0..Len(rows)]
    /\ queue \in [Films -> JobType]
    /\ SweepShape
    /\ OneIdPerRow
    /\ RowSaysItsLibrary

\* What an item is called by: its film, its file's name, its library.
LEMMA IdentityType ==
  ASSUME file \in [Keys -> Files], NEW k \in Keys
  PROVE  Identity(k) \in RowType
BY LibsAssumption DEF Identity, RowType, Films

\* enqueue() leaves a job of the key: the hint it was given, or the one it had.
LEMMA JobHasType ==
  ASSUME queue \in [Films -> JobType], NEW f \in Films, NEW h \in Keys \cup {NoHint}
  PROVE  Job(f, h) \in JobType
BY DEF Job, JobType

\* The row an item is stored in is one of the table, or the next; it is the
\* next only if no row holds its film and file and the id points nowhere.
LEMMA RowForType ==
  ASSUME IInv, NEW k \in Keys
  PROVE  /\ RowFor(k) \in 1..(Len(rows) + 1)
         /\ ref[k] # NoRow => RowFor(k) \in 1..Len(rows)
         /\ \A s \in 1..Len(rows) :
               rows[s].film = Film[k] /\ rows[s].file = file[k] => s = RowFor(k)
<1>1. rows \in Seq(RowType) /\ ref[k] \in 0..Len(rows) /\ Len(rows) \in Nat
      /\ DOMAIN rows = 1..Len(rows)
  BY DEF IInv
<1>2. CASE HolderOf(k) # {}
  <2>1. RowFor(k) \in HolderOf(k)
    BY <1>2 DEF RowFor
  <2>2. \A s \in HolderOf(k) : s = RowFor(k)
    BY <2>1 DEF HolderOf, IInv, OneIdPerRow
  <2> QED
    BY <1>1, <2>1, <2>2 DEF HolderOf
<1>3. CASE HolderOf(k) = {}
  BY <1>1, <1>3 DEF RowFor, HolderOf, NoRow
<1> QED
  BY <1>2, <1>3

\* _persist_identity: the row carries the item's identity and the id points at
\* it, and neither the rows nor the ids disagree afterwards.
LEMMA StoreKeeps ==
  ASSUME IInv, NEW k \in Keys, Store(k)
  PROVE  /\ rows' \in Seq(RowType)
         /\ ref' \in [Keys -> 0..Len(rows')]
         /\ OneIdPerRow'
         /\ RowSaysItsLibrary'
<1> DEFINE r == RowFor(k)
<1>1. /\ rows \in Seq(RowType) /\ ref \in [Keys -> 0..Len(rows)]
      /\ Len(rows) \in Nat /\ DOMAIN rows = 1..Len(rows)
      /\ file \in [Keys -> Files]
  BY DEF IInv
<1>2. /\ r \in 1..(Len(rows) + 1)
      /\ \A s \in 1..Len(rows) :
            rows[s].film = Film[k] /\ rows[s].file = file[k] => s = r
  BY RowForType
<1>3. rows' = WriteRow(k, r) /\ ref' = Point(k, r)
  BY DEF Store
<1>4. Identity(k) \in RowType
  BY <1>1, IdentityType
<1>5. /\ rows' \in Seq(RowType)
      /\ Len(rows') \in Nat /\ Len(rows) <= Len(rows') /\ r \in 1..Len(rows')
      /\ DOMAIN rows' = 1..Len(rows')
      /\ rows'[r] = Identity(k)
      /\ \A s \in 1..Len(rows') : s # r => s \in 1..Len(rows) /\ rows'[s] = rows[s]
  <2>1. CASE r \in 1..Len(rows)
    BY <1>1, <1>3, <1>4, <2>1 DEF WriteRow
  <2>2. CASE r = Len(rows) + 1
    BY <1>1, <1>3, <1>4, <2>2 DEF WriteRow
  <2> QED
    BY <1>1, <1>2, <2>1, <2>2
<1>6. ref' \in [Keys -> 0..Len(rows')]
  BY <1>1, <1>3, <1>5 DEF Point, NoRow
<1>7. OneIdPerRow'
  <2>1. \A i, m \in Keys : ref'[i] = ref'[m] /\ i # m => ref'[i] = NoRow
    BY <1>1, <1>2, <1>3 DEF Point, NoRow, IInv, OneIdPerRow
  <2>2. \A s, t \in 1..Len(rows') :
           rows'[s].film = rows'[t].film /\ rows'[s].file = rows'[t].file => s = t
    <3> SUFFICES ASSUME NEW s \in 1..Len(rows'), NEW t \in 1..Len(rows'),
                        rows'[s].film = rows'[t].film, rows'[s].file = rows'[t].file
                 PROVE  s = t
      OBVIOUS
    <3>1. rows'[r].film = Film[k] /\ rows'[r].file = file[k]
      BY <1>5 DEF Identity
    <3>2. CASE s # r /\ t # r
      BY <1>1, <1>5, <3>2 DEF IInv, OneIdPerRow
    <3>3. CASE s = r \/ t = r
      BY <1>2, <1>5, <3>1, <3>3
    <3> QED
      BY <3>2, <3>3
  <2> QED
    BY <1>5, <2>1, <2>2 DEF OneIdPerRow
<1>8. RowSaysItsLibrary'
  <2> SUFFICES ASSUME NEW m \in Keys, ref'[m] # NoRow
               PROVE  rows'[ref'[m]].film = Film[m] /\ rows'[ref'[m]].lib = Lib[m]
    BY DEF RowSaysItsLibrary
  <2>1. CASE m = k
    BY <1>3, <1>5, <2>1 DEF Point, Identity
  <2>2. CASE m # k
    <3>1. ref'[m] = ref[m] /\ ref[m] # r
      BY <1>1, <1>3, <2>2 DEF Point
    <3>2. ref[m] \in 1..Len(rows')
      BY <1>5, <1>6, <3>1 DEF NoRow
    <3> QED
      BY <1>5, <3>1, <3>2 DEF IInv, RowSaysItsLibrary
  <2> QED
    BY <2>1, <2>2
<1> QED
  BY <1>5, <1>6, <1>7, <1>8

\* A row's own id, when the sweep takes the hint from it, is an id of the server.
LEMMA HintType ==
  ASSUME NEW k \in Keys
  PROVE  HintFor(k) \in Keys \cup {NoHint}
BY DEF HintFor, KeyOf

(***************************************************************************)
(* The steps                                                               *)
(***************************************************************************)
LEMMA InitIInv == Init => IInv
<1> SUFFICES ASSUME Init PROVE IInv
  OBVIOUS
<1>1. plex \subseteq Keys /\ file \in [Keys -> Files]
  BY HoldingsAssumption DEF Init
<1>2. rows \in Seq(RowType) /\ Len(rows) = 0 /\ ref \in [Keys -> 0..Len(rows)]
  BY DEF Init, NoRow
<1>3. queue \in [Films -> JobType]
  BY DEF Init, NoJob, JobType, NoHint
<1>4. SweepShape
  BY BatchAssumption DEF Init, SweepShape, Idle
<1>5. OneIdPerRow /\ RowSaysItsLibrary
  BY <1>2 DEF Init, OneIdPerRow, RowSaysItsLibrary, NoRow
<1> QED
  BY <1>1, <1>2, <1>3, <1>4, <1>5 DEF IInv

\* The server changes and a delivery arrives: what is stored is left alone.
LEMMA ServerSteps ==
  ASSUME IInv,
         \/ \E k \in Keys : Appear(k) \/ Vanish(k) \/ Upgrade(k)
         \/ \E f \in Films : Deliver(f)
  PROVE  IInv'
<1>1. UNCHANGED <<rows, ref, sweep>>
  BY DEF Appear, Vanish, Upgrade, Deliver
<1>2. OneIdPerRow' /\ RowSaysItsLibrary' /\ SweepShape'
  BY <1>1 DEF IInv, OneIdPerRow, RowSaysItsLibrary, SweepShape
<1>3. plex' \subseteq Keys /\ file' \in [Keys -> Files] /\ queue' \in [Films -> JobType]
  <2>1. ASSUME NEW k \in Keys, Appear(k) \/ Vanish(k)
        PROVE  plex' \subseteq Keys /\ file' \in [Keys -> Files] /\ queue' \in [Films -> JobType]
    BY <2>1 DEF IInv, Appear, Vanish
  <2>2. ASSUME NEW k \in Keys, Upgrade(k)
        PROVE  plex' \subseteq Keys /\ file' \in [Keys -> Files] /\ queue' \in [Films -> JobType]
    <3>1. Film[k] \in Films
      BY DEF Films
    <3>2. Job(Film[k], NoHint) \in JobType
      BY <3>1, JobHasType DEF IInv
    <3>3. plex' \subseteq Keys /\ file' \in [Keys -> Files]
      BY <2>2 DEF IInv, Upgrade
    <3> QED
      BY <2>2, <3>1, <3>2, <3>3 DEF IInv, Upgrade
  <2>3. ASSUME NEW f \in Films, Deliver(f)
        PROVE  plex' \subseteq Keys /\ file' \in [Keys -> Files] /\ queue' \in [Films -> JobType]
    BY <2>3, JobHasType DEF IInv, Deliver
  <2> QED
    BY <2>1, <2>2, <2>3
<1> QED
  BY <1>1, <1>2, <1>3 DEF IInv

\* The safety net lists, reads and queues: it only ever holds items of Keys.
LEMMA SweepSteps ==
  ASSUME IInv, Sweep
  PROVE  IInv'
<1>0. UNCHANGED <<plex, file, rows, ref>>
  BY DEF Sweep, SweepList, SweepRead, SweepEnqueue, SweepNext
<1>1. OneIdPerRow' /\ RowSaysItsLibrary'
  BY <1>0 DEF IInv, OneIdPerRow, RowSaysItsLibrary
<1>2. SweepShape' /\ queue' \in [Films -> JobType]
  <2>1. CASE SweepList
    BY <2>1 DEF IInv, SweepList, SweepShape
  <2>2. CASE SweepRead
    <3>1. \A k \in sweep.todo : HintFor(k) \in Keys \cup {NoHint}
      BY HintType DEF IInv, SweepShape
    <3> QED
      BY <2>2, <3>1 DEF IInv, SweepRead, SweepShape
  <2>3. CASE SweepEnqueue
    <3> DEFINE k == Oldest(sweep.todo)
    <3>1. k \in sweep.todo /\ k \in Keys /\ Film[k] \in Films
      BY <2>3, OldestIsListed DEF SweepEnqueue, IInv, SweepShape, Films
    <3>2. sweep.count \in Nat /\ sweep.count + 1 \in 0..Batch
      BY <2>3, BatchAssumption DEF SweepEnqueue, Room, IInv, SweepShape
    <3>3. SweepShape'
      BY <2>3, <3>1, <3>2 DEF SweepEnqueue, IInv, SweepShape
    <3>4. CASE k \in sweep.known
      BY <2>3, <3>3, <3>4 DEF SweepEnqueue, IInv
    <3>5. CASE k \notin sweep.known
      <4>1. Job(Film[k], sweep.hint[k]) \in JobType
        BY <2>3, <3>1, <3>5, JobHasType DEF SweepEnqueue, IInv, SweepShape
      <4> QED
        BY <2>3, <3>1, <3>3, <3>5, <4>1 DEF SweepEnqueue, IInv
    <3> QED
      BY <3>4, <3>5
  <2>4. CASE SweepNext
    <3>1. PICK l, h : sweep' = [at |-> "idle", lib |-> l, todo |-> {}, known |-> {},
                                hint |-> h, count |-> 0]
      BY <2>4, Zenon DEF SweepNext, Idle
    <3>2. SweepShape'
      BY <3>1, BatchAssumption DEF SweepShape
    <3> QED
      BY <2>4, <3>2 DEF SweepNext, IInv
  <2> QED
    BY <2>1, <2>2, <2>3, <2>4 DEF Sweep
<1> QED
  BY <1>0, <1>1, <1>2 DEF IInv

\* The worker stores an item of the film it was asked for, or waits.
LEMMA WorkerSteps ==
  ASSUME IInv, NEW f \in Films, Work(f) \/ Due(f)
  PROVE  IInv'
<1>1. CASE Process(f)
  <2>1. PICK k \in Resolved(f) : Store(k)
    BY <1>1 DEF Process
  <2>2. k \in Keys
    BY <2>1 DEF Resolved, Follows, IInv
  <2>3. SweepShape'
    BY <1>1 DEF Process, IInv, SweepShape
  <2>4. queue' \in [Films -> JobType]
    BY <1>1 DEF Process, IInv, NoJob, JobType, NoHint
  <2> QED
    BY <1>1, <2>1, <2>2, <2>3, <2>4, StoreKeeps DEF Process, IInv
<1>2. CASE Defer(f) \/ Due(f)
  <2>1. UNCHANGED <<plex, file, rows, ref, sweep>>
    BY <1>2 DEF Defer, Due
  <2>2. OneIdPerRow' /\ RowSaysItsLibrary' /\ SweepShape'
    BY <2>1 DEF IInv, OneIdPerRow, RowSaysItsLibrary, SweepShape
  <2>3. queue' \in [Films -> JobType]
    BY <1>2 DEF IInv, Defer, Due, JobType
  <2> QED
    BY <2>1, <2>2, <2>3 DEF IInv
<1> QED
  BY <1>1, <1>2 DEF Work

\* Every step keeps the invariant.
LEMMA NextIInv == IInv /\ [Next]_vars => IInv'
<1> SUFFICES ASSUME IInv, [Next]_vars PROVE IInv'
  OBVIOUS
<1>1. CASE \/ \E k \in Keys : Appear(k) \/ Vanish(k) \/ Upgrade(k)
           \/ \E f \in Films : Deliver(f)
  BY <1>1, ServerSteps
<1>2. CASE Sweep
  BY <1>2, SweepSteps
<1>3. CASE \E f \in Films : Work(f) \/ Due(f)
  BY <1>3, WorkerSteps
<1>4. CASE UNCHANGED vars
  BY <1>4 DEF vars, IInv, SweepShape, OneIdPerRow, RowSaysItsLibrary
<1> QED
  BY <1>1, <1>2, <1>3, <1>4 DEF Next

\* The inductive invariant holds of every behaviour.
LEMMA DiscoveryInvariant == Spec => []IInv
BY InitIInv, NextIInv, PTL DEF Spec

(***************************************************************************)
(* The theorems                                                            *)
(***************************************************************************)
\* Whatever is delivered, replaced, moved or removed while the safety net and
\* the worker run: an id of the server names one row, no two rows carry one
\* film in one file, and a row says the library of the item it answers for
\* (upsert_server_ref, _persist_identity).
THEOREM IdentitiesAreSafe == Spec => []DiscoverySafety
<1>1. IInv => DiscoverySafety
  <2> SUFFICES ASSUME IInv PROVE DiscoverySafety
    OBVIOUS
  <2>1. \A r \in DOMAIN rows : rows[r] \in [film : Films, file : Files, lib : ToSet(Libs)]
    <3>1. rows \in Seq(RowType)
      BY DEF IInv
    <3>2. DOMAIN rows = 1..Len(rows) /\ \A r \in 1..Len(rows) : rows[r] \in RowType
      BY <3>1
    <3> QED
      BY <3>2 DEF RowType
  <2>2. sweep.count <= Batch
    BY BatchAssumption DEF IInv, SweepShape
  <2> QED
    BY <2>1, <2>2 DEF IInv, DiscoverySafety, TypeOK, JobType
<1> QED
  BY <1>1, DiscoveryInvariant, PTL

\* An id that points at a row never moves to a fresh one: a file replaced under
\* a known id takes its row, overrides and dismissals along (_rekey_in_place).
THEOREM KnownItemsStay == Spec => KnownItemsKeepTheirRow
<1>1. ASSUME IInv, [Next]_vars
      PROVE  [\A k \in Keys : ref[k] # NoRow => ref'[k] <= Len(rows)]_vars
  <2> SUFFICES ASSUME NEW k \in Keys, ref[k] # NoRow
               PROVE  ref'[k] <= Len(rows)
    OBVIOUS
  <2>1. ref[k] \in 0..Len(rows) /\ Len(rows) \in Nat
    BY <1>1 DEF IInv
  <2>2. CASE UNCHANGED ref
    BY <2>1, <2>2
  <2>3. ASSUME NEW f \in Films, Process(f)
        PROVE  ref'[k] <= Len(rows)
    <3>1. PICK m \in Resolved(f) : Store(m)
      BY <2>3 DEF Process
    <3>2. m \in Keys
      BY <1>1, <3>1 DEF Resolved, Follows, IInv
    <3>3. ref' = Point(m, RowFor(m))
      BY <3>1 DEF Store
    <3>4. ref[m] # NoRow => RowFor(m) \in 1..Len(rows)
      BY <1>1, <3>2, RowForType
    <3> QED
      BY <2>1, <3>3, <3>4 DEF Point, NoRow
  <2> QED
    BY <1>1, <2>2, <2>3 DEF Next, vars, Appear, Vanish, Upgrade, Deliver, Sweep,
       SweepList, SweepRead, SweepEnqueue, SweepNext, Work, Defer, Due
<1> QED
  BY <1>1, DiscoveryInvariant, PTL DEF Spec, KnownItemsKeepTheirRow

(***************************************************************************)
(* The sync: the listing, the report and the view                          *)
(***************************************************************************)
LEMMA SectionIsFinite ==
  ASSUME NEW s
  PROVE  Section(s) \subseteq Items /\ IsFiniteSet(Section(s)) /\ Cardinality(Section(s)) \in Nat
<1>1. IsFiniteSet(Items)
  BY ItemsAssumption, FS_Interval
<1>2. Section(s) \subseteq Items
  BY DEF Section
<1>3. IsFiniteSet(Section(s))
  BY <1>1, <1>2, FS_Subset
<1> QED
  BY <1>2, <1>3, FS_CardinalityType

\* The items left of a listing have a first one.
LEMMA CurrentIsLeft ==
  ASSUME pass.todo \subseteq Items, pass.todo # {}
  PROVE  Current \in pass.todo
<1>1. pass.todo \subseteq Nat
  BY ItemsAssumption
<1>2. PICK k \in pass.todo : \A m \in pass.todo : <<m, k>> \notin OpToRel(<, Nat)
  BY <1>1, NatLessThanWellFounded, WFMin
<1>3. \A m \in pass.todo : ~(m < k)
  BY <1>1, <1>2 DEF OpToRel
<1>4. \A m \in pass.todo : k <= m
  BY <1>1, <1>3
<1> QED
  BY <1>4 DEF Current

LEMMA VerdictIsOne ==
  ASSUME NEW i, NEW es, NEW rs
  PROVE  Verdict(i, es, rs) \in Verdicts
BY DEF Verdict, Verdicts

\* Without its mapped folder in hand the listing cannot call an item one to
\* register: it has an id nobody has, and a folder nobody has that is no root.
LEMMA ListedIsFree ==
  ASSUME NEW i, NEW es, NEW rs, Verdict(i, es, rs) = "listed"
  PROVE  /\ Item[i].id # NoId /\ Item[i].id \notin IdsIn(es)
         /\ MapPath(Item[i].path) # NoPath /\ MapPath(Item[i].path) \notin PathsIn(es)
         /\ ~IsRoot(MapPath(Item[i].path), rs)
BY DEF Verdict

LEMMA TakenIsHeld ==
  ASSUME NEW i, NEW es, NEW rs, Verdict(i, es, rs) = "taken"
  PROVE  /\ Item[i].id # NoId /\ Item[i].id \notin IdsIn(es)
         /\ MapPath(Item[i].path) \in PathsIn(es)
BY DEF Verdict

(***************************************************************************)
(* The invariant: what a pass has judged and what is left of its listing   *)
(* are the section it lists.                                               *)
(***************************************************************************)
PassShape ==
    /\ pass = [at |-> pass.at, sec |-> pass.sec, todo |-> pass.todo, seen |-> pass.seen,
               roots |-> pass.roots, count |-> pass.count]
    /\ pass.at \in {"idle", "roots", "listed", "items"}
    /\ pass.sec \in 1..Len(Sections)
    /\ pass.todo \subseteq Items
    /\ pass.count \in [Verdicts -> Nat]

Judging ==
    pass.at # "idle" =>
        /\ pass.todo \subseteq Section(pass.sec)
        /\ Tally(pass.count) + Cardinality(pass.todo) = Cardinality(Section(pass.sec))

SyncInv ==
    /\ roots \in RootSets
    /\ add \in BOOLEAN
    /\ mishaps \in 0..Mishaps
    /\ Consistent(entries)
    /\ PassShape
    /\ Judging
    /\ pass.at = "idle" => pass.count = NoCount

LEMMA EmptyTally == NoCount \in [Verdicts -> Nat] /\ Tally(NoCount) = 0
BY DEF NoCount, Tally, Verdicts

\* Counting one verdict adds one to the tally.
LEMMA TallyGrows ==
  ASSUME NEW c \in [Verdicts -> Nat], NEW v \in Verdicts
  PROVE  LET d == [c EXCEPT ![v] = @ + 1]
         IN  d \in [Verdicts -> Nat] /\ Tally(d) = Tally(c) + 1
<1> DEFINE d == [c EXCEPT ![v] = @ + 1]
<1>1. d \in [Verdicts -> Nat]
  OBVIOUS
<1>2. d[v] = c[v] + 1 /\ \A w \in Verdicts \ {v} : d[w] = c[w]
  OBVIOUS
<1>3. \A w \in Verdicts : c[w] \in Nat
  OBVIOUS
<1> HIDE DEF d
<1>4. Tally(d) = Tally(c) + 1
  BY <1>2, <1>3 DEF Tally, Verdicts
<1> QED
  BY <1>1, <1>4 DEF d

\* A pass that turns to the next section starts from nothing.
LEMMA FollowingIsFresh ==
  ASSUME PassShape, pass' = Following
  PROVE  PassShape' /\ pass'.at = "idle" /\ pass'.count = NoCount
<1>1. (pass.sec % Len(Sections)) + 1 \in 1..Len(Sections)
  BY SectionsAssumption DEF PassShape
<1>2. pass' = [at |-> "idle", sec |-> (pass.sec % Len(Sections)) + 1, todo |-> {}, seen |-> {},
               roots |-> {}, count |-> NoCount]
  BY DEF Following, NoPass
<1> QED
  BY <1>1, <1>2, EmptyTally DEF PassShape

\* An item judged moves from the listing to the tally.
LEMMA CountedKeeps ==
  ASSUME PassShape, Judging, Asking, NEW v \in Verdicts, pass' = Counted(v)
  PROVE  PassShape' /\ Judging' /\ pass'.at = "items"
<1>1. Current \in pass.todo
  BY CurrentIsLeft DEF PassShape, Asking
<1> DEFINE c == [pass.count EXCEPT ![v] = @ + 1]
<1>2. c \in [Verdicts -> Nat] /\ Tally(c) = Tally(pass.count) + 1
  BY TallyGrows DEF PassShape
<1>3. pass' = [at |-> "items", sec |-> pass.sec, todo |-> pass.todo \ {Current}, seen |-> pass.seen,
               roots |-> pass.roots, count |-> c]
  BY DEF Counted, PassShape
<1> HIDE DEF c
<1>4. PassShape'
  BY <1>2, <1>3 DEF PassShape
<1>5. pass.todo \subseteq Section(pass.sec)
      /\ Tally(pass.count) + Cardinality(pass.todo) = Cardinality(Section(pass.sec))
  BY DEF Judging, Asking
<1>6. IsFiniteSet(pass.todo) /\ Cardinality(pass.todo) \in Nat /\ Cardinality(Section(pass.sec)) \in Nat
  BY <1>5, SectionIsFinite, FS_Subset, FS_CardinalityType
<1>7. Cardinality(pass.todo \ {Current}) = Cardinality(pass.todo) - 1
  BY <1>1, <1>6, FS_RemoveElement
<1>8. Tally(pass.count) \in Nat
  <2>1. \A w \in Verdicts : pass.count[w] \in Nat
    BY DEF PassShape
  <2> QED
    BY <2>1 DEF Tally, Verdicts
<1>9. pass'.todo = pass.todo \ {Current} /\ pass'.count = c /\ pass'.sec = pass.sec /\ pass'.at = "items"
  BY <1>3
<1> QED
  BY <1>2, <1>4, <1>5, <1>6, <1>7, <1>8, <1>9 DEF Judging

\* The service keeps one entry an id and one a folder.
LEMMA AcceptedKeeps ==
  ASSUME Consistent(entries), NEW e, Accepted(e), e.id # NoId
  PROVE  Consistent(entries \cup {e})
<1>1. \A f \in entries : f.id # e.id /\ (f.path = e.path => e.path = NoPath)
  BY DEF Accepted, IdsIn, PathsIn
<1> QED
  BY <1>1 DEF Consistent

LEMMA RegisteredKeeps ==
  ASSUME Consistent(entries), ToAdd,
         entries' \in {entries, IF Accepted(Entry(Current)) THEN entries \cup {Entry(Current)} ELSE entries}
  PROVE  Consistent(entries')
<1>1. Entry(Current).id # NoId
  BY ListedIsFree DEF ToAdd, Entry
<1> QED
  BY <1>1, AcceptedKeeps

LEMMA SyncStarts == SyncInit => SyncInv
<1> SUFFICES ASSUME SyncInit PROVE SyncInv
  OBVIOUS
<1>1. Consistent(entries)
  BY StartsAssumption DEF SyncInit
<1>2. PassShape /\ pass.at = "idle" /\ pass.count = NoCount
  BY EmptyTally, SectionsAssumption DEF SyncInit, NoPass, PassShape
<1> QED
  BY <1>1, <1>2, MishapsAssumption DEF SyncInit, SyncInv, Judging

LEMMA SyncStep ==
  ASSUME SyncInv, [SyncNext]_syncVars
  PROVE  SyncInv'
<1> USE DEF SyncInv
<1>m. ASSUME Mishap PROVE mishaps' \in 0..Mishaps
  BY <1>m, MishapsAssumption DEF Mishap
<1>1. CASE ReadRoots
  <2>1. pass' = [at |-> "roots", sec |-> pass.sec, todo |-> Section(pass.sec), seen |-> pass.seen,
                 roots |-> roots, count |-> pass.count]
    BY <1>1 DEF ReadRoots, PassShape
  <2>2. pass'.at = "roots" /\ pass'.sec = pass.sec /\ pass'.todo = Section(pass.sec) /\ pass'.count = NoCount
    BY <1>1, <2>1 DEF ReadRoots
  <2>3. PassShape'
    BY <2>1, <2>2, SectionIsFinite DEF PassShape
  <2>4. Judging'
    BY <2>2, EmptyTally, SectionIsFinite DEF Judging
  <2> QED
    BY <1>1, <2>2, <2>3, <2>4 DEF ReadRoots
<1>2. CASE PassOver
  BY <1>2, FollowingIsFresh DEF PassOver, Judging
<1>3. CASE ReadListing
  <2>1. CASE pass' = Following
    BY <1>3, <2>1, FollowingIsFresh DEF ReadListing, Judging
  <2>2. CASE pass' = [pass EXCEPT !.at = "listed", !.seen = entries]
    <3>1. pass' = [at |-> "listed", sec |-> pass.sec, todo |-> pass.todo, seen |-> entries,
                   roots |-> pass.roots, count |-> pass.count]
      BY <2>2 DEF PassShape
    <3> QED
      BY <1>3, <3>1 DEF ReadListing, PassShape, Judging
  <2> QED
    BY <1>3, <2>1, <2>2 DEF ReadListing
<1>4. CASE Abandon
  BY <1>4, <1>m, FollowingIsFresh DEF Abandon, Judging
<1>5. CASE JudgeItem
  BY <1>5, CountedKeeps, VerdictIsOne DEF JudgeItem
<1>6. CASE AddItem
  <2>1. "added" \in Verdicts /\ "failed" \in Verdicts
    BY DEF Verdicts
  <2>2. Asking
    BY <1>6 DEF AddItem, ToAdd
  <2>3. PassShape' /\ Judging' /\ pass'.at = "items"
    BY <1>6, <2>1, <2>2, CountedKeeps DEF AddItem
  <2>4. Consistent(entries')
    BY <1>6, RegisteredKeeps DEF AddItem
  <2> QED
    BY <1>6, <2>3, <2>4 DEF AddItem, Consistent
<1>7. CASE AddFails
  <2>1. "failed" \in Verdicts
    BY DEF Verdicts
  <2>2. Asking
    BY <1>7 DEF AddFails, ToAdd
  <2>3. PassShape' /\ Judging' /\ pass'.at = "items"
    BY <1>7, <2>1, <2>2, CountedKeeps DEF AddFails
  <2>4. Consistent(entries')
    BY <1>7, RegisteredKeeps DEF AddFails
  <2> QED
    BY <1>7, <1>m, <2>3, <2>4 DEF AddFails, Consistent
<1>8. CASE SectionEnds
  BY <1>8, FollowingIsFresh DEF SectionEnds, Judging
<1>9. CASE PersonAdds
  <2>1. Consistent(entries')
    BY <1>9, AcceptedKeeps, EditsAssumption DEF PersonAdds
  <2> QED
    BY <1>9, <1>m, <2>1 DEF PersonAdds, PassShape, Judging, Consistent
<1>10. CASE PersonRemoves
  <2>1. Consistent(entries')
    BY <1>10 DEF PersonRemoves, Consistent
  <2> QED
    BY <1>10, <1>m, <2>1 DEF PersonRemoves, PassShape, Judging, Consistent
<1>11. CASE RootsMove
  BY <1>11, <1>m DEF RootsMove, PassShape, Judging, Consistent
<1>12. CASE UNCHANGED syncVars
  BY <1>12 DEF syncVars, PassShape, Judging, Consistent
<1> QED
  BY <1>1, <1>2, <1>3, <1>4, <1>5, <1>6, <1>7, <1>8, <1>9, <1>10, <1>11, <1>12 DEF SyncNext, Pass

\* A tally is no smaller than what it is made of.
LEMMA CountsAreBounded ==
  ASSUME SyncInv
  PROVE  pass.count \in [Verdicts -> 0..Cardinality(Items)]
<1>1. \A w \in Verdicts : pass.count[w] \in Nat
  BY DEF SyncInv, PassShape
<1>2. \A w \in Verdicts : pass.count[w] <= Tally(pass.count)
  BY <1>1 DEF Tally, Verdicts
<1>3. Cardinality(Items) \in Nat /\ IsFiniteSet(Items)
  BY ItemsAssumption, FS_Interval, FS_CardinalityType
<1>4. Tally(pass.count) <= Cardinality(Items)
  <2>1. CASE pass.at = "idle"
    BY <1>3, <2>1, EmptyTally DEF SyncInv
  <2>2. CASE pass.at # "idle"
    <3>1. pass.todo \subseteq Section(pass.sec)
          /\ Tally(pass.count) + Cardinality(pass.todo) = Cardinality(Section(pass.sec))
      BY <2>2 DEF SyncInv, Judging
    <3>2. Cardinality(pass.todo) \in Nat
      BY <3>1, SectionIsFinite, FS_Subset, FS_CardinalityType
    <3>3. Cardinality(Section(pass.sec)) <= Cardinality(Items)
      BY <1>3, SectionIsFinite, FS_Subset
    <3>4. Tally(pass.count) \in Nat
      BY <1>1 DEF Tally, Verdicts
    <3> QED
      BY <1>3, <3>1, <3>2, <3>3, <3>4, SectionIsFinite
  <2> QED
    BY <2>1, <2>2
<1>5. \A w \in Verdicts : pass.count[w] \in 0..Cardinality(Items)
  <2>1. Tally(pass.count) \in Nat
    BY <1>1 DEF Tally, Verdicts
  <2> QED
    BY <1>1, <1>2, <1>3, <1>4, <2>1
<1> QED
  BY <1>5 DEF SyncInv, PassShape

\* One entry a folder: the entry of an item's folder is the one the pass made.
LEMMA ViewsAgree ==
  ASSUME Consistent(entries)
  PROVE  SyncAndViewAgree
<1> SUFFICES ASSUME NEW i \in InScope
             PROVE  /\ Verdict(i, entries, roots) = "listed" => i \in PlexOnly
                    /\ Verdict(i, entries, roots) = "taken" => i \in Mismatched
                    /\ Entry(i) \notin ArrOnly \cup ArrUnreleased \/ MapPath(Item[i].path) = NoPath
  BY DEF SyncAndViewAgree
<1>0. ASSUME MapPath(Item[i].path) \in PathsIn(entries)
      PROVE  i \in Matched /\ Holding(i) \in entries /\ Holding(i).path = MapPath(Item[i].path)
  BY <1>0 DEF Matched, Unmapped, PathsIn, Holding
<1>1. Verdict(i, entries, roots) = "listed" => i \in PlexOnly
  BY ListedIsFree DEF PlexOnly, Unmapped, Matched
<1>2. ASSUME Verdict(i, entries, roots) = "taken" PROVE i \in Mismatched
  BY <1>0, <1>2, TakenIsHeld DEF Mismatched, IdsIn
<1>3. ASSUME Entry(i) \in ArrOnly \cup ArrUnreleased, MapPath(Item[i].path) # NoPath PROVE FALSE
  <2>1. Entry(i) \in entries /\ Entry(i) \notin ArrMatched /\ Entry(i).path = MapPath(Item[i].path)
    BY <1>3 DEF ArrOnly, ArrUnreleased, Entry
  <2>2. MapPath(Item[i].path) \in PathsIn(entries)
    BY <1>3, <2>1 DEF PathsIn
  <2>3. Holding(i) = Entry(i)
    BY <1>0, <1>3, <2>1, <2>2 DEF Consistent
  <2> QED
    BY <1>0, <1>3, <2>1, <2>2, <2>3 DEF ArrMatched, ArrUnmapped
<1> QED
  BY <1>1, <1>2, <1>3

\* The report adds up to the titles of its section, no pass counts past its
\* listing, and a sync and the gap view judge an item alike (arr/sync.py).
THEOREM SyncsAreSafe == SyncSpec => []SyncSafety
<1>1. SyncInv => SyncSafety
  <2> SUFFICES ASSUME SyncInv PROVE SyncSafety
    OBVIOUS
  <2>1. SyncTypeOK
    BY CountsAreBounded DEF SyncInv, SyncTypeOK, PassShape
  <2>2. ReportAddsUp
    BY DEF SyncInv, Judging, ReportAddsUp
  <2>3. SyncAndViewAgree
    BY ViewsAgree DEF SyncInv
  <2> QED
    BY <2>1, <2>2, <2>3 DEF SyncSafety
<1> QED
  BY <1>1, SyncStarts, SyncStep, PTL DEF SyncSpec

\* No pass registers a folder that is a root: nothing Arr manages owns the
\* whole library (arr/sync.py, the root check before the registration).
THEOREM RootsAreNotRegistered == SyncSpec => NothingOwnsTheLibrary
<1>1. ASSUME SyncInv, [SyncNext]_syncVars
      PROVE  [\A e \in entries' \ entries : pass' # pass =>
                 e.path \notin pass.roots \cup {ArrRoot}]_syncVars
  <2> SUFFICES ASSUME SyncNext, NEW e \in entries' \ entries, pass' # pass
               PROVE  e.path \notin pass.roots \cup {ArrRoot}
    BY <1>1
  <2>1. ToAdd /\ e = Entry(Current)
    BY DEF SyncNext, Pass, ReadRoots, PassOver, ReadListing, JudgeItem, AddItem, SectionEnds, Abandon,
           AddFails, PersonAdds, PersonRemoves, RootsMove
  <2> QED
    BY <2>1, ListedIsFree DEF ToAdd, Entry, IsRoot
<1> QED
  BY <1>1, SyncStarts, SyncStep, PTL DEF SyncSpec, NothingOwnsTheLibrary

(***************************************************************************)
(* Notifications: counting                                                 *)
(***************************************************************************)
\* Induction over the naturals, said of a set of them.
LEMMA SetInduction ==
  ASSUME NEW T \in SUBSET Nat, 0 \in T, \A n \in T : n + 1 \in T
  PROVE  T = Nat
<1> SUFFICES ASSUME Nat \ T /= {} PROVE FALSE
  OBVIOUS
<1>1. PICK n \in Nat \ T : \A m \in Nat \ T : <<m, n>> \notin OpToRel(<, Nat)
  BY NatLessThanWellFounded, WFMin
<1>2. \A m \in Nat \ T : ~(m < n)
  BY <1>1 DEF OpToRel
<1>3. n - 1 \in T
  BY <1>2
<1> QED
  BY <1>3

\* f counts up by g from c as far as n.
Counts(f, g, c, n) == f[0] = c /\ \A m \in 0..(n - 1) : f[m + 1] = g[<<m, f[m]>>]

\* Two functions that count alike agree.
LEMMA CountsAgree ==
  ASSUME NEW f, NEW h, NEW g, NEW c, NEW n \in Nat, Counts(f, g, c, n), Counts(h, g, c, n)
  PROVE  \A m \in 0..n : f[m] = h[m]
<1> DEFINE T == {m \in Nat : m <= n => f[m] = h[m]}
<1>1. 0 \in T
  BY DEF Counts
<1>2. ASSUME NEW m \in T PROVE m + 1 \in T
  <2> SUFFICES ASSUME m + 1 <= n PROVE f[m + 1] = h[m + 1]
    OBVIOUS
  <2>1. m \in 0..(n - 1) /\ f[m] = h[m]
    OBVIOUS
  <2> QED
    BY <2>1 DEF Counts
<1>3. T \in SUBSET Nat
  OBVIOUS
<1> HIDE DEF T
<1>4. T = Nat
  BY <1>1, <1>2, <1>3, SetInduction
<1> QED
  BY <1>4 DEF T

\* A function counts up as far as you like.
LEMMA CountsExist ==
  ASSUME NEW c \in Nat, NEW g \in [Nat \X Nat -> Nat]
  PROVE  \E f \in [Nat -> Nat] : f[0] = c /\ \A n \in Nat : f[n + 1] = g[<<n, f[n]>>]
<1> DEFINE T == {n \in Nat : \E f \in [0..n -> Nat] : Counts(f, g, c, n)}
<1>1. 0 \in T
  <2>1. [m \in 0..0 |-> c] \in [0..0 -> Nat] /\ Counts([m \in 0..0 |-> c], g, c, 0)
    BY DEF Counts
  <2> QED
    BY <2>1
<1>2. ASSUME NEW n \in T PROVE n + 1 \in T
  <2>1. PICK f \in [0..n -> Nat] : Counts(f, g, c, n)
    OBVIOUS
  <2> DEFINE h == [m \in 0..(n + 1) |-> IF m <= n THEN f[m] ELSE g[<<n, f[n]>>]]
  <2>2. f[n] \in Nat /\ g[<<n, f[n]>>] \in Nat
    OBVIOUS
  <2>3. h \in [0..(n + 1) -> Nat]
    BY <2>2
  <2>4. \A m \in 0..n : h[m] = f[m]
    OBVIOUS
  <2>5. h[n + 1] = g[<<n, f[n]>>]
    OBVIOUS
  <2> HIDE DEF h
  <2>6. Counts(h, g, c, n + 1)
    <3>1. h[0] = c
      BY <2>1, <2>4 DEF Counts
    <3>2. ASSUME NEW m \in 0..n PROVE h[m + 1] = g[<<m, h[m]>>]
      <4>1. CASE m = n
        BY <2>4, <2>5, <4>1
      <4>2. CASE m # n
        <5>1. m \in 0..(n - 1) /\ m + 1 \in 0..n
          BY <4>2
        <5> QED
          BY <2>1, <2>4, <5>1 DEF Counts
      <4> QED
        BY <4>1, <4>2
    <3> QED
      BY <3>1, <3>2 DEF Counts
  <2>7. \E f2 \in [0..(n + 1) -> Nat] : Counts(f2, g, c, n + 1)
    BY <2>3, <2>6, Zenon
  <2>8. n + 1 \in Nat
    OBVIOUS
  <2> QED
    BY <2>7, <2>8, Zenon
<1>3. T \in SUBSET Nat
  OBVIOUS
<1>4. T = Nat
  <2> HIDE DEF T
  <2> QED
    BY <1>1, <1>2, <1>3, SetInduction
<1> DEFINE F(n) == CHOOSE f \in [0..n -> Nat] : Counts(f, g, c, n)
           k == [n \in Nat |-> F(n)[n]]
<1>5. \A n \in Nat : F(n) \in [0..n -> Nat] /\ Counts(F(n), g, c, n)
  BY <1>4
<1> HIDE DEF T, F
<1>6. k \in [Nat -> Nat]
  BY <1>5
<1>7. k[0] = c
  BY <1>5 DEF Counts
<1>8. ASSUME NEW n \in Nat PROVE k[n + 1] = g[<<n, k[n]>>]
  <2>1. Counts(F(n + 1), g, c, n)
    <3>1. n + 1 \in Nat /\ 0..(n - 1) \subseteq 0..((n + 1) - 1)
      OBVIOUS
    <3>2. Counts(F(n + 1), g, c, n + 1)
      BY <1>5, <3>1, Zenon
    <3> QED
      BY <3>1, <3>2, Zenon DEF Counts
  <2>2. F(n + 1)[n] = F(n)[n]
    BY <1>5, <2>1, CountsAgree
  <2>3. F(n + 1)[n + 1] = g[<<n, F(n + 1)[n]>>]
    <3>1. n + 1 \in Nat /\ n \in 0..((n + 1) - 1)
      OBVIOUS
    <3>2. Counts(F(n + 1), g, c, n + 1)
      BY <1>5, <3>1, Zenon
    <3> QED
      BY <3>1, <3>2, Zenon DEF Counts
  <2> QED
    BY <2>2, <2>3
<1> QED
  BY <1>6, <1>7, <1>8

(***************************************************************************)
(* The wait between two attempts doubles                                   *)
(***************************************************************************)
LEMMA BackoffDoubles ==
  Backoff \in [Nat -> Nat] /\ Backoff[0] = 1 /\ \A n \in Nat : Backoff[n + 1] = 2 * Backoff[n]
<1> DEFINE g == [x \in Nat \X Nat |-> 2 * x[2]]
           B(f) == f = [n \in Nat |-> IF n = 0 THEN 1 ELSE 2 * f[n - 1]]
<1>1. g \in [Nat \X Nat -> Nat]
  OBVIOUS
<1>2. PICK f \in [Nat -> Nat] : f[0] = 1 /\ \A n \in Nat : f[n + 1] = g[<<n, f[n]>>]
  <2> HIDE DEF g
  <2>1. 1 \in Nat
    OBVIOUS
  <2> QED
    BY <1>1, <2>1, CountsExist, Zenon
<1>3. \A n \in Nat : f[n + 1] = 2 * f[n]
  BY <1>2
<1>4. ASSUME NEW n \in Nat PROVE f[n] = IF n = 0 THEN 1 ELSE 2 * f[n - 1]
  <2>1. CASE n = 0
    BY <1>2, <2>1
  <2>2. CASE n # 0
    <3>1. n - 1 \in Nat /\ n = (n - 1) + 1
      BY <2>2
    <3> QED
      BY <1>3, <2>2, <3>1
  <2> QED
    BY <2>1, <2>2
<1>5. B(f)
  BY <1>4
<1>6. Backoff = CHOOSE x : B(x)
  BY DEF Backoff
<1>7. B(Backoff)
  <2> HIDE DEF B
  <2> QED
    BY <1>5, <1>6
<1> HIDE DEF g
<1>8. Backoff[0] = 1 /\ \A n \in Nat : Backoff[n + 1] = 2 * Backoff[n]
  BY <1>7
<1>9. Backoff \in [Nat -> Nat]
  <2> DEFINE T == {n \in Nat : Backoff[n] \in Nat}
  <2>1. 0 \in T /\ T \in SUBSET Nat
    BY <1>8
  <2>2. \A n \in T : n + 1 \in T
    BY <1>8
  <2>3. T = Nat
    <3> HIDE DEF T
    <3> QED
      BY <2>1, <2>2, SetInduction
  <2>4. \A n \in Nat : Backoff[n] \in Nat
    BY <2>3
  <2>5. Backoff = [n \in Nat |-> Backoff[n]]
    BY <1>7
  <2> QED
    BY <2>4, <2>5
<1> QED
  BY <1>8, <1>9

\* A later attempt waits no less.
LEMMA BackoffGrows ==
  ASSUME NEW m \in Nat, NEW n \in Nat, m <= n
  PROVE  Backoff[m] <= Backoff[n]
<1> DEFINE T == {d \in Nat : Backoff[m] <= Backoff[m + d]}
<1>1. 0 \in T /\ T \in SUBSET Nat
  BY BackoffDoubles
<1>2. ASSUME NEW d \in T PROVE d + 1 \in T
  <2>1. m + d \in Nat /\ m + (d + 1) = (m + d) + 1
    OBVIOUS
  <2>2. Backoff[m + (d + 1)] = 2 * Backoff[m + d] /\ Backoff[m + d] \in Nat /\ Backoff[m] \in Nat
    BY <2>1, BackoffDoubles
  <2> QED
    BY <2>2
<1>3. T = Nat
  <2> HIDE DEF T
  <2> QED
    BY <1>1, <1>2, SetInduction
<1>4. n - m \in Nat /\ m + (n - m) = n
  OBVIOUS
<1>5. n - m \in T
  <2> HIDE DEF T
  <2> QED
    BY <1>3, <1>4
<1> QED
  BY <1>4, <1>5

(***************************************************************************)
(* The room the fields take                                                *)
(***************************************************************************)
FieldType == [name : Nat, value : Nat]
Adds(u, fs) ==
    u = [n \in 0..Len(fs) |-> IF n = 0 THEN 0 ELSE u[n - 1] + fs[n].name + fs[n].value]

LEMMA UsedAdds ==
  ASSUME NEW fs \in Seq(FieldType)
  PROVE  Adds(Used(fs), fs)
<1> DEFINE g == [x \in Nat \X Nat |-> IF x[1] + 1 \in 1..Len(fs)
                                     THEN x[2] + fs[x[1] + 1].name + fs[x[1] + 1].value ELSE x[2]]
<1>0. Len(fs) \in Nat /\ \A n \in 1..Len(fs) : fs[n].name \in Nat /\ fs[n].value \in Nat
  <2>1. \A n \in 1..Len(fs) : fs[n] \in FieldType
    BY ElementOfSeq
  <2> QED
    BY <2>1 DEF FieldType
<1>1. g \in [Nat \X Nat -> Nat]
  BY <1>0
<1>2. PICK f \in [Nat -> Nat] : f[0] = 0 /\ \A n \in Nat : f[n + 1] = g[<<n, f[n]>>]
  <2> HIDE DEF g
  <2>1. 0 \in Nat
    OBVIOUS
  <2> QED
    BY <1>1, <2>1, CountsExist, Zenon
<1> DEFINE u == [n \in 0..Len(fs) |-> f[n]]
<1>3. ASSUME NEW n \in 0..Len(fs)
      PROVE  u[n] = IF n = 0 THEN 0 ELSE u[n - 1] + fs[n].name + fs[n].value
  <2>1. CASE n = 0
    BY <1>0, <1>2, <2>1
  <2>2. CASE n # 0
    <3>1. n - 1 \in Nat /\ n = (n - 1) + 1 /\ n - 1 \in 0..Len(fs) /\ n \in 1..Len(fs)
      BY <1>0, <2>2
    <3>2. f[n] = g[<<n - 1, f[n - 1]>>] /\ f[n - 1] \in Nat
      BY <1>2, <3>1
    <3>3. g[<<n - 1, f[n - 1]>>] = f[n - 1] + fs[n].name + fs[n].value
      BY <3>1, <3>2
    <3> HIDE DEF g
    <3> QED
      BY <2>2, <3>1, <3>2, <3>3
  <2> QED
    BY <2>1, <2>2
<1>4. Adds(u, fs)
  <2>1. u = [n \in 0..Len(fs) |-> u[n]]
    OBVIOUS
  <2> HIDE DEF u
  <2> QED
    BY <1>3, <2>1 DEF Adds
<1>5. Used(fs) = CHOOSE x : Adds(x, fs)
  BY DEF Used, Adds
<1> HIDE DEF u, g
<1> QED
  BY <1>4, <1>5

\* Field by field, and never less.
LEMMA UsedSteps ==
  ASSUME NEW fs \in Seq(FieldType)
  PROVE  /\ Used(fs)[0] = 0
         /\ \A n \in 1..Len(fs) : Used(fs)[n] = Used(fs)[n - 1] + fs[n].name + fs[n].value
<1>1. Adds(Used(fs), fs)
  BY UsedAdds
<1>2. \A n \in 0..Len(fs) : Used(fs)[n] = IF n = 0 THEN 0 ELSE Used(fs)[n - 1] + fs[n].name + fs[n].value
  <2> DEFINE u == Used(fs)
  <2>1. Adds(u, fs)
    BY <1>1
  <2> HIDE DEF u
  <2>2. \A n \in 0..Len(fs) : u[n] = IF n = 0 THEN 0 ELSE u[n - 1] + fs[n].name + fs[n].value
    BY <2>1 DEF Adds
  <2> QED
    BY <2>2 DEF u
<1> QED
  BY <1>2

\* What the first fields take does not depend on those that follow.
LEMMA UsedOfPrefix ==
  ASSUME NEW fs \in Seq(FieldType), NEW gs \in Seq(FieldType), NEW k \in Nat,
         k <= Len(fs), k <= Len(gs), \A n \in 1..k : fs[n] = gs[n]
  PROVE  Used(fs)[k] = Used(gs)[k]
<1> DEFINE T == {n \in Nat : n <= k => Used(fs)[n] = Used(gs)[n]}
<1>1. 0 \in T /\ T \in SUBSET Nat
  BY UsedSteps
<1>2. ASSUME NEW n \in T PROVE n + 1 \in T
  <2> SUFFICES ASSUME n + 1 <= k PROVE Used(fs)[n + 1] = Used(gs)[n + 1]
    OBVIOUS
  <2>1. n + 1 \in 1..Len(fs) /\ n + 1 \in 1..Len(gs) /\ n + 1 \in 1..k /\ (n + 1) - 1 = n
    OBVIOUS
  <2>2. Used(fs)[n + 1] = Used(fs)[n] + fs[n + 1].name + fs[n + 1].value
    BY <2>1, UsedSteps
  <2>3. Used(gs)[n + 1] = Used(gs)[n] + gs[n + 1].name + gs[n + 1].value
    BY <2>1, UsedSteps
  <2>4. Used(fs)[n] = Used(gs)[n] /\ fs[n + 1] = gs[n + 1]
    BY <2>1
  <2> QED
    BY <2>2, <2>3, <2>4
<1>3. T = Nat
  <2> HIDE DEF T
  <2> QED
    BY <1>1, <1>2, SetInduction
<1>4. k \in T
  <2> HIDE DEF T
  <2> QED
    BY <1>3
<1> QED
  BY <1>4

\* There is a largest number of fields that fits.
LEMMA LargestExists ==
  ASSUME NEW n \in Nat, NEW S \in SUBSET (0..n), S # {}
  PROVE  Max(S) \in S /\ \A x \in S : x <= Max(S)
<1> DEFINE U == {n - x : x \in S}
<1>1. U \subseteq Nat /\ U # {}
  <2>1. \A x \in S : x \in 0..n /\ n - x \in Nat
    OBVIOUS
  <2>2. \A u \in U : u \in Nat
    BY <2>1
  <2>3. PICK x \in S : TRUE
    OBVIOUS
  <2>4. n - x \in U
    BY <2>3
  <2> HIDE DEF U
  <2> QED
    BY <2>2, <2>4
<1>2. PICK d \in U : \A m \in U : <<m, d>> \notin OpToRel(<, Nat)
  <2> HIDE DEF U
  <2> QED
    BY <1>1, NatLessThanWellFounded, WFMin
<1>3. \A m \in U : ~(m < d)
  <2> HIDE DEF U
  <2> QED
    BY <1>1, <1>2 DEF OpToRel
<1>4. PICK x \in S : d = n - x
  OBVIOUS
<1>5. \A y \in S : x >= y
  BY <1>3, <1>4
<1> QED
  BY <1>4, <1>5 DEF Max

LEMMA ClippedFits ==
  ASSUME NEW n \in Nat, NEW limit \in Nat
  PROVE  Clipped(n, limit) \in Nat /\ Clipped(n, limit) <= limit /\ Clipped(n, limit) <= n
         /\ (n >= 1 /\ limit >= 1 => Clipped(n, limit) >= 1)
<1>1. Min({n, limit}) \in {n, limit} /\ \A y \in {n, limit} : Min({n, limit}) <= y
  <2>1. \E x \in {n, limit} : \A y \in {n, limit} : x <= y
    <3>1. CASE n <= limit
      BY <3>1
    <3>2. CASE limit <= n
      BY <3>2
    <3> QED
      BY <3>1, <3>2
  <2> QED
    BY <2>1 DEF Min
<1> QED
  BY <1>1 DEF Clipped

\* A field has a name and a value, neither empty nor too long.
SizedField == [name : 1..NameLimit, value : 1..ValueLimit]

LEMMA FieldIsSized ==
  ASSUME NEW f \in [name : Nat, value : Nat]
  PROVE  Field(f) \in SizedField
<1>1. FieldText(f.name) \in Nat /\ FieldText(f.name) >= 1 /\ FieldText(f.value) \in Nat /\ FieldText(f.value) >= 1
  BY DEF FieldText, Placeholder
<1>2. Clipped(FieldText(f.name), NameLimit) \in 1..NameLimit
  <2>1. NameLimit \in Nat /\ NameLimit >= 1
    BY DEF NameLimit
  <2>2. ASSUME NEW n \in Nat, n >= 1 PROVE Clipped(n, NameLimit) \in 1..NameLimit
    <3>1. Clipped(n, NameLimit) \in Nat /\ Clipped(n, NameLimit) <= NameLimit /\ Clipped(n, NameLimit) >= 1
      BY <2>1, <2>2, ClippedFits
    <3> QED
      BY <2>1, <3>1
  <2> QED
    BY <1>1, <2>2
<1>3. Clipped(FieldText(f.value), ValueLimit) \in 1..ValueLimit
  <2>1. ValueLimit \in Nat /\ ValueLimit >= 1
    BY DEF ValueLimit
  <2>2. ASSUME NEW n \in Nat, n >= 1 PROVE Clipped(n, ValueLimit) \in 1..ValueLimit
    <3>1. Clipped(n, ValueLimit) \in Nat /\ Clipped(n, ValueLimit) <= ValueLimit /\ Clipped(n, ValueLimit) >= 1
      BY <2>1, <2>2, ClippedFits
    <3> QED
      BY <2>1, <3>1
  <2> QED
    BY <1>1, <2>2
<1> QED
  BY <1>2, <1>3 DEF Field, SizedField

\* The fields kept and the marker stay under the budget and its reserve.
LEMMA FieldsFit ==
  ASSUME NEW detail \in Seq([name : Nat, value : Nat]), NEW budget \in Nat
  PROVE  LET fs == Fields(detail, budget)
         IN  /\ fs \in Seq(SizedField) /\ Len(fs) <= FieldLimit
             /\ Sum(fs) \in Int /\ Sum(fs) <= budget + OmissionReserve
<1> DEFINE all == [i \in 1..Len(detail) |-> Field(detail[i])]
           fits(n) == n <= FieldLimit - 1 /\ \A i \in 1..n : Used(all)[i] <= budget
           S == {n \in 0..Len(all) : fits(n)}
           kept == Max(S)
           marker == [name |-> Marker, value |-> MarkerValue]
           fs == IF kept = Len(all) THEN all ELSE Append(SubSeq(all, 1, kept), marker)
<1>0. Len(detail) \in Nat
  OBVIOUS
<1>1. all \in Seq(SizedField) /\ Len(all) = Len(detail)
  <2>0. \A i \in 1..Len(detail) : detail[i] \in [name : Nat, value : Nat]
    BY ElementOfSeq
  <2>1. \A i \in 1..Len(detail) : Field(detail[i]) \in SizedField
    BY <2>0, FieldIsSized
  <2> QED
    BY <1>0, <2>1
<1>2. SizedField \subseteq FieldType /\ marker \in SizedField
  <2>1. 1..NameLimit \subseteq Nat /\ 1..ValueLimit \subseteq Nat
    BY DEF NameLimit, ValueLimit
  <2>2. Marker \in 1..NameLimit /\ MarkerValue \in 1..ValueLimit
    BY DEF NameLimit, ValueLimit, Marker, MarkerValue
  <2> QED
    BY <2>1, <2>2 DEF SizedField, FieldType
<1> HIDE DEF all
<1>3. all \in Seq(FieldType)
  BY <1>1, <1>2
<1>4. kept \in S
  <2>1. S \in SUBSET (0..Len(all)) /\ Len(all) \in Nat
    BY <1>1
  <2>2. 0 \in S
    BY <1>1 DEF FieldLimit
  <2> HIDE DEF S
  <2> QED
    BY <2>1, <2>2, LargestExists
<1>5. kept \in 0..Len(all) /\ kept <= FieldLimit - 1 /\ \A i \in 1..kept : Used(all)[i] <= budget
  BY <1>4
<1> HIDE DEF S, kept
<1>6. Used(all)[kept] \in Int /\ Used(all)[kept] <= budget
  <2> DEFINE T == {n \in Nat : n <= Len(all) => Used(all)[n] \in Int}
  <2>1. 0 \in T /\ T \in SUBSET Nat
    BY <1>3, UsedSteps
  <2>2. ASSUME NEW n \in T PROVE n + 1 \in T
    <3> SUFFICES ASSUME n + 1 <= Len(all) PROVE Used(all)[n + 1] \in Int
      OBVIOUS
    <3>1. n + 1 \in 1..Len(all) /\ (n + 1) - 1 = n /\ Used(all)[n] \in Int
      BY <1>1
    <3>2. Used(all)[n + 1] = Used(all)[n] + all[n + 1].name + all[n + 1].value
      BY <1>3, <3>1, UsedSteps
    <3>3. all[n + 1].name \in Nat /\ all[n + 1].value \in Nat
      <4>1. all[n + 1] \in FieldType
        BY <1>3, <3>1, ElementOfSeq
      <4> QED
        BY <4>1 DEF FieldType
    <3> QED
      BY <3>1, <3>2, <3>3
  <2>3. T = Nat
    <3> HIDE DEF T
    <3> QED
      BY <2>1, <2>2, SetInduction
  <2>4. kept \in T
    <3> HIDE DEF T
    <3> QED
      BY <1>1, <1>5, <2>3
  <2>5. Used(all)[kept] \in Int
    BY <1>1, <1>5, <2>4
  <2>6. CASE kept = 0
    BY <1>3, <2>5, <2>6, UsedSteps
  <2>7. CASE kept # 0
    <3>1. kept \in 1..kept
      BY <1>1, <1>5, <2>7
    <3> QED
      BY <1>5, <2>5, <3>1
  <2> QED
    BY <2>6, <2>7
<1>7. Fields(detail, budget) = fs
  BY DEF Fields, all, kept, S
<1>8. CASE kept = Len(all)
  <2>1. fs = all
    BY <1>8
  <2>2. Sum(all) = Used(all)[kept]
    BY <1>8 DEF Sum
  <2> QED
    BY <1>1, <1>5, <1>6, <1>7, <1>8, <2>1, <2>2 DEF FieldLimit, OmissionReserve
<1>9. CASE kept # Len(all)
  <2> DEFINE pre == SubSeq(all, 1, kept)
             gs == Append(pre, marker)
  <2>1. pre \in Seq(SizedField) /\ Len(pre) = kept /\ \A n \in 1..kept : pre[n] = all[n]
    BY <1>1, <1>5
  <2> HIDE DEF pre
  <2>2. gs \in Seq(SizedField) /\ Len(gs) = kept + 1 /\ gs[kept + 1] = marker /\ \A n \in 1..kept : gs[n] = all[n]
    BY <1>1, <1>2, <1>5, <2>1
  <2>3. gs \in Seq(FieldType)
    BY <1>2, <2>2
  <2>4. fs = gs
    BY <1>9 DEF pre
  <2> HIDE DEF gs, marker
  <2>5. kept + 1 \in 1..Len(gs) /\ (kept + 1) - 1 = kept /\ kept \in Nat /\ kept <= Len(all) /\ kept <= Len(gs)
    <3>1. Len(all) \in Nat /\ kept \in 0..Len(all) /\ Len(gs) = kept + 1
      BY <1>1, <1>5, <2>2
    <3> HIDE DEF all
    <3> QED
      BY <3>1
  <2>6. Used(gs)[kept] = Used(all)[kept]
    BY <1>3, <2>2, <2>3, <2>5, UsedOfPrefix
  <2>7. Used(gs)[kept + 1] = Used(gs)[kept] + gs[kept + 1].name + gs[kept + 1].value
    BY <2>3, <2>5, UsedSteps
  <2>8. Sum(gs) = Used(all)[kept] + Marker + MarkerValue
    BY <2>2, <2>6, <2>7 DEF Sum, marker
  <2> HIDE DEF fs
  <2> QED
    BY <1>1, <1>5, <1>6, <1>7, <2>2, <2>4, <2>8 DEF FieldLimit, OmissionReserve, Marker, MarkerValue
<1> QED
  BY <1>8, <1>9

\* Whatever a job ends with, its embed is one Discord accepts.
LEMMA EmbedIsAccepted ==
  ASSUME NEW s \in Summaries, NEW d \in Details, payload = Embed(EventTitle, s, d)
  PROVE  EmbedFits
<1> DEFINE title == Clipped(EventTitle, TitleLimit)
           text == Clipped(s, DescriptionLimit)
           budget == Budget(title, text)
           fs == Fields(d, budget)
<1>1. s \in Nat /\ d \in Seq([name : Nat, value : Nat])
  BY SummariesAssumption, DetailsAssumption
<1>2. title \in Nat /\ title <= TitleLimit /\ text \in Nat /\ text <= DescriptionLimit
  <2>1. EventTitle \in Nat /\ TitleLimit \in Nat /\ DescriptionLimit \in Nat
    BY DEF EventTitle, TitleLimit, DescriptionLimit
  <2> QED
    BY <1>1, <2>1, ClippedFits
<1> HIDE DEF title, text
<1>3. budget \in Nat /\ title + text + budget + OmissionReserve = TotalLimit
  BY <1>2 DEF Budget, TitleLimit, DescriptionLimit, TotalLimit, OmissionReserve
<1>4. payload = [title |-> title, text |-> text, fields |-> fs]
  BY DEF Embed, title, text
<1> HIDE DEF budget
<1>5. fs \in Seq(SizedField) /\ Len(fs) <= FieldLimit /\ Sum(fs) \in Int /\ Sum(fs) <= budget + OmissionReserve
  BY <1>1, <1>3, FieldsFit
<1>6. OmissionReserve \in Nat /\ TotalLimit \in Nat
  BY DEF OmissionReserve, TotalLimit
<1> HIDE DEF fs
<1>7. \A f \in ToSet(fs) : f.name \in 1..NameLimit /\ f.value \in 1..ValueLimit
  <2>1. \A f \in ToSet(fs) : f \in SizedField
    <3>1. \A i \in 1..Len(fs) : fs[i] \in SizedField
      BY <1>5, ElementOfSeq
    <3> QED
      BY <1>5, <3>1 DEF ToSet
  <2> QED
    BY <2>1 DEF SizedField
<1>8. payload.title = title /\ payload.text = text /\ payload.fields = fs
  BY <1>4
<1> QED
  BY <1>2, <1>3, <1>5, <1>6, <1>7, <1>8 DEF EmbedFits

(***************************************************************************)
(* The sends and the row they speak of                                     *)
(***************************************************************************)
SendType ==
    [event : {"started", "completed", "failed"}, n : Nat, status : {"ok", "failed"},
     state : {"sending", "gave up", "delivered", "failed", "lost"}, attempt : 0..RetryCount, slept : Nat]

\* The longest wait between two attempts.
Worst == Max({Timeout, Backoff[RetryCount - 1]})

\* A run has at most three sends, so every send has its place in the log.
Places(l) == IF l.at = "idle" THEN 3 * l.n ELSE 3 * l.n - 2

\* A send has slept once for each attempt but the first, never longer than the worst wait.
Rested(s) ==
    /\ s.state = "sending" => s.attempt < RetryCount
    /\ s.attempt = RetryCount => s.slept <= (RetryCount - 1) * Worst
    /\ s.attempt < RetryCount => s.slept <= s.attempt * Worst

\* What a send says is on the row, or the row has moved on.
OnRecord(s) ==
    /\ s.n <= row.started
    /\ s.event # "started" => s.n <= row.finished /\ (s.n = row.finished => s.status = row.status)

NotifyInv ==
    /\ lane \in [at : {"idle", "running", "finished", "recorded"}, n : 0..Runs, status : {"ok", "failed"}]
    /\ row \in [started : Nat, finished : Nat, status : {"ok", "failed"}]
    /\ row.started = lane.n /\ row.finished <= row.started
    /\ lane.at \in {"running", "finished"} => row.finished < lane.n
    /\ lane.at = "recorded" => row.finished = lane.n /\ row.status = lane.status
    /\ sends \in Seq(SendType)
    /\ Len(sends) <= Places(lane)
    /\ log \in [1..(3 * Runs) -> 0..1]
    /\ \A i \in 1..(3 * Runs) : i > Len(sends) => log[i] = 0
    /\ \A i \in DOMAIN sends : OnRecord(sends[i]) /\ Rested(sends[i])
    /\ \A i \in DOMAIN sends : sends[i].state # "failed" => log[i] = 0
    /\ EmbedFits

LEMMA WorstIsWorst ==
  /\ Worst \in Nat /\ Worst >= 1
  /\ Timeout <= Worst
  /\ \A n \in 0..(RetryCount - 1) : Backoff[n] \in Nat /\ Backoff[n] <= Worst
<1>1. RetryCount - 1 \in Nat /\ Timeout \in Nat /\ Timeout >= 1
  BY RetryCountAssumption, TimeoutAssumption
<1>2. Backoff[RetryCount - 1] \in Nat
  BY <1>1, BackoffDoubles
<1> DEFINE b == Backoff[RetryCount - 1]
<1> HIDE DEF b
<1>3. Max({Timeout, b}) \in {Timeout, b} /\ \A y \in {Timeout, b} : Max({Timeout, b}) >= y
  <2>0. b \in Nat
    BY <1>2 DEF b
  <2>1. \E x \in {Timeout, b} : \A y \in {Timeout, b} : x >= y
    <3>1. CASE b <= Timeout
      BY <1>1, <2>0, <3>1
    <3>2. CASE Timeout <= b
      BY <1>1, <2>0, <3>2
    <3> QED
      BY <1>1, <2>0, <3>1, <3>2
  <2> QED
    BY <2>1 DEF Max
<1>4. Worst = Max({Timeout, b})
  BY DEF Worst, b
<1>5. \A n \in 0..(RetryCount - 1) : Backoff[n] \in Nat /\ Backoff[n] <= b
  BY <1>1, BackoffDoubles, BackoffGrows DEF b
<1>6. b \in Nat
  BY <1>2 DEF b
<1> QED
  BY <1>1, <1>3, <1>4, <1>5, <1>6

\* Retrying keeps a send's account, whatever wait within the worst it is told.
LEMMA RetryRests ==
  ASSUME NEW s \in SendType, Rested(s), s.state = "sending", NEW delay \in Nat, delay <= Worst
  PROVE  /\ Retry(s, delay) \in SendType /\ Rested(Retry(s, delay))
         /\ Retry(s, delay).n = s.n /\ Retry(s, delay).event = s.event /\ Retry(s, delay).status = s.status
         /\ Retry(s, delay).state \in {"sending", "gave up"}
<1> DEFINE r == Retry(s, delay)
<1>0. Worst \in Nat /\ RetryCount \in Nat \ {0}
  BY WorstIsWorst, RetryCountAssumption
<1> SUFFICES /\ r \in SendType /\ Rested(r)
             /\ r.n = s.n /\ r.event = s.event /\ r.status = s.status
             /\ r.state \in {"sending", "gave up"}
  OBVIOUS
<1> HIDE DEF r
<1>t. /\ s = [event |-> s.event, n |-> s.n, status |-> s.status, state |-> s.state,
               attempt |-> s.attempt, slept |-> s.slept]
      /\ s.event \in {"started", "completed", "failed"} /\ s.n \in Nat /\ s.status \in {"ok", "failed"}
      /\ s.attempt \in 0..RetryCount /\ s.slept \in Nat
  BY DEF SendType
<1>1. s.attempt \in Nat /\ s.attempt < RetryCount /\ s.slept <= s.attempt * Worst
  BY <1>0, <1>t DEF Rested
<1> DEFINE w == Worst
           t == s.attempt * w
<1>2. t \in Nat /\ (s.attempt + 1) * w = t + w
  BY <1>0, <1>1
<1>3. CASE s.attempt + 1 >= RetryCount
  <2>1. r = [s EXCEPT !.attempt = s.attempt + 1, !.state = "gave up"]
    BY <1>3 DEF r, Retry
  <2>2. r = [event |-> s.event, n |-> s.n, status |-> s.status, state |-> "gave up",
                           attempt |-> s.attempt + 1, slept |-> s.slept]
    BY <1>t, <2>1
  <2>3. s.attempt + 1 = RetryCount /\ s.attempt + 1 \in 0..RetryCount
    BY <1>0, <1>1, <1>3
  <2>4. r \in SendType
    BY <1>t, <2>2, <2>3 DEF SendType
  <2>5. RetryCount - 1 = s.attempt
    BY <1>0, <1>1, <2>3
  <2>6. Rested(r)
    <3>1. r.state = "gave up" /\ r.attempt = s.attempt + 1 /\ r.slept = s.slept
      BY <2>2
    <3> QED
      <4>1. s.slept <= (RetryCount - 1) * Worst
        BY <1>1, <2>5
      <4>2. r.attempt = RetryCount /\ r.state # "sending"
        BY <2>3, <3>1
      <4>3. ~(RetryCount < RetryCount)
        BY <1>0
      <4> QED
        BY <3>1, <4>1, <4>2, <4>3 DEF Rested
  <2>8. r.n = s.n /\ r.event = s.event /\ r.status = s.status /\ r.state \in {"sending", "gave up"}
    BY <2>2
  <2> QED
    BY <2>4, <2>6, <2>8
<1>4. CASE s.attempt + 1 < RetryCount
  <2>1. r = [s EXCEPT !.attempt = s.attempt + 1, !.slept = s.slept + delay]
    BY <1>0, <1>1, <1>4 DEF r, Retry
  <2>2. r = [event |-> s.event, n |-> s.n, status |-> s.status, state |-> "sending",
                           attempt |-> s.attempt + 1, slept |-> s.slept + delay]
    BY <1>t, <2>1
  <2>3. s.slept + delay <= t + w
    <3>1. s.slept <= t /\ delay <= w /\ w \in Nat
      BY <1>0, <1>1
    <3> HIDE DEF t, w
    <3> QED
      BY <1>t, <1>2, <3>1
  <2>4. s.slept + delay <= (s.attempt + 1) * Worst
    BY <1>2, <2>3
  <2>5. s.attempt + 1 \in 0..RetryCount /\ s.slept + delay \in Nat
    BY <1>0, <1>t, <1>1, <1>4
  <2>6. r \in SendType
    BY <1>t, <2>2, <2>5 DEF SendType
  <2>7. Rested(r)
    <3>1. r.attempt = s.attempt + 1 /\ r.slept = s.slept + delay
      BY <2>2
    <3>2. r.attempt # RetryCount /\ r.attempt < RetryCount
      BY <1>0, <1>1, <1>4, <3>1
    <3> QED
      BY <2>4, <3>1, <3>2 DEF Rested
  <2>8. r.n = s.n /\ r.event = s.event /\ r.status = s.status /\ r.state \in {"sending", "gave up"}
    BY <2>2
  <2> QED
    BY <2>6, <2>7, <2>8
<1> QED
  <2>1. s.attempt \in Nat /\ RetryCount \in Nat
    BY <1>0, <1>1
  <2>2. s.attempt + 1 >= RetryCount \/ s.attempt + 1 < RetryCount
    BY <2>1
  <2> QED
    BY <1>3, <1>4, <2>2

\* The sends there may be, and where each is logged.
LEMMA PlacesInLog ==
  ASSUME NotifyInv
  PROVE  /\ lane.n \in Nat /\ lane.n <= Runs /\ Len(sends) \in Nat /\ DOMAIN sends = 1..Len(sends)
         /\ Places(lane) <= 3 * Runs
         /\ \A i \in DOMAIN sends : i \in 1..(3 * Runs) /\ sends[i] \in SendType
<1>1. lane.n \in Nat /\ lane.n <= Runs /\ Len(sends) \in Nat /\ DOMAIN sends = 1..Len(sends) /\ Runs \in Nat
  BY RunsAssumption DEF NotifyInv
<1>2. Places(lane) <= 3 * Runs /\ Places(lane) \in Int
  BY <1>1 DEF Places
<1>3. \A i \in DOMAIN sends : sends[i] \in SendType
  BY <1>1, ElementOfSeq DEF NotifyInv
<1>4. Len(sends) <= 3 * Runs
  BY <1>1, <1>2 DEF NotifyInv
<1> QED
  BY <1>1, <1>2, <1>3, <1>4

\* A send that goes on under its own name keeps the account.
LEMMA PutKeeps ==
  ASSUME NotifyInv, NEW i \in DOMAIN sends, NEW t \in SendType, Rested(t), Put(i, t),
         t.n = sends[i].n, t.event = sends[i].event, t.status = sends[i].status,
         UNCHANGED <<lane, row, payload>>,
         log[i] = 0,
         log' = log \/ (t.state = "failed" /\ log' = [log EXCEPT ![i] = @ + 1])
  PROVE  NotifyInv'
<1> USE PlacesInLog
<1>1. sends' = [sends EXCEPT ![i] = t]
  BY DEF Put
<1>2. sends' \in Seq(SendType) /\ Len(sends') = Len(sends) /\ DOMAIN sends' = DOMAIN sends
      /\ sends'[i] = t /\ \A j \in DOMAIN sends \ {i} : sends'[j] = sends[j]
  BY <1>1 DEF NotifyInv
<1>3. OnRecord(t)
  BY DEF NotifyInv, OnRecord
<1>4. (\A j \in DOMAIN sends : OnRecord(sends[j]) /\ Rested(sends[j]))'
  <2>1. \A j \in DOMAIN sends' : OnRecord(sends'[j]) /\ Rested(sends'[j])
    BY <1>2, <1>3 DEF NotifyInv
  <2> QED
    BY <2>1 DEF OnRecord, Rested, Worst
<1>5. i \in 1..(3 * Runs) /\ ~(i > Len(sends))
  OBVIOUS
<1>6. log' \in [1..(3 * Runs) -> 0..1] /\ \A j \in 1..(3 * Runs) : j # i => log'[j] = log[j]
  <2>0. log \in [1..(3 * Runs) -> 0..1]
    BY DEF NotifyInv
  <2>1. CASE log' = log
    BY <2>0, <2>1
  <2>2. CASE log' = [log EXCEPT ![i] = @ + 1]
    <3>1. log[i] + 1 \in 0..1
      OBVIOUS
    <3> QED
      BY <1>5, <2>0, <2>2, <3>1
  <2> QED
    BY <2>1, <2>2
<1>7. \A j \in 1..(3 * Runs) : j > Len(sends') => log'[j] = 0
  BY <1>2, <1>5, <1>6 DEF NotifyInv
<1>8. \A j \in DOMAIN sends' : sends'[j].state # "failed" => log'[j] = 0
  BY <1>2, <1>5, <1>6 DEF NotifyInv
<1>9. lane' = lane /\ row' = row /\ EmbedFits'
  BY DEF NotifyInv, EmbedFits
<1> QED
  BY <1>2, <1>4, <1>6, <1>7, <1>8, <1>9 DEF NotifyInv, Places

\* New sends join behind those there are.
LEMMA SendsJoin ==
  ASSUME NotifyInv, NEW ts \in Seq(SendType), sends' = sends \o ts,
         \A k \in DOMAIN ts : ts[k].state = "sending" /\ Rested(ts[k])
  PROVE  /\ sends' \in Seq(SendType) /\ Len(sends') = Len(sends) + Len(ts)
         /\ \A j \in DOMAIN sends' : (j \in DOMAIN sends /\ sends'[j] = sends[j])
               \/ (j > Len(sends) /\ \E k \in DOMAIN ts : sends'[j] = ts[k])
         /\ \A j \in DOMAIN sends' : Rested(sends'[j])
<1>1. sends \in Seq(SendType) /\ Len(sends) \in Nat /\ Len(ts) \in Nat
  BY DEF NotifyInv
<1>2. sends' \in Seq(SendType) /\ Len(sends') = Len(sends) + Len(ts)
  BY <1>1
<1>3. ASSUME NEW j \in DOMAIN sends'
      PROVE  (j \in DOMAIN sends /\ sends'[j] = sends[j])
               \/ (j > Len(sends) /\ \E k \in DOMAIN ts : sends'[j] = ts[k])
  <2>1. CASE j <= Len(sends)
    <3>1. j \in DOMAIN sends
      BY <1>1, <1>2, <2>1
    <3>2. (sends \o ts)[j] = sends[j]
      BY <1>1, <3>1
    <3>3. sends'[j] = sends[j]
      BY <3>2
    <3> QED
      BY <3>1, <3>3
  <2>2. CASE j > Len(sends)
    <3>1. j - Len(sends) \in DOMAIN ts /\ sends'[j] = ts[j - Len(sends)]
      BY <1>1, <1>2, <2>2
    <3> QED
      BY <2>2, <3>1
  <2> QED
    BY <1>1, <1>2, <2>1, <2>2
<1> QED
  BY <1>2, <1>3 DEF NotifyInv

LEMMA NewSendRests ==
  ASSUME NEW e \in {"started", "completed", "failed"}, NEW n \in Nat, NEW st \in {"ok", "failed"}
  PROVE  /\ NewSend(e, n, st) \in SendType /\ Rested(NewSend(e, n, st))
         /\ NewSend(e, n, st).state = "sending"
         /\ NewSend(e, n, st).n = n /\ NewSend(e, n, st).event = e /\ NewSend(e, n, st).status = st
<1> DEFINE x == NewSend(e, n, st)
<1>1. x = [event |-> e, n |-> n, status |-> st, state |-> "sending", attempt |-> 0, slept |-> 0]
  BY DEF NewSend
<1>2. RetryCount \in Nat \ {0} /\ Worst \in Nat /\ 0 * Worst = 0
  BY RetryCountAssumption, WorstIsWorst
<1> SUFFICES x \in SendType /\ Rested(x) /\ x.state = "sending" /\ x.n = n /\ x.event = e /\ x.status = st
  OBVIOUS
<1> HIDE DEF x
<1>3. x.attempt = 0 /\ x.slept = 0 /\ x.state = "sending" /\ x.n = n /\ x.event = e /\ x.status = st
  BY <1>1
<1>4. 0 < RetryCount /\ 0 # RetryCount /\ 0 \in 0..RetryCount
  BY <1>2
<1>5. x \in SendType
  BY <1>1, <1>4 DEF SendType
<1>6. Rested(x)
  BY <1>2, <1>3, <1>4 DEF Rested
<1> QED
  BY <1>3, <1>5, <1>6

LEMMA NotifyStarts == NotifyInit => NotifyInv
<1> SUFFICES ASSUME NotifyInit PROVE NotifyInv
  OBVIOUS
<1>1. EmbedFits
  BY EmbedIsAccepted DEF NotifyInit
<1>2. sends = <<>> /\ sends \in Seq(SendType) /\ Len(sends) = 0 /\ DOMAIN sends = {}
  BY DEF NotifyInit
<1>3. lane.at = "idle" /\ lane.n = 0 /\ Places(lane) = 0
      /\ lane \in [at : {"idle", "running", "finished", "recorded"}, n : 0..Runs, status : {"ok", "failed"}]
  BY RunsAssumption DEF NotifyInit, Places
<1>4. row \in [started : Nat, finished : Nat, status : {"ok", "failed"}] /\ row.started = 0 /\ row.finished = 0
  BY DEF NotifyInit
<1>5. log \in [1..(3 * Runs) -> 0..1] /\ \A i \in 1..(3 * Runs) : log[i] = 0
  BY DEF NotifyInit
<1> QED
  BY <1>1, <1>2, <1>3, <1>4, <1>5 DEF NotifyInv

\* A wait between attempts is the backoff or what the server asks for, up to the timeout.
LEMMA DelaysAreBounded ==
  ASSUME NotifyInv, NEW i \in DOMAIN sends, sends[i].state = "sending"
  PROVE  /\ Backoff[sends[i].attempt] \in Nat /\ Backoff[sends[i].attempt] <= Worst
         /\ \A asked \in RetryAfters :
               /\ RetryAfter(asked, Backoff[sends[i].attempt]) \in Nat
               /\ RetryAfter(asked, Backoff[sends[i].attempt]) <= Worst
<1>1. sends[i].attempt \in 0..RetryCount /\ sends[i].attempt < RetryCount
  BY PlacesInLog DEF NotifyInv, Rested, SendType
<1>2. sends[i].attempt \in 0..(RetryCount - 1)
  BY <1>1, RetryCountAssumption
<1> DEFINE b == Backoff[sends[i].attempt]
<1>3. b \in Nat /\ b <= Worst /\ Worst \in Nat /\ Timeout <= Worst
  BY <1>2, WorstIsWorst
<1> HIDE DEF b
<1>4. ASSUME NEW asked \in RetryAfters
      PROVE  RetryAfter(asked, b) \in Nat /\ RetryAfter(asked, b) <= Worst
  <2>1. CASE asked <= 0
    BY <1>3, <2>1 DEF RetryAfter
  <2>2. CASE ~(asked <= 0)
    <3>1. asked \in Nat /\ Timeout \in Nat
      BY <2>2, RetryAftersAssumption, TimeoutAssumption
    <3>2. Clipped(asked, Timeout) \in Nat /\ Clipped(asked, Timeout) <= Timeout
      BY <3>1, ClippedFits
    <3>3. RetryAfter(asked, b) = Clipped(asked, Timeout)
      BY <2>2 DEF RetryAfter, Clipped
    <3> QED
      BY <1>3, <3>1, <3>2, <3>3
  <2> QED
    BY <2>1, <2>2
<1> QED
  BY <1>3, <1>4 DEF b

LEMMA AnswersKeep ==
  ASSUME NotifyInv, NEW i \in DOMAIN sends, Answered(i)
  PROVE  NotifyInv'
<1> DEFINE s == sends[i]
<1>1. s \in SendType /\ Rested(s) /\ (s.state # "failed" => log[i] = 0)
  BY PlacesInLog DEF NotifyInv
<1> HIDE DEF s
<1>2. ASSUME NEW st \in {"delivered", "failed"}
      PROVE  LET t == [s EXCEPT !.state = st]
             IN  t \in SendType /\ Rested(t) /\ t.n = s.n /\ t.event = s.event /\ t.status = s.status
                 /\ t.state = st
  BY <1>1 DEF SendType, Rested
<1>3. ASSUME NEW d \in Nat, d <= Worst, s.state = "sending", Put(i, Retry(s, d)),
             UNCHANGED <<lane, row, log, payload>>
      PROVE  NotifyInv'
  <2> DEFINE t == Retry(s, d)
  <2>1. t \in SendType /\ Rested(t) /\ t.n = s.n /\ t.event = s.event /\ t.status = s.status
    BY <1>1, <1>3, RetryRests
  <2> HIDE DEF t
  <2>2. Put(i, t)
    BY <1>3 DEF t
  <2>3. /\ log' = log /\ log[i] = 0 /\ UNCHANGED <<lane, row, payload>>
        /\ t.n = sends[i].n /\ t.event = sends[i].event /\ t.status = sends[i].status
    BY <1>1, <1>3, <2>1 DEF s
  <2> QED
    BY <2>1, <2>2, <2>3, PutKeeps
<1>4. CASE Delivered(i)
  <2> DEFINE t == [s EXCEPT !.state = "delivered"]
  <2>1. t \in SendType /\ Rested(t) /\ t.n = s.n /\ t.event = s.event /\ t.status = s.status
    BY <1>2
  <2>2. Put(i, t) /\ s.state = "sending" /\ UNCHANGED <<lane, row, log, payload>>
    BY <1>4 DEF Delivered, s
  <2> HIDE DEF t
  <2>3. /\ log' = log /\ log[i] = 0 /\ UNCHANGED <<lane, row, payload>>
        /\ t.n = sends[i].n /\ t.event = sends[i].event /\ t.status = sends[i].status
    BY <1>1, <2>1, <2>2 DEF s
  <2> QED
    BY <2>1, <2>2, <2>3, PutKeeps
<1>5. CASE TransportError(i) \/ ServerError(i)
  <2>1. s.state = "sending" /\ Put(i, Retry(s, Backoff[s.attempt])) /\ UNCHANGED <<lane, row, log, payload>>
    BY <1>5 DEF TransportError, ServerError, s
  <2>2. Backoff[s.attempt] \in Nat /\ Backoff[s.attempt] <= Worst
    BY <2>1, DelaysAreBounded DEF s
  <2> QED
    BY <1>3, <2>1, <2>2
<1>6. CASE TooManyRequests(i)
  <2>1. PICK asked \in RetryAfters : Put(i, Retry(s, RetryAfter(asked, Backoff[s.attempt])))
    BY <1>6 DEF TooManyRequests, s
  <2>2. s.state = "sending" /\ UNCHANGED <<lane, row, log, payload>>
    BY <1>6 DEF TooManyRequests, s
  <2>3. RetryAfter(asked, Backoff[s.attempt]) \in Nat /\ RetryAfter(asked, Backoff[s.attempt]) <= Worst
    BY <2>2, DelaysAreBounded DEF s
  <2> QED
    BY <1>3, <2>1, <2>2, <2>3
<1>7. CASE Refused(i)
  <2> DEFINE t == [s EXCEPT !.attempt = s.attempt + 1, !.state = "gave up"]
  <2>1. s.state = "sending" /\ Put(i, t) /\ UNCHANGED <<lane, row, log, payload>>
    BY <1>7 DEF Refused, s
  <2>2. Worst \in Nat /\ RetryCount \in Nat \ {0}
    BY WorstIsWorst, RetryCountAssumption
  <2>3. s.attempt \in Nat /\ s.attempt < RetryCount /\ s.slept \in Nat /\ s.slept <= s.attempt * Worst
    <3>1. s.attempt \in 0..RetryCount /\ s.slept \in Nat
      BY <1>1 DEF SendType
    <3> QED
      BY <1>1, <2>1, <2>2, <3>1 DEF Rested
  <2>a. t = [s EXCEPT !.attempt = s.attempt + 1, !.state = "gave up"]
    OBVIOUS
  <2> HIDE DEF t
  <2>4. t = [event |-> s.event, n |-> s.n, status |-> s.status, state |-> "gave up",
             attempt |-> s.attempt + 1, slept |-> s.slept]
    <3>1. /\ s = [event |-> s.event, n |-> s.n, status |-> s.status, state |-> s.state,
                  attempt |-> s.attempt, slept |-> s.slept]
          /\ s.attempt \in 0..RetryCount
      BY <1>1 DEF SendType
    <3> QED
      BY <2>a, <3>1
  <2>5. t.state = "gave up" /\ t.attempt = s.attempt + 1 /\ t.slept = s.slept
        /\ t.n = s.n /\ t.event = s.event /\ t.status = s.status
    BY <2>4
  <2>6. t \in SendType
    <3>1. s.attempt + 1 \in 0..RetryCount
      BY <2>2, <2>3
    <3>2. s.event \in {"started", "completed", "failed"} /\ s.n \in Nat /\ s.status \in {"ok", "failed"}
      BY <1>1 DEF SendType
    <3> QED
      BY <2>3, <2>4, <3>1, <3>2 DEF SendType
  <2>7. Rested(t)
    <3>1. s.slept <= (s.attempt + 1) * Worst
      <4>1. (s.attempt + 1) * Worst = s.attempt * Worst + Worst /\ s.attempt * Worst \in Nat
        BY <2>2, <2>3
      <4> QED
        BY <2>2, <2>3, <4>1
    <3>2. s.attempt + 1 = RetryCount => RetryCount - 1 = s.attempt
      BY <2>2, <2>3
    <3>3. s.attempt + 1 = RetryCount => s.slept <= (RetryCount - 1) * Worst
      BY <2>3, <3>2
    <3> QED
      BY <2>5, <3>1, <3>3 DEF Rested
  <2>8. /\ log' = log /\ log[i] = 0 /\ UNCHANGED <<lane, row, payload>>
        /\ t.n = sends[i].n /\ t.event = sends[i].event /\ t.status = sends[i].status
    BY <1>1, <2>1, <2>5 DEF s
  <2> QED
    BY <2>1, <2>6, <2>7, <2>8, PutKeeps
<1>8. CASE RecordFailure(i)
  <2> DEFINE t == [s EXCEPT !.state = "failed"]
  <2>1. t \in SendType /\ Rested(t) /\ t.n = s.n /\ t.event = s.event /\ t.status = s.status /\ t.state = "failed"
    BY <1>2
  <2>2. Put(i, t) /\ s.state = "gave up" /\ UNCHANGED <<lane, row, payload>>
    BY <1>8 DEF RecordFailure, s
  <2>3. log' = [log EXCEPT ![i] = @ + 1] \/ log' = log
    BY <1>8 DEF RecordFailure, RowsFor
  <2> HIDE DEF t
  <2>4. /\ log[i] = 0 /\ UNCHANGED <<lane, row, payload>>
        /\ t.n = sends[i].n /\ t.event = sends[i].event /\ t.status = sends[i].status
    BY <1>1, <2>1, <2>2 DEF s
  <2> QED
    BY <2>1, <2>2, <2>3, <2>4, PutKeeps
<1> QED
  BY <1>4, <1>5, <1>6, <1>7, <1>8 DEF Answered

LaneType == [at : {"idle", "running", "finished", "recorded"}, n : 0..Runs, status : {"ok", "failed"}]
RunType == [started : Nat, finished : Nat, status : {"ok", "failed"}]

\* A step of the lane leaves log and embed alone, and every send there was stays.
LEMMA LaneKeeps ==
  ASSUME NotifyInv, lane' \in LaneType, row' \in RunType, row'.started = lane'.n, row'.finished <= row'.started,
         lane'.at \in {"running", "finished"} => row'.finished < lane'.n,
         lane'.at = "recorded" => row'.finished = lane'.n /\ row'.status = lane'.status,
         NEW ts \in Seq(SendType), sends' = sends \o ts,
         \A k \in DOMAIN ts : ts[k].state = "sending" /\ Rested(ts[k]),
         (\A j \in DOMAIN sends : OnRecord(sends[j]))', Len(sends) + Len(ts) <= Places(lane'),
         UNCHANGED <<log, payload>>
  PROVE  NotifyInv'
<1>1. /\ sends' \in Seq(SendType) /\ Len(sends') = Len(sends) + Len(ts)
      /\ \A j \in DOMAIN sends' : (j \in DOMAIN sends /\ sends'[j] = sends[j])
               \/ (j > Len(sends) /\ \E k \in DOMAIN ts : sends'[j] = ts[k])
      /\ \A j \in DOMAIN sends' : Rested(sends'[j])
  BY SendsJoin
<1>2. Len(sends) \in Nat /\ Len(ts) \in Nat /\ DOMAIN sends = 1..Len(sends)
      /\ lane'.n \in Nat /\ lane'.n <= Runs /\ Runs \in Nat
  BY RunsAssumption DEF NotifyInv, LaneType
<1>3. Len(sends') <= Places(lane)'
  BY <1>1 DEF Places
<1>4. \A j \in DOMAIN sends' : sends'[j].state # "failed" => log'[j] = 0
  <2> SUFFICES ASSUME NEW j \in DOMAIN sends', sends'[j].state # "failed" PROVE log[j] = 0
    OBVIOUS
  <2>1. CASE j \in DOMAIN sends /\ sends'[j] = sends[j]
    BY <2>1 DEF NotifyInv
  <2>2. CASE j > Len(sends)
    <3>1. Places(lane') <= 3 * Runs /\ Places(lane') \in Int
      BY <1>2 DEF Places
    <3>2. j \in 1..Len(sends') /\ Len(sends') <= Places(lane')
      BY <1>1
    <3>3. Len(sends') \in Nat
      BY <1>1, <1>2
    <3>4. j \in 1..(3 * Runs)
      BY <1>2, <3>1, <3>2, <3>3
    <3> QED
      BY <2>2, <3>4 DEF NotifyInv
  <2> QED
    BY <1>1, <2>1, <2>2
<1>5. \A i \in 1..(3 * Runs) : i > Len(sends') => log'[i] = 0
  BY <1>1, <1>2 DEF NotifyInv
<1>6. (\A j \in DOMAIN sends : Rested(sends[j]))'
  BY <1>1
<1>7. EmbedFits'
  BY DEF NotifyInv, EmbedFits
<1>8. log' \in [1..(3 * Runs) -> 0..1]
  BY DEF NotifyInv
<1> QED
  BY <1>1, <1>3, <1>4, <1>5, <1>6, <1>7, <1>8 DEF NotifyInv, LaneType, RunType

LEMMA LaneFacts ==
  ASSUME NotifyInv
  PROVE  /\ lane = [at |-> lane.at, n |-> lane.n, status |-> lane.status]
         /\ lane.n \in 0..Runs /\ lane.n \in Nat /\ Runs \in Nat /\ lane.status \in {"ok", "failed"}
         /\ row = [started |-> row.started, finished |-> row.finished, status |-> row.status]
         /\ row.started = lane.n /\ row.finished \in Nat /\ row.finished <= lane.n /\ row.status \in {"ok", "failed"}
         /\ sends \in Seq(SendType) /\ sends = sends \o <<>> /\ Len(sends) \in Nat /\ Len(sends) <= Places(lane)
BY RunsAssumption DEF NotifyInv

LEMMA ClaimKeeps ==
  ASSUME NotifyInv, Claim
  PROVE  NotifyInv'
<1> USE LaneFacts
<1> DEFINE x == NewSend("started", lane.n + 1, "ok")
<1>1. lane' = [at |-> "running", n |-> lane.n + 1, status |-> "ok"] /\ lane.n < Runs /\ lane.at = "idle"
      /\ row' = [started |-> lane.n + 1, finished |-> row.finished, status |-> row.status]
      /\ sends' = Append(sends, x) /\ UNCHANGED <<log, payload>>
  BY DEF Claim
<1>2. lane' \in LaneType /\ row' \in RunType
  BY <1>1 DEF LaneType, RunType
<1>3. x \in SendType /\ Rested(x) /\ x.state = "sending" /\ x.n = lane.n + 1 /\ x.event = "started"
  BY NewSendRests
<1> HIDE DEF x
<1>4. <<x>> \in Seq(SendType) /\ sends' = sends \o <<x>> /\ Len(<<x>>) = 1
      /\ \A k \in DOMAIN <<x>> : <<x>>[k] = x
  BY <1>1, <1>3
<1>5. (\A j \in DOMAIN sends : OnRecord(sends[j]))'
  <2> SUFFICES ASSUME NEW j \in DOMAIN sends' PROVE OnRecord(sends[j])'
    OBVIOUS
  <2>1. CASE j \in DOMAIN sends /\ sends'[j] = sends[j]
    <3>1. OnRecord(sends[j]) /\ sends[j].n \in Nat
      BY <2>1, PlacesInLog DEF NotifyInv, SendType
    <3> QED
      BY <1>1, <2>1, <3>1 DEF OnRecord
  <2>2. CASE sends'[j] = x
    BY <1>1, <1>3, <2>2 DEF OnRecord
  <2> QED
    BY <1>3, <1>4, <2>1, <2>2, SendsJoin
<1>6. Len(sends) + 1 <= Places(lane')
  BY <1>1 DEF Places
<1>7. row'.started = lane'.n /\ row'.finished <= row'.started /\ lane'.at = "running" /\ row'.finished < lane'.n
  BY <1>1
<1> QED
  BY <1>1, <1>2, <1>3, <1>4, <1>5, <1>6, <1>7, LaneKeeps

\* Steps that start no send.
LEMMA QuietKeeps ==
  ASSUME NotifyInv,
         (\E status \in {"ok", "failed"} : Finish(status)) \/ Record \/ RecordFails
  PROVE  NotifyInv'
<1> USE LaneFacts
<1>1. sends' = sends \o <<>> /\ <<>> \in Seq(SendType) /\ Len(<<>>) = 0 /\ DOMAIN <<>> = {} /\ UNCHANGED <<sends, log, payload>>
  BY DEF Finish, Record, RecordFails
<1>2. ASSUME NEW j \in DOMAIN sends PROVE OnRecord(sends[j]) /\ sends[j].n \in Nat /\ sends[j].n <= row.started
  BY PlacesInLog DEF NotifyInv, OnRecord, SendType
<1>3. CASE \E status \in {"ok", "failed"} : Finish(status)
  <2>1. PICK status \in {"ok", "failed"} : Finish(status)
    BY <1>3
  <2>2. lane' = [at |-> "finished", n |-> lane.n, status |-> status] /\ row' = row /\ lane.at = "running"
    BY <2>1 DEF Finish
  <2>3. lane' \in LaneType /\ row' \in RunType
    BY <2>2 DEF LaneType, RunType
  <2>4. row.finished < lane.n
    BY <2>2 DEF NotifyInv
  <2>5. (\A j \in DOMAIN sends : OnRecord(sends[j]))'
    BY <1>1, <1>2, <2>2 DEF OnRecord
  <2>6. Len(sends) + 0 <= Places(lane')
    BY <2>2 DEF Places
  <2>7. row'.started = lane'.n /\ row'.finished <= row'.started /\ lane'.at = "finished" /\ row'.finished < lane'.n
    BY <2>2, <2>4
  <2> QED
    BY <1>1, <2>3, <2>5, <2>6, <2>7, LaneKeeps
<1>4. CASE Record
  <2>1. lane' = [at |-> "recorded", n |-> lane.n, status |-> lane.status] /\ lane.at = "finished"
        /\ row' = [started |-> row.started, finished |-> lane.n, status |-> lane.status]
    BY <1>4 DEF Record
  <2>2. lane' \in LaneType /\ row' \in RunType
    BY <2>1 DEF LaneType, RunType
  <2>3. row.finished < lane.n
    BY <2>1 DEF NotifyInv
  <2>4. (\A j \in DOMAIN sends : OnRecord(sends[j]))'
    <3> SUFFICES ASSUME NEW j \in DOMAIN sends PROVE OnRecord(sends[j])'
      BY <1>1
    <3> QED
      BY <1>1, <1>2, <2>1, <2>3 DEF OnRecord
  <2>5. Len(sends) + 0 <= Places(lane')
    BY <2>1 DEF Places
  <2>6. row'.started = lane'.n /\ row'.finished <= row'.started /\ lane'.at = "recorded" /\ row'.finished = lane'.n
        /\ row'.status = lane'.status
    BY <2>1
  <2> QED
    BY <1>1, <2>2, <2>4, <2>5, <2>6, LaneKeeps
<1>5. CASE RecordFails
  <2>1. lane' = [at |-> "idle", n |-> lane.n, status |-> lane.status] /\ row' = row /\ lane.at = "finished"
    BY <1>5 DEF RecordFails
  <2>2. lane' \in LaneType /\ row' \in RunType
    BY <2>1 DEF LaneType, RunType
  <2>3. (\A j \in DOMAIN sends : OnRecord(sends[j]))'
    BY <1>1, <1>2, <2>1 DEF OnRecord
  <2>4. Len(sends) + 0 <= Places(lane')
    BY <2>1 DEF Places
  <2>5. row'.started = lane'.n /\ row'.finished <= row'.started /\ lane'.at = "idle"
    BY <2>1
  <2> QED
    BY <1>1, <2>2, <2>3, <2>4, <2>5, LaneKeeps
<1> QED
  BY <1>3, <1>4, <1>5

\* What is announced of the end is what the row says.
LEMMA AnnounceKeeps ==
  ASSUME NotifyInv, Announce
  PROVE  NotifyInv'
<1> USE LaneFacts
<1> DEFINE x == NewSend("completed", lane.n, lane.status)
           y == NewSend("failed", lane.n, lane.status)
           ts == IF lane.status = "failed" THEN <<x, y>> ELSE <<x>>
<1>1. lane' = [at |-> "idle", n |-> lane.n, status |-> lane.status] /\ lane.at = "recorded" /\ row' = row
      /\ UNCHANGED <<log, payload>>
  BY DEF Announce, Announceable
<1>2. sends' = Append(sends, x) \o (IF lane.status = "failed" THEN <<y>> ELSE <<>>)
  BY DEF Announce
<1>3. /\ x \in SendType /\ Rested(x) /\ x.state = "sending" /\ x.n = lane.n /\ x.status = lane.status
      /\ y \in SendType /\ Rested(y) /\ y.state = "sending" /\ y.n = lane.n /\ y.status = lane.status
  BY NewSendRests
<1> HIDE DEF x, y
<1>4. ts \in Seq(SendType) /\ sends' = sends \o ts /\ Len(ts) <= 2 /\ Len(ts) \in Nat /\ \A k \in DOMAIN ts : ts[k] \in {x, y}
  <2>1. CASE lane.status = "failed"
    <3>1. ts = <<x, y>>
      BY <2>1
    <3>2. sends' = sends \o <<x, y>>
      BY <1>2, <1>3, <2>1
    <3> HIDE DEF ts
    <3> QED
      BY <1>3, <3>1, <3>2
  <2>2. CASE lane.status # "failed"
    <3>1. ts = <<x>>
      BY <2>2
    <3>2. sends' = sends \o <<x>>
      BY <1>2, <1>3, <2>2
    <3> HIDE DEF ts
    <3> QED
      BY <1>3, <3>1, <3>2
  <2> QED
    BY <2>1, <2>2
<1> HIDE DEF ts
<1>5. row.finished = lane.n /\ row.status = lane.status
  BY <1>1 DEF NotifyInv
<1>6. (\A j \in DOMAIN sends : OnRecord(sends[j]))'
  <2> SUFFICES ASSUME NEW j \in DOMAIN sends' PROVE OnRecord(sends[j])'
    OBVIOUS
  <2>1. CASE j \in DOMAIN sends /\ sends'[j] = sends[j]
    BY <1>1, <2>1 DEF NotifyInv, OnRecord
  <2>2. CASE sends'[j] \in {x, y}
    <3>1. sends'[j].n = lane.n /\ sends'[j].status = lane.status
      BY <1>3, <2>2
    <3> QED
      BY <1>1, <1>5, <3>1 DEF OnRecord
  <2>3. \A k \in DOMAIN ts : ts[k].state = "sending" /\ Rested(ts[k])
    BY <1>3, <1>4
  <2> QED
    BY <1>4, <2>1, <2>2, <2>3, SendsJoin
<1>7. \A k \in DOMAIN ts : ts[k].state = "sending" /\ Rested(ts[k])
  BY <1>3, <1>4
<1>8. Len(sends) + Len(ts) <= Places(lane')
  BY <1>1, <1>4 DEF Places
<1>9. lane' \in LaneType /\ row' \in RunType /\ row'.started = lane'.n /\ row'.finished <= row'.started /\ lane'.at = "idle"
  BY <1>1 DEF LaneType, RunType
<1> QED
  BY <1>1, <1>4, <1>6, <1>7, <1>8, <1>9, LaneKeeps

\* The process dies: what was under way is lost, and the log stays.
LEMMA CrashKeeps ==
  ASSUME NotifyInv, Crash
  PROVE  NotifyInv'
<1> USE LaneFacts, PlacesInLog
<1> DEFINE Lost(i) == IF sends[i].state \in {"sending", "gave up"} THEN [sends[i] EXCEPT !.state = "lost"]
                      ELSE sends[i]
<1>1. lane' = [at |-> "idle", n |-> lane.n, status |-> lane.status] /\ row' = row /\ log' = log /\ payload' = payload
  BY DEF Crash
<1>2. sends' = [i \in DOMAIN sends |-> Lost(i)]
  BY DEF Crash
<1>3. ASSUME NEW i \in DOMAIN sends
      PROVE  /\ Lost(i) \in SendType /\ Rested(Lost(i)) /\ Lost(i).n = sends[i].n /\ Lost(i).event = sends[i].event
             /\ Lost(i).status = sends[i].status
             /\ Lost(i).state # "failed" => sends[i].state # "failed"
  <2>1. CASE sends[i].state \in {"sending", "gave up"}
    <3> DEFINE s == sends[i]
               t == Lost(i)
    <3>1. s \in SendType /\ Rested(s) /\ s.state # "failed"
      BY <2>1 DEF NotifyInv
    <3>2. t = [s EXCEPT !.state = "lost"]
      BY <2>1
    <3> SUFFICES t \in SendType /\ Rested(t) /\ t.n = s.n /\ t.event = s.event /\ t.status = s.status /\ s.state # "failed"
      OBVIOUS
    <3> HIDE DEF s, t
    <3>3. t = [event |-> s.event, n |-> s.n, status |-> s.status, state |-> "lost", attempt |-> s.attempt, slept |-> s.slept]
      BY <3>1, <3>2 DEF SendType
    <3>4. t \in SendType /\ t.n = s.n /\ t.event = s.event /\ t.status = s.status
      BY <3>1, <3>3 DEF SendType
    <3>5. t.state = "lost" /\ t.attempt = s.attempt /\ t.slept = s.slept
      BY <3>3
    <3>6. Rested(t)
      BY <3>1, <3>5 DEF Rested
    <3> QED
      BY <3>1, <3>4, <3>6
  <2>2. CASE sends[i].state \notin {"sending", "gave up"}
    <3>1. Lost(i) = sends[i]
      BY <2>2
    <3> QED
      BY <3>1 DEF NotifyInv
  <2> QED
    BY <2>1, <2>2
<1> HIDE DEF Lost
<1>4. sends' \in Seq(SendType) /\ Len(sends') = Len(sends) /\ DOMAIN sends' = DOMAIN sends
      /\ \A i \in DOMAIN sends : sends'[i] = Lost(i)
  <2>1. sends' = [i \in 1..Len(sends) |-> Lost(i)] /\ \A i \in 1..Len(sends) : Lost(i) \in SendType
    BY <1>2, <1>3
  <2> QED
    BY <2>1
<1>5. (\A j \in DOMAIN sends : OnRecord(sends[j]))'
  <2> SUFFICES ASSUME NEW j \in DOMAIN sends PROVE OnRecord(sends[j])'
    BY <1>4
  <2>1. OnRecord(sends[j])
    BY DEF NotifyInv
  <2> QED
    BY <1>1, <1>3, <1>4, <2>1 DEF OnRecord
<1>6. (\A j \in DOMAIN sends : Rested(sends[j]))'
  <2>1. \A j \in DOMAIN sends' : Rested(sends'[j])
    BY <1>3, <1>4
  <2> QED
    BY <2>1 DEF Rested, Worst
<1>7. \A j \in DOMAIN sends' : sends'[j].state # "failed" => log'[j] = 0
  BY <1>1, <1>3, <1>4 DEF NotifyInv
<1>8. Len(sends') <= Places(lane)'
  <2>1. Places(lane') = 3 * lane.n
    BY <1>1 DEF Places
  <2>2. Places(lane) \in {3 * lane.n, 3 * lane.n - 2}
    BY DEF Places
  <2>3. Places(lane)' = Places(lane')
    BY DEF Places
  <2> QED
    BY <1>4, <2>1, <2>2, <2>3
<1>9. lane' \in LaneType /\ lane'.at = "idle" /\ lane'.n = lane.n
  BY <1>1 DEF LaneType
<1> QED
  BY <1>1, <1>4, <1>5, <1>6, <1>7, <1>8, <1>9 DEF NotifyInv, LaneType, EmbedFits

LEMMA NotifySteps ==
  ASSUME NotifyInv, [NotifyNext]_notifyVars
  PROVE  NotifyInv'
<1>1. CASE NotifyNext
  <2>1. CASE Claim
    BY <2>1, ClaimKeeps
  <2>2. CASE Announce
    BY <2>2, AnnounceKeeps
  <2>3. CASE (\E status \in {"ok", "failed"} : Finish(status)) \/ Record \/ RecordFails
    BY <2>3, QuietKeeps
  <2>4. CASE Crash
    BY <2>4, CrashKeeps
  <2>5. CASE \E i \in DOMAIN sends : Answered(i)
    BY <2>5, AnswersKeep
  <2> QED
    BY <1>1, <2>1, <2>2, <2>3, <2>4, <2>5 DEF NotifyNext
<1>2. CASE UNCHANGED notifyVars
  BY <1>2 DEF notifyVars, NotifyInv, OnRecord, Rested, Worst, Places, EmbedFits
<1> QED
  BY <1>1, <1>2

\* The account of the sends gives what is promised of them.
LEMMA AccountsAreSafe ==
  ASSUME NotifyInv
  PROVE  NotifySafety
<1> USE LaneFacts, PlacesInLog
<1>0. RetryCount \in Nat \ {0} /\ Worst \in Nat
  BY RetryCountAssumption, WorstIsWorst
<1>1. NotifyTypeOK
  <2>1. \A i \in DOMAIN sends : sends[i].state \in {"sending", "gave up", "delivered", "failed", "lost"}
                              /\ sends[i].attempt \in 0..RetryCount
    BY DEF SendType
  <2>2. log \in [1..(3 * Runs) -> Nat]
    BY DEF NotifyInv
  <2>3. lane.at \in {"idle", "running", "finished", "recorded"}
    BY DEF NotifyInv
  <2> QED
    BY <2>1, <2>2, <2>3 DEF NotifyTypeOK
<1>2. SleepIsBounded
  <2> SUFFICES ASSUME NEW i \in DOMAIN sends PROVE sends[i].slept <= (RetryCount - 1) * Worst
    BY DEF SleepIsBounded, Worst
  <2> DEFINE a == sends[i].attempt
             z == sends[i].slept
  <2>1. a \in 0..RetryCount /\ z \in Nat
    BY DEF SendType
  <2>2. Rested(sends[i])
    BY DEF NotifyInv
  <2>3. CASE a = RetryCount
    BY <2>2, <2>3 DEF Rested
  <2>4. CASE a < RetryCount
    <3>1. z <= a * Worst
      BY <2>2, <2>4 DEF Rested
    <3> HIDE DEF a, z
    <3>2. a <= RetryCount - 1 /\ a \in Nat /\ RetryCount - 1 \in Nat
      BY <1>0, <2>1, <2>4
    <3>3. \A k, m, w \in Nat : k <= m => k * w <= m * w
      <4> SUFFICES ASSUME NEW k \in Nat, NEW m \in Nat, NEW w \in Nat, k <= m PROVE k * w <= m * w
        OBVIOUS
      <4>1. PICK e \in Nat : m = k + e
        <5>1. m - k \in Nat /\ m = k + (m - k)
          OBVIOUS
        <5> QED
          BY <5>1
      <4>2. m * w = k * w + e * w
        BY <4>1
      <4>3. e * w \in Nat /\ k * w \in Nat
        OBVIOUS
      <4> QED
        BY <4>2, <4>3
    <3>4. a * Worst <= (RetryCount - 1) * Worst
      BY <1>0, <3>2, <3>3
    <3> DEFINE p == a * Worst
               q == (RetryCount - 1) * Worst
    <3>5. p \in Nat /\ q \in Nat
      BY <1>0, <3>2
    <3>6. z <= q
      <4>1. z <= p /\ p <= q
        BY <3>1, <3>4
      <4> HIDE DEF p, q
      <4> QED
        BY <2>1, <3>5, <4>1
    <3> QED
      BY <3>6 DEF z
  <2> QED
    BY <1>0, <2>1, <2>3, <2>4
<1>3. OneRowPerFailure
  <2> SUFFICES ASSUME NEW i \in DOMAIN sends
               PROVE  log[i] <= 1 /\ (sends[i].state # "failed" => log[i] = 0)
    BY DEF OneRowPerFailure
  <2>1. log[i] \in 0..1
    BY DEF NotifyInv
  <2> QED
    BY <2>1 DEF NotifyInv
<1>4. EmbedFits
  BY DEF NotifyInv
<1> QED
  BY <1>1, <1>2, <1>3, <1>4 DEF NotifySafety

\* A target hears what a send says, and nothing else.
LEMMA OnlySendsAreHeard ==
  ASSUME NotifyInv, [NotifyNext]_notifyVars
  PROVE  \A p \in heard' \ heard : \E i \in DOMAIN sends : p = Post(sends[i]) /\ row' = row
<1>1. CASE \E i \in DOMAIN sends : Answered(i)
  <2>1. PICK i \in DOMAIN sends : Answered(i)
    BY <1>1
  <2>2. row' = row /\ heard' \subseteq heard \cup {Post(sends[i])}
    BY <2>1 DEF Answered, Delivered, TransportError, ServerError, TooManyRequests, Refused, RecordFailure
  <2> QED
    BY <2>2
<1>2. CASE ~\E i \in DOMAIN sends : Answered(i)
  <2>1. heard' = heard
    BY <1>2 DEF NotifyNext, notifyVars, Claim, Record, RecordFails, Announce, Crash, Finish
  <2> QED
    BY <2>1
<1> QED
  BY <1>1, <1>2

\* What a send says is on the row when the target hears it.
LEMMA NewsIsOnRecord ==
  ASSUME NotifyInv, [NotifyNext]_notifyVars
  PROVE  \A p \in heard' \ heard :
            /\ p.n <= row.started
            /\ p.event # "started" =>
                  p.n <= row.finished /\ (p.n = row.finished => p.status = row.status)
<1> SUFFICES ASSUME NEW p \in heard' \ heard
             PROVE  /\ p.n <= row.started
                    /\ p.event # "started" =>
                          p.n <= row.finished /\ (p.n = row.finished => p.status = row.status)
  OBVIOUS
<1>1. PICK i \in DOMAIN sends : p = Post(sends[i])
  BY OnlySendsAreHeard
<1>2. OnRecord(sends[i]) /\ p.n = sends[i].n /\ p.event = sends[i].event /\ p.status = sends[i].status
  BY <1>1 DEF NotifyInv, Post
<1> QED
  BY <1>2 DEF OnRecord

LEMMA NotifyInvHolds == NotifySpec => []NotifyInv
<1>1. NotifyInit => NotifyInv
  BY NotifyStarts
<1>2. NotifyInv /\ [NotifyNext]_notifyVars => NotifyInv'
  BY NotifySteps
<1> QED
  BY <1>1, <1>2, PTL DEF NotifySpec

\* No send sleeps past its bound whatever a server asks for, a failure leaves
\* one row, and an embed is one Discord accepts (Notifier._send, build_payload).
THEOREM SendsAreSafe == NotifySpec => []NotifySafety
<1>1. NotifyInv => NotifySafety
  BY AccountsAreSafe
<1> QED
  BY <1>1, NotifyInvHolds, PTL

\* A target hears of a run only what the database already shows of it
\* (scheduler/core.py, _maybe_run: announced after the commit).
THEOREM TheRowIsFirst == NotifySpec => TheRowComesFirst
<1>1. NotifyInv /\ [NotifyNext]_notifyVars =>
        [\A p \in heard' \ heard :
          /\ p.n <= row.started
          /\ p.event # "started" =>
                p.n <= row.finished /\ (p.n = row.finished => p.status = row.status)]_notifyVars
  BY NewsIsOnRecord
<1> QED
  BY <1>1, NotifyInvHolds, PTL DEF TheRowComesFirst, NotifySpec
==============================================================================
