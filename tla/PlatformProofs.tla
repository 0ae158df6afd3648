---------------------------- MODULE PlatformProofs ----------------------------
(***************************************************************************)
(* Proofs about ConfigStore, for any settings and values, any number of    *)
(* processes and requests, and any file and row to start from; and about   *)
(* Deployment, for any secret names, environments and media servers.       *)
(*                                                                         *)
(* A request carries the arm it was judged for and the generation that arm *)
(* gives its document, so what it writes under the lock is labelled as it  *)
(* was judged. A process that has never overlapped another finds, at each  *)
(* step of its boot, the store as its own earlier step left it.            *)
(*                                                                         *)
(* A finish's read-back and the start after it look at the same layers: no *)
(* row is an echo to a wizard's process, so the start finds every name the *)
(* read-back found.                                                        *)
(***************************************************************************)
EXTENDS ConfigStore, Deployment, TLAPS

(***************************************************************************)
(* Documents                                                               *)
(***************************************************************************)
\* A document is a function from some settings to values.
LEMMA DocumentIs ==
  ASSUME NEW d
  PROVE  d \in Documents <=> /\ DOMAIN d \subseteq Keys \cup Stale
                             /\ d \in [DOMAIN d -> Vals]
<1>1. ASSUME d \in Documents
      PROVE  DOMAIN d \subseteq Keys \cup Stale /\ d \in [DOMAIN d -> Vals]
  BY <1>1 DEF Documents
<1>2. ASSUME DOMAIN d \subseteq Keys \cup Stale, d \in [DOMAIN d -> Vals]
      PROVE  d \in Documents
  <2> DEFINE D == DOMAIN d
  <2>1. D \in SUBSET (Keys \cup Stale) /\ d \in [D -> Vals]
    BY <1>2
  <2> HIDE DEF D
  <2> QED
    BY <2>1 DEF Documents
<1> QED
  BY <1>1, <1>2

\* The document of a store never written.
LEMMA EmptyIsDocument ==
  /\ Empty \in Documents
  /\ DOMAIN Empty = {}
  /\ Stripped(Empty) = Empty
<1>1. DOMAIN Empty = {} /\ Empty = [k \in {} |-> Empty[k]]
  BY DEF Empty
<1>2. Empty \in [DOMAIN Empty -> Vals]
  BY <1>1
<1>3. Stripped(Empty) = Empty
  BY <1>1 DEF Stripped
<1> QED
  BY <1>1, <1>2, <1>3, DocumentIs

\* What has left the schema is gone from a stripped document, and nothing else.
LEMMA StrippedIs ==
  ASSUME NEW d \in Documents
  PROVE  /\ Stripped(d) \in Documents
         /\ DOMAIN Stripped(d) = DOMAIN d \ Stale
         /\ DOMAIN Stripped(d) \subseteq Keys
         /\ DOMAIN d \subseteq Keys => Stripped(d) = d
<1>1. DOMAIN d \subseteq Keys \cup Stale /\ d \in [DOMAIN d -> Vals]
  BY DocumentIs
<1>2. DOMAIN Stripped(d) = DOMAIN d \ Stale
  BY DEF Stripped
<1>3. Stripped(d) \in [DOMAIN Stripped(d) -> Vals]
  BY <1>1, <1>2 DEF Stripped
<1>4. ASSUME DOMAIN d \subseteq Keys PROVE Stripped(d) = d
  <2>1. DOMAIN d \ Stale = DOMAIN d
    BY <1>4, SettingsAssumption
  <2> QED
    BY <1>1, <2>1 DEF Stripped
<1> QED
  BY <1>1, <1>2, <1>3, <1>4, DocumentIs

\* A merged document says what the delta says, and what the base says elsewhere.
LEMMA MergeIs ==
  ASSUME NEW b \in Documents, NEW d \in Documents
  PROVE  /\ Merge(b, d) \in Documents
         /\ DOMAIN Merge(b, d) = DOMAIN b \cup DOMAIN d
         /\ \A k \in DOMAIN d : Merge(b, d)[k] = d[k]
<1>1. /\ DOMAIN b \subseteq Keys \cup Stale /\ b \in [DOMAIN b -> Vals]
      /\ DOMAIN d \subseteq Keys \cup Stale /\ d \in [DOMAIN d -> Vals]
  BY DocumentIs
<1>2. DOMAIN Merge(b, d) = DOMAIN b \cup DOMAIN d
  BY DEF Merge
<1>3. Merge(b, d) \in [DOMAIN Merge(b, d) -> Vals]
  BY <1>1, <1>2 DEF Merge
<1> QED
  BY <1>1, <1>2, <1>3, DocumentIs DEF Merge

\* A valid document describes a generation.
LEMMA GenerationIs ==
  ASSUME NEW d \in Documents
  PROVE  Generation(d) \in Generations
<1>1. d \in [DOMAIN d -> Vals]
  BY DocumentIs
<1> QED
  BY <1>1 DEF Generation, Generations

\* What a boot that converts a delta writes: a document without stale settings
\* that says what the delta says.
LEMMA MergedIs ==
  ASSUME NEW b \in Documents, NEW d \in Documents, DOMAIN d \subseteq Keys
  PROVE  LET m == Merge(Stripped(b), d)
         IN  /\ m \in Documents /\ DOMAIN m \subseteq Keys /\ Stripped(m) = m
             /\ DOMAIN d \subseteq DOMAIN m
             /\ \A k \in DOMAIN d : m[k] = d[k]
<1> DEFINE m == Merge(Stripped(b), d)
<1>1. Stripped(b) \in Documents /\ DOMAIN Stripped(b) \subseteq Keys
  BY StrippedIs
<1>2. /\ m \in Documents /\ DOMAIN m = DOMAIN Stripped(b) \cup DOMAIN d
      /\ \A k \in DOMAIN d : m[k] = d[k]
  BY <1>1, MergeIs
<1>3. DOMAIN m \subseteq Keys
  BY <1>1, <1>2
<1> HIDE DEF m
<1>4. Stripped(m) = m
  BY <1>2, <1>3, StrippedIs
<1> QED
  BY <1>2, <1>3, <1>4 DEF m

(***************************************************************************)
(* The inductive invariant                                                 *)
(***************************************************************************)
SnapType == [doc : Documents, format : {1, 2}]

States == {"down", "built", "migrate", "seed", "seeding", "loaded", "serving"}

ProcType == [st : States, object : Generations \cup {Unset}, booted : Generations \cup {Unset},
             running : Generations \cup {Unset}, base : Documents \cup {NoFile}]

ReqType == [pc : {"idle", "open", "valid", "advisory"}, proc : Procs \cup {Unset},
            page : Documents, doc : Documents, after : Generations \cup {Unset},
            whole : BOOLEAN, named : Documents \cup {Anything}, confirm : BOOLEAN]

\* A process that is up has a generation; one that takes the file has a file.
Built(q) ==
    /\ q.st # "down" => q.object \in Generations /\ q.booted \in Generations
                        /\ q.running \in Generations
    /\ q.st \in {"migrate", "seed", "seeding"} => q.base \in Documents

\* A judged document has no stale setting, and one judged whole is the
\* generation its request will swap in.
Judged(q) ==
    q.pc \in {"valid", "advisory"} =>
        /\ DOMAIN q.doc \subseteq Keys
        /\ q.after \in Generations
        /\ q.whole => Valid(q.doc) /\ q.after = Generation(q.doc)

StoreTyped ==
    /\ row = NoRow \/ row \in RowType
    /\ snapshots \in Seq(SnapType)
    /\ file \in Documents \cup {NoFile}

ProcsTyped == proc \in [Procs -> ProcType] /\ \A p \in Procs : Built(proc[p])

\* A request that is under way has a process, and that process serves.
ReqsTyped ==
    /\ req \in [Requests -> ReqType]
    /\ \A r \in Requests :
          /\ Judged(req[r])
          /\ req[r].pc # "idle" => req[r].proc \in Procs /\ Serving(req[r].proc)

\* A process alone with its store: where it is, the store is as it left it.
Settled(p) ==
    /\ proc[p].st = "seed" => Stored = Empty
    /\ proc[p].st = "seeding" => row = NoRow
    /\ proc[p].st = "loaded" =>
          Whole /\ proc[p].running = Generation(Stored)
                /\ proc[p].booted = Generation(Stored)
    /\ proc[p].st = "serving" =>
          /\ Whole /\ proc[p].running = Generation(Stored)
          /\ RestartList \subseteq
                RestartPaths(proc[p].booted, proc[p].object, Generation(Stored))
          /\ Changed(proc[p].booted, Generation(Stored)) \cap (Frozen \ Inert)
                \subseteq RestartList

Alone ==
    ~apart =>
        /\ \A p, q \in Procs : Up(p) /\ Up(q) => p = q
        /\ \A p \in Procs : Settled(p)
        /\ \A r \in Requests : req[r].pc \in {"valid", "advisory"} => req[r].whole

IInv ==
    /\ StoreTyped
    /\ ProcsTyped
    /\ ReqsTyped
    /\ WholeRowsBuild
    /\ apart \in BOOLEAN
    /\ Alone

\* What the store answers has no stale setting.
LEMMA StoredIs ==
  ASSUME StoreTyped
  PROVE  Stored \in Documents /\ DOMAIN Stored \subseteq Keys /\ Stripped(Stored) = Stored
<1>1. CASE row = NoRow
  BY <1>1, EmptyIsDocument DEF Stored
<1>2. CASE row # NoRow
  <2>1. row.doc \in Documents
    BY <1>2 DEF StoreTyped, RowType
  <2>2. Stored = Stripped(row.doc)
    BY <1>2 DEF Stored
  <2> QED
    BY <2>1, <2>2, StrippedIs
<1> QED
  BY <1>1, <1>2

\* A row is told from no row.
LEMMA RowIsThere ==
  ASSUME NEW t \in RowType
  PROVE  t # NoRow
BY RowsAssumption

\* capture_snapshot: the history keeps its type, and its documents are those of
\* the register's history after the same write.
LEMMA CaptureIs ==
  ASSUME snapshots \in Seq(SnapType), NEW d \in Documents, NEW f \in {1, 2}
  PROVE  /\ Capture(d, f) \in Seq(SnapType)
         /\ [i \in DOMAIN Capture(d, f) |-> Capture(d, f)[i].doc] =
               LET kept == [i \in DOMAIN snapshots |-> snapshots[i].doc]
               IN  IF d = Empty THEN kept ELSE Register!LastOf(Append(kept, d))
<1> DEFINE e == [doc |-> d, format |-> f]
           long == Append(snapshots, e)
           kept == [i \in DOMAIN snapshots |-> snapshots[i].doc]
           more == Append(kept, d)
           from == IF Len(long) > Keep THEN Len(long) - Keep + 1 ELSE 1
<1>1. CASE d = Empty
  BY <1>1 DEF Capture
<1>2. CASE d # Empty
  <2>1. e \in SnapType
    BY DEF SnapType
  <2>2. /\ long \in Seq(SnapType) /\ Len(long) = Len(snapshots) + 1
        /\ Len(snapshots) \in Nat
        /\ \A i \in 1..Len(snapshots) : long[i] = snapshots[i]
        /\ long[Len(snapshots) + 1] = e
    BY <2>1
  <2>3. /\ kept \in Seq(Documents) /\ Len(kept) = Len(snapshots)
        /\ \A i \in 1..Len(snapshots) : kept[i] = snapshots[i].doc
    <3>1. /\ DOMAIN snapshots = 1..Len(snapshots) /\ Len(snapshots) \in Nat
          /\ \A i \in 1..Len(snapshots) : snapshots[i].doc \in Documents
      <4>1. /\ DOMAIN snapshots = 1..Len(snapshots) /\ Len(snapshots) \in Nat
            /\ \A i \in 1..Len(snapshots) : snapshots[i] \in SnapType
        OBVIOUS
      <4>2. \A s \in SnapType : s.doc \in Documents
        BY DEF SnapType
      <4> QED
        BY <4>1, <4>2
    <3>2. kept \in [1..Len(snapshots) -> Documents]
      BY <3>1
    <3> QED
      BY <3>1, <3>2
  <2> HIDE DEF kept
  <2>4. /\ more \in Seq(Documents) /\ Len(more) = Len(long)
        /\ \A i \in 1..Len(long) : more[i] = long[i].doc
    <3>1. /\ more \in Seq(Documents) /\ Len(more) = Len(kept) + 1
          /\ \A i \in 1..Len(kept) : more[i] = kept[i]
          /\ more[Len(kept) + 1] = d
      BY <2>3
    <3> HIDE DEF more
    <3>2. ASSUME NEW i \in 1..Len(long) PROVE more[i] = long[i].doc
      <4>1. CASE i = Len(snapshots) + 1
        BY <2>2, <2>3, <3>1, <4>1
      <4>2. CASE i \in 1..Len(snapshots)
        BY <2>2, <2>3, <3>1, <4>2
      <4> QED
        BY <2>2, <4>1, <4>2
    <3> QED
      BY <2>2, <2>3, <3>1, <3>2
  <2> HIDE DEF more
  <2>5. from \in 1..(Len(long) + 1)
    BY <2>2, KeepAssumption
  <2> HIDE DEF from
  <2>6. Capture(d, f) = SubSeq(long, from, Len(long))
    BY <1>2 DEF Capture, from
  <2>7. Register!LastOf(more) = SubSeq(more, from, Len(more))
    BY <2>4 DEF Register!LastOf, from
  <2> HIDE DEF long
  <2>8. /\ Capture(d, f) \in Seq(SnapType)
        /\ Len(Capture(d, f)) = Len(long) - from + 1
        /\ \A i \in 1..(Len(long) - from + 1) : Capture(d, f)[i] = long[from + i - 1]
    BY <2>2, <2>5, <2>6
  <2>9. /\ Register!LastOf(more) \in Seq(Documents)
        /\ Len(Register!LastOf(more)) = Len(long) - from + 1
        /\ \A i \in 1..(Len(long) - from + 1) : Register!LastOf(more)[i] = more[from + i - 1]
    BY <2>2, <2>4, <2>5, <2>7
  <2>10. [i \in DOMAIN Capture(d, f) |-> Capture(d, f)[i].doc] = Register!LastOf(more)
    <3> DEFINE n == Len(long) - from + 1
               docs == [i \in DOMAIN Capture(d, f) |-> Capture(d, f)[i].doc]
    <3>1. n \in Nat /\ DOMAIN Capture(d, f) = 1..n /\ DOMAIN Register!LastOf(more) = 1..n
      BY <2>2, <2>5, <2>8, <2>9
    <3>2. \A i \in 1..n : docs[i] = Register!LastOf(more)[i]
      BY <2>2, <2>4, <2>5, <2>8, <2>9, <3>1
    <3>3. Register!LastOf(more) = [i \in 1..n |-> Register!LastOf(more)[i]]
      BY <2>9, <3>1
    <3> QED
      BY <3>1, <3>2, <3>3
  <2> QED
    BY <1>2, <2>8, <2>10 DEF more, kept
<1> QED
  BY <1>1, <1>2

(***************************************************************************)
(* The steps of a process                                                  *)
(***************************************************************************)
\* Nobody's request hangs on a process that does not serve: a boot that moves
\* on, and leaves a store that builds, keeps the invariant if the store is as
\* the boot left it.
LEMMA BootMoves ==
  ASSUME IInv, NEW p \in Procs, Up(p), ~Serving(p),
         NEW x \in ProcType, Built(x), x.st # "down",
         proc' = [proc EXCEPT ![p] = x], UNCHANGED <<file, req, apart>>,
         StoreTyped', WholeRowsBuild', ~apart => Settled(p)'
  PROVE  IInv'
<1>1. proc \in [Procs -> ProcType] /\ proc'[p] = x
      /\ \A q \in Procs : q # p => proc'[q] = proc[q]
  BY DEF IInv, ProcsTyped
<1>2. ProcsTyped'
  BY <1>1 DEF IInv, ProcsTyped
<1>3. ReqsTyped'
  <2>1. \A r \in Requests : req[r].pc # "idle" => req[r].proc # p
    BY DEF IInv, ReqsTyped
  <2> QED
    BY <1>1, <2>1 DEF IInv, ReqsTyped, Serving
<1>4. Alone'
  <2> SUFFICES ASSUME ~apart'
               PROVE  /\ \A u, v \in Procs : Up(u)' /\ Up(v)' => u = v
                      /\ \A u \in Procs : Settled(u)'
                      /\ \A r \in Requests : req'[r].pc \in {"valid", "advisory"} => req'[r].whole
    BY DEF Alone
  <2>1. \A q \in Procs : q # p => proc'[q].st = "down"
    BY <1>1 DEF IInv, Alone, Up
  <2>2. \A u, v \in Procs : Up(u)' /\ Up(v)' => u = v
    BY <2>1 DEF Up
  <2>3. \A u \in Procs : Settled(u)'
    BY <2>1 DEF Settled
  <2> QED
    BY <2>2, <2>3 DEF IInv, Alone
<1> QED
  BY <1>2, <1>3, <1>4 DEF IInv

\* A process that dies takes its requests with it; whoever else is up has
\* overlapped it.
LEMMA DeathKeeps ==
  ASSUME IInv, NEW p \in Procs, Up(p), Dies(p), UNCHANGED <<file, apart>>,
         StoreTyped', WholeRowsBuild'
  PROVE  IInv'
<1>1. proc \in [Procs -> ProcType] /\ proc'[p] = Down
      /\ \A q \in Procs : q # p => proc'[q] = proc[q]
  BY DEF IInv, ProcsTyped, Dies
<1>2. ProcsTyped'
  BY <1>1 DEF IInv, ProcsTyped, Dies, Down, ProcType, Built, States
<1>3. \A r \in Requests : req'[r] = IF req[r].proc = p THEN Idle ELSE req[r]
  BY DEF Dies, Lost
<1>4. req' \in [Requests -> ReqType]
  <2>1. Idle \in ReqType
    BY EmptyIsDocument DEF Idle, ReqType
  <2> QED
    BY <2>1 DEF Dies, Lost, IInv, ReqsTyped
<1>5. ReqsTyped'
  <2> SUFFICES ASSUME NEW r \in Requests
               PROVE  /\ Judged(req[r])'
                      /\ (req[r].pc # "idle" => req[r].proc \in Procs /\ Serving(req[r].proc))'
    BY <1>4 DEF ReqsTyped
  <2>1. CASE req[r].proc = p
    BY <1>3, <2>1 DEF Idle, Judged
  <2>2. CASE req[r].proc # p
    <3>1. req'[r] = req[r]
      BY <1>3, <2>2
    <3>2. Judged(req[r]) /\ (req[r].pc # "idle" => req[r].proc \in Procs /\ Serving(req[r].proc))
      BY DEF IInv, ReqsTyped
    <3>3. req[r].proc \in Procs => proc'[req[r].proc] = proc[req[r].proc]
      BY <1>1, <2>2
    <3> QED
      BY <3>1, <3>2, <3>3 DEF Serving, Judged
  <2> QED
    BY <2>1, <2>2
<1>6. Alone'
  <2> SUFFICES ASSUME ~apart'
               PROVE  /\ \A u, v \in Procs : Up(u)' /\ Up(v)' => u = v
                      /\ \A u \in Procs : Settled(u)'
                      /\ \A r \in Requests : req'[r].pc \in {"valid", "advisory"} => req'[r].whole
    BY DEF Alone
  <2>1. \A q \in Procs : proc'[q].st = "down"
    BY <1>1 DEF IInv, Alone, Up, Down
  <2>2. \A u \in Procs : Settled(u)' /\ ~Up(u)'
    BY <2>1 DEF Settled, Up
  <2>3. \A r \in Requests : req'[r].pc \in {"valid", "advisory"} => req'[r].whole
    BY <1>3 DEF IInv, Alone, Idle
  <2> QED
    BY <2>2, <2>3
<1> QED
  BY <1>2, <1>5, <1>6 DEF IInv

\* A boot that comes up on a document the store holds as a whole row.
LEMMA ComesKeeps ==
  ASSUME IInv, NEW p \in Procs, Up(p), ~Serving(p),
         NEW d \in Documents, Comes(p, d), UNCHANGED <<file, req, apart>>,
         StoreTyped', WholeRowsBuild', ~apart => Whole' /\ Stored' = d
  PROVE  IInv'
<1> DEFINE x == [proc[p] EXCEPT !.st = "loaded", !.booted = Generation(d),
                                !.running = Generation(d)]
<1>1. proc[p] \in ProcType /\ Built(proc[p])
  BY DEF IInv, ProcsTyped
<1>2. Generation(d) \in Generations
  BY GenerationIs
<1>3. x \in ProcType /\ x.st = "loaded" /\ x.booted = Generation(d) /\ x.running = Generation(d)
      /\ x.object = proc[p].object
  BY <1>1, <1>2 DEF ProcType, States
<1>4. Built(x)
  BY <1>1, <1>2, <1>3 DEF Built, Up
<1>5. proc' = [proc EXCEPT ![p] = x]
  BY <1>1 DEF Comes, Swapped, ProcType
<1>6. ~apart => Settled(p)'
  <2>1. proc'[p] = x
    BY <1>5 DEF IInv, ProcsTyped
  <2> QED
    BY <1>3, <2>1 DEF Settled
<1> HIDE DEF x
<1> QED
  BY <1>3, <1>4, <1>5, <1>6, BootMoves

\* A start of a process: it overlaps another, or finds itself alone.
LEMMA BuildKeeps == ASSUME IInv, NEW p \in Procs, Build(p) PROVE IInv'
<1>1. PICK d \in Documents :
         /\ Valid(d)
         /\ proc' = [proc EXCEPT ![p] = [Down EXCEPT !.st = "built",
                        !.object = Generation(d), !.booted = Generation(d),
                        !.running = Generation(d)]]
  BY StoredIs DEF Build, IInv, StoreTyped
<1> DEFINE g == Generation(d)
           x == [Down EXCEPT !.st = "built", !.object = g, !.booted = g, !.running = g]
<1>2. g \in Generations
  BY GenerationIs
<1> HIDE DEF g
<1>3. x \in ProcType /\ Built(x) /\ x.st = "built"
  <2>1. x.object = g /\ x.booted = g /\ x.running = g /\ x.st = "built" /\ x.base = NoFile
    BY DEF Down
  <2> QED
    BY <1>2, <2>1 DEF ProcType, Built, States, Down
<1>4. proc' = [proc EXCEPT ![p] = x]
  BY <1>1 DEF g
<1>5. UNCHANGED <<row, snapshots, file, req>> /\ ~Up(p)
      /\ apart' = (apart \/ \E q \in Procs \ {p} : Up(q))
  BY DEF Build, store
<1>6. proc \in [Procs -> ProcType] /\ proc'[p] = x
      /\ \A q \in Procs : q # p => proc'[q] = proc[q]
  BY <1>4 DEF IInv, ProcsTyped
<1> HIDE DEF x
<1>7. ProcsTyped'
  BY <1>3, <1>4, <1>6 DEF IInv, ProcsTyped
<1>8. ReqsTyped'
  <2>1. \A r \in Requests : req[r].pc # "idle" => req[r].proc # p
    BY <1>5 DEF IInv, ReqsTyped, Serving, Up
  <2> QED
    BY <1>5, <1>6, <2>1 DEF IInv, ReqsTyped, Serving
<1>9. StoreTyped' /\ WholeRowsBuild' /\ apart' \in BOOLEAN
  BY <1>5 DEF IInv, StoreTyped, WholeRowsBuild, Whole, Stored
<1>10. Alone'
  <2> SUFFICES ASSUME ~apart'
               PROVE  /\ \A u, v \in Procs : Up(u)' /\ Up(v)' => u = v
                      /\ \A u \in Procs : Settled(u)'
                      /\ \A r \in Requests : req'[r].pc \in {"valid", "advisory"} => req'[r].whole
    BY DEF Alone
  <2>1. ~apart /\ \A q \in Procs : q # p => proc'[q].st = "down"
    BY <1>5, <1>6 DEF Up, IInv
  <2>2. proc'[p].st = "built"
    BY <1>3, <1>6
  <2>3. \A u \in Procs : Settled(u)'
    BY <2>1, <2>2 DEF Settled
  <2>4. \A u, v \in Procs : Up(u)' /\ Up(v)' => u = v
    BY <2>1 DEF Up
  <2> QED
    BY <1>5, <2>1, <2>3, <2>4 DEF IInv, Alone
<1> QED
  BY <1>7, <1>8, <1>9, <1>10 DEF IInv

\* load_effective_config takes the whole document, the file, or gives up.
LEMMA LoadKeeps == ASSUME IInv, NEW p \in Procs, Load(p) PROVE IInv'
<1>1. /\ UNCHANGED <<row, snapshots, file, apart>> /\ Up(p) /\ ~Serving(p)
      /\ proc[p].st = "built"
  BY DEF Load, store, Up, Serving
<1>2. StoreTyped' /\ WholeRowsBuild' /\ Stored' = Stored /\ (Whole' <=> Whole)
  BY <1>1 DEF IInv, StoreTyped, WholeRowsBuild, Whole, Stored
<1>3. CASE Whole /\ Stored # Empty /\ Valid(Stored) /\ Comes(p, Stored) /\ UNCHANGED req
  <2>1. Stored \in Documents
    BY StoredIs DEF IInv
  <2> QED
    BY <1>1, <1>2, <1>3, <2>1, ComesKeeps
<1>4. CASE /\ Whole => Stored = Empty
           /\ file # NoFile
           /\ proc' = [proc EXCEPT ![p].base = file,
                         ![p].st = IF Stored # Empty THEN "migrate" ELSE "seed"]
           /\ UNCHANGED req
  <2> DEFINE s == IF Stored # Empty THEN "migrate" ELSE "seed"
             x == [proc[p] EXCEPT !.base = file, !.st = s]
  <2>1. file \in Documents /\ proc[p] \in ProcType /\ Built(proc[p])
    BY <1>4 DEF IInv, StoreTyped, ProcsTyped
  <2>2. x \in ProcType /\ x.st = s /\ x.base = file
    BY <2>1 DEF ProcType, States
  <2>3. x.object = proc[p].object /\ x.booted = proc[p].booted /\ x.running = proc[p].running
    BY <2>1 DEF ProcType
  <2>4. Built(x) /\ x.st # "down"
    BY <1>1, <2>1, <2>2, <2>3 DEF Built
  <2>5. proc' = [proc EXCEPT ![p] = x]
    BY <1>4, <2>1 DEF ProcType
  <2>6. Settled(p)'
    <3>1. proc'[p] = x
      BY <2>5 DEF IInv, ProcsTyped
    <3> QED
      BY <1>2, <2>2, <3>1 DEF Settled
  <2> HIDE DEF x
  <2> QED
    BY <1>1, <1>2, <1>4, <2>2, <2>4, <2>5, <2>6, BootMoves
<1>5. CASE Dies(p)
  BY <1>1, <1>2, <1>5, DeathKeeps
<1> QED
  BY <1>3, <1>4, <1>5 DEF Load

\* A conversion under the row lock: the row is taken, converted, or refused.
LEMMA ConvertKeeps ==
  ASSUME IInv, NEW p \in Procs, proc[p].st \in {"migrate", "seed", "seeding"}, Convert(p),
         UNCHANGED <<file, apart>>
  PROVE  IInv'
<1> DEFINE merged == Merge(Stripped(proc[p].base), Stored)
<1>1. Up(p) /\ ~Serving(p) /\ proc[p].base \in Documents
  BY DEF Up, Serving, IInv, ProcsTyped, Built
<1>2. Stored \in Documents /\ DOMAIN Stored \subseteq Keys
  BY StoredIs DEF IInv
<1>3. CASE Whole /\ Valid(Stored) /\ Comes(p, Stored) /\ UNCHANGED <<store, req>>
  <2>1. StoreTyped' /\ WholeRowsBuild' /\ Stored' = Stored /\ Whole'
    BY <1>3 DEF IInv, StoreTyped, WholeRowsBuild, Whole, Stored, store
  <2> QED
    BY <1>1, <1>2, <1>3, <2>1, ComesKeeps
<1>4. CASE /\ ~Whole /\ Valid(merged)
           /\ snapshots' = Capture(Stored, 1)
           /\ row' = [doc |-> merged, format |-> 2, restart |-> RestartList]
           /\ Comes(p, merged)
           /\ UNCHANGED req
  <2>1. merged \in Documents /\ Stripped(merged) = merged
    BY <1>1, <1>2, MergedIs
  <2> HIDE DEF merged
  <2>2. RestartList \subseteq Keys
    BY DEF RestartList, IInv, StoreTyped, RowType
  <2>3. row' \in RowType /\ row' # NoRow
    BY <1>4, <2>1, <2>2, RowIsThere DEF RowType
  <2>4. snapshots' \in Seq(SnapType)
    BY <1>2, <1>4, CaptureIs DEF IInv, StoreTyped
  <2>5. StoreTyped'
    BY <2>3, <2>4 DEF IInv, StoreTyped
  <2>6. Stored' = merged /\ Whole'
    BY <1>4, <2>1, <2>3 DEF Stored, Whole
  <2>7. WholeRowsBuild'
    BY <1>4, <2>6 DEF WholeRowsBuild, Valid
  <2> QED
    BY <1>1, <1>4, <2>1, <2>5, <2>6, <2>7, ComesKeeps
<1>5. CASE Dies(p) /\ UNCHANGED store
  <2>1. StoreTyped' /\ WholeRowsBuild'
    BY <1>5 DEF IInv, StoreTyped, WholeRowsBuild, Whole, Stored, store
  <2> QED
    BY <1>1, <1>5, <2>1, DeathKeeps
<1> QED
  BY <1>3, <1>4, <1>5 DEF Convert

\* seed_store fills an empty store and nothing else, under the advisory lock
\* when there was no row to lock.
LEMMA SeedKeeps == ASSUME IInv, NEW p \in Procs, Seed(p) PROVE IInv'
<1>1. UNCHANGED <<file, apart>> /\ proc[p].st \in {"seed", "seeding"} /\ Up(p) /\ ~Serving(p)
  BY DEF Seed, Up, Serving
<1>2. proc[p] \in ProcType /\ Built(proc[p]) /\ proc[p].base \in Documents
  BY <1>1 DEF IInv, ProcsTyped, Built
<1>3. CASE /\ proc[p].st = "seed" /\ row = NoRow
           /\ proc' = [proc EXCEPT ![p].st = "seeding"]
           /\ UNCHANGED <<store, req>>
  <2> DEFINE x == [proc[p] EXCEPT !.st = "seeding"]
  <2>1. x \in ProcType /\ x.st = "seeding" /\ Built(x)
    BY <1>2, <1>3 DEF ProcType, States, Built
  <2>2. proc' = [proc EXCEPT ![p] = x]
    BY <1>3
  <2>3. StoreTyped' /\ WholeRowsBuild' /\ row' = NoRow
    BY <1>1, <1>3 DEF IInv, StoreTyped, WholeRowsBuild, Whole, Stored, store
  <2>4. Settled(p)'
    <3>1. proc'[p].st = "seeding"
      BY <2>1, <2>2 DEF IInv, ProcsTyped
    <3> QED
      BY <2>3, <3>1 DEF Settled
  <2> HIDE DEF x
  <2> QED
    BY <1>1, <1>3, <2>1, <2>2, <2>3, <2>4, BootMoves
<1>4. CASE /\ proc[p].st = "seeding" \/ (proc[p].st = "seed" /\ row # NoRow)
           /\ SeedLocked(p)
  <2> DEFINE written == row # NoRow /\ row.doc # Empty
             d == IF written THEN Stored ELSE Stripped(proc[p].base)
  <2>1. CASE written /\ Stored = Empty /\ Convert(p)
    BY <1>1, <2>1, ConvertKeeps
  <2>2. CASE /\ ~(written /\ Stored = Empty) /\ Valid(d)
             /\ row' = IF written THEN row
                       ELSE [doc |-> d, format |-> 2, restart |-> RestartList]
             /\ Comes(p, d)
             /\ UNCHANGED <<snapshots, req>>
    <3>1. d \in Documents /\ Stripped(d) = d
      BY <1>2, StoredIs, StrippedIs DEF IInv
    <3>2. RestartList \subseteq Keys
      BY DEF RestartList, IInv, StoreTyped, RowType
    <3>3. CASE written
      <4>1. StoreTyped' /\ WholeRowsBuild'
        BY <1>1, <2>2, <3>3 DEF IInv, StoreTyped, WholeRowsBuild, Whole, Stored
      <4>2. apart
        <5>1. row # NoRow /\ Stored # Empty
          BY <2>2, <3>3
        <5> QED
          BY <1>1, <5>1 DEF IInv, Alone, Settled
      <4> HIDE DEF d
      <4> QED
        BY <1>1, <2>2, <3>1, <4>1, <4>2, ComesKeeps
    <3>4. CASE ~written
      <4> HIDE DEF d
      <4>1. row' = [doc |-> d, format |-> 2, restart |-> RestartList]
        BY <2>2, <3>4
      <4>2. row' \in RowType /\ row' # NoRow
        BY <3>1, <3>2, <4>1, RowIsThere DEF RowType
      <4>3. Stored' = d /\ Whole'
        BY <3>1, <4>1, <4>2 DEF Stored, Whole
      <4>4. StoreTyped' /\ WholeRowsBuild'
        BY <1>1, <2>2, <4>2, <4>3 DEF IInv, StoreTyped, WholeRowsBuild, Valid
      <4> QED
        BY <1>1, <2>2, <3>1, <4>3, <4>4, ComesKeeps
    <3> QED
      BY <3>3, <3>4
  <2>3. CASE Dies(p) /\ UNCHANGED store
    <3>1. StoreTyped' /\ WholeRowsBuild'
      BY <1>1, <2>3 DEF IInv, StoreTyped, WholeRowsBuild, Whole, Stored, store
    <3> QED
      BY <1>1, <2>3, <3>1, DeathKeeps
  <2> QED
    BY <1>4, <2>1, <2>2, <2>3 DEF SeedLocked
<1> QED
  BY <1>3, <1>4 DEF Seed

\* clear_restart_paths: the list is emptied for a generation that is the store's.
LEMMA ClearKeeps == ASSUME IInv, NEW p \in Procs, ClearRestart(p) PROVE IInv'
<1> DEFINE x == [proc[p] EXCEPT !.st = "serving"]
<1>1. /\ proc[p].st = "loaded" /\ Up(p) /\ ~Serving(p)
      /\ row' = IF row = NoRow THEN row ELSE [row EXCEPT !.restart = {}]
      /\ proc' = [proc EXCEPT ![p] = x]
      /\ UNCHANGED <<snapshots, file, req, apart>>
  BY DEF ClearRestart, Up, Serving
<1>2. proc[p] \in ProcType /\ Built(proc[p])
  BY DEF IInv, ProcsTyped
<1>3. /\ x \in ProcType /\ x.st = "serving" /\ Built(x)
      /\ x.booted = proc[p].booted /\ x.running = proc[p].running /\ x.object = proc[p].object
  BY <1>1, <1>2 DEF ProcType, States, Built
<1> HIDE DEF x
<1>4. /\ row' = NoRow \/ row' \in RowType
      /\ Stored' = Stored /\ (Whole' <=> Whole) /\ RestartList' = {}
  <2>1. CASE row = NoRow
    BY <1>1, <2>1 DEF Stored, Whole, RestartList
  <2>2. CASE row # NoRow
    <3>1. row \in RowType
      BY <2>2 DEF IInv, StoreTyped
    <3>2. row' \in RowType /\ row'.doc = row.doc /\ row'.format = row.format /\ row'.restart = {}
      BY <1>1, <2>2, <3>1 DEF RowType
    <3>3. row' # NoRow
      BY <3>2, RowIsThere
    <3> QED
      BY <2>2, <3>2, <3>3 DEF Stored, Whole, RestartList
  <2> QED
    BY <2>1, <2>2
<1>5. StoreTyped' /\ WholeRowsBuild'
  BY <1>1, <1>4 DEF IInv, StoreTyped, WholeRowsBuild
<1>6. ~apart => Settled(p)'
  <2>1. proc'[p] = x
    BY <1>1 DEF IInv, ProcsTyped
  <2>2. SUFFICES ASSUME ~apart PROVE Settled(p)'
    OBVIOUS
  <2>3. Whole /\ x.running = Generation(Stored) /\ x.booted = Generation(Stored)
    BY <1>1, <1>3, <2>2 DEF IInv, Alone, Settled
  <2>4. Changed(x.booted, Generation(Stored)) = {}
    BY <2>3 DEF Changed
  <2> QED
    BY <1>3, <1>4, <2>1, <2>3, <2>4 DEF Settled
<1> QED
  BY <1>1, <1>3, <1>5, <1>6, BootMoves

\* A crash leaves store and file alone.
LEMMA CrashKeeps == ASSUME IInv, NEW p \in Procs, Crash(p) PROVE IInv'
<1>1. StoreTyped' /\ WholeRowsBuild'
  BY DEF Crash, store, IInv, StoreTyped, WholeRowsBuild, Whole, Stored
<1> QED
  BY <1>1, DeathKeeps DEF Crash

(***************************************************************************)
(* The steps of a request                                                  *)
(***************************************************************************)
\* A request moves on while store and processes stand still.
LEMMA RequestMoves ==
  ASSUME IInv, NEW r \in Requests, NEW y \in ReqType, Judged(y),
         y.pc # "idle" => y.proc \in Procs /\ Serving(y.proc),
         ~apart /\ y.pc \in {"valid", "advisory"} => y.whole,
         req' = [req EXCEPT ![r] = y],
         UNCHANGED <<row, snapshots, file, proc, apart>>
  PROVE  IInv'
<1>1. req'[r] = y /\ \A u \in Requests : u # r => req'[u] = req[u]
  BY DEF IInv, ReqsTyped
<1>2. req' \in [Requests -> ReqType]
  BY DEF IInv, ReqsTyped
<1>3. StoreTyped' /\ ProcsTyped' /\ WholeRowsBuild'
  BY DEF IInv, StoreTyped, ProcsTyped, WholeRowsBuild, Whole, Stored
<1>4. ReqsTyped'
  <2> SUFFICES ASSUME NEW u \in Requests
               PROVE  /\ Judged(req[u])'
                      /\ (req[u].pc # "idle" => req[u].proc \in Procs /\ Serving(req[u].proc))'
    BY <1>2 DEF ReqsTyped
  <2>1. CASE u = r
    BY <1>1, <2>1 DEF Judged, Serving
  <2>2. CASE u # r
    BY <1>1, <2>2 DEF Judged, Serving, IInv, ReqsTyped
  <2> QED
    BY <2>1, <2>2
<1>5. Alone'
  <2> SUFFICES ASSUME ~apart
               PROVE  /\ \A u, v \in Procs : Up(u)' /\ Up(v)' => u = v
                      /\ \A u \in Procs : Settled(u)'
                      /\ \A u \in Requests : req'[u].pc \in {"valid", "advisory"} => req'[u].whole
    BY DEF Alone
  <2>1. \A u \in Procs : Settled(u)'
    BY DEF IInv, Alone, Settled, Stored, Whole, RestartList
  <2>2. \A u, v \in Procs : Up(u)' /\ Up(v)' => u = v
    BY DEF IInv, Alone, Up
  <2>3. \A u \in Requests : req'[u].pc \in {"valid", "advisory"} => req'[u].whole
    BY <1>1 DEF IInv, Alone
  <2> QED
    BY <2>1, <2>2, <2>3
<1> QED
  BY <1>3, <1>4, <1>5 DEF IInv

\* GET /api/config: the page holds the document the store answers with.
LEMMA OpenKeeps == ASSUME IInv, NEW r \in Requests, OpenPage(r) PROVE IInv'
<1>1. PICK p \in Procs :
         /\ Serving(p)
         /\ req' = [req EXCEPT ![r] = [Idle EXCEPT !.pc = "open", !.proc = p, !.page = Stored]]
  BY DEF OpenPage
<1> DEFINE y == [Idle EXCEPT !.pc = "open", !.proc = p, !.page = Stored]
<1>2. Stored \in Documents
  BY StoredIs DEF IInv
<1>3. y \in ReqType /\ y.pc = "open" /\ y.proc = p
  BY <1>2, EmptyIsDocument DEF Idle, ReqType
<1>4. Judged(y)
  BY <1>3 DEF Judged
<1> HIDE DEF y
<1>5. req' = [req EXCEPT ![r] = y]
  BY <1>1 DEF y
<1> QED
  BY <1>1, <1>3, <1>4, <1>5, RequestMoves DEF OpenPage, store

\* _validated_generation: the generation belongs to the arm the request is
\* labelled with; a process alone with its store serves a whole row, and a
\* request there is judged whole.
LEMMA ValidateKeeps ==
  ASSUME IInv, NEW r \in Requests, req[r].pc = "open",
         NEW d \in Documents, NEW n \in Documents \cup {Anything}, NEW c \in BOOLEAN,
         Validate(r, d, n, c), UNCHANGED <<row, snapshots, file, proc, apart>>
  PROVE  IInv'
<1> DEFINE whole == Whole \/ (file = NoFile /\ Stored = Empty)
           full == IF whole THEN d ELSE Merge(file, d)
           y == [req[r] EXCEPT !.pc = "valid", !.page = Empty, !.doc = d, !.whole = whole,
                               !.after = Generation(full), !.named = n, !.confirm = c]
<1>1. /\ DOMAIN d \subseteq Keys
      /\ whole \/ file # NoFile
      /\ Valid(full) /\ req' = [req EXCEPT ![r] = y]
  BY DEF Validate
<1>2. full \in Documents
  BY <1>1, MergeIs DEF IInv, StoreTyped
<1>3. Generation(full) \in Generations
  BY <1>2, GenerationIs
<1>4. whole \in BOOLEAN
  BY DEF Whole
<1>5. whole => full = d
  OBVIOUS
<1>6. ~apart => whole
  BY DEF IInv, ReqsTyped, Alone, Settled, Serving
<1> HIDE DEF whole, full
<1>7. /\ y \in ReqType
      /\ y.pc = "valid" /\ y.proc = req[r].proc /\ y.doc = d /\ y.whole = whole
      /\ y.after = Generation(full)
  <2>1. req[r] \in ReqType
    BY DEF IInv, ReqsTyped
  <2> QED
    BY <1>3, <1>4, <2>1, EmptyIsDocument DEF ReqType
<1> HIDE DEF y
<1>8. Judged(y)
  <2>1. ASSUME y.whole PROVE Valid(y.doc) /\ y.after = Generation(y.doc)
    <3>1. full = d
      BY <1>4, <1>5, <1>7, <2>1
    <3> QED
      BY <1>1, <1>7, <3>1
  <2>2. DOMAIN y.doc \subseteq Keys /\ y.after \in Generations
    BY <1>1, <1>3, <1>7
  <2> QED
    BY <2>1, <2>2, Zenon DEF Judged
<1>9. y.proc \in Procs /\ Serving(y.proc)
  BY <1>7 DEF IInv, ReqsTyped
<1> QED
  BY <1>1, <1>6, <1>7, <1>8, <1>9, RequestMoves

\* Saves, restores and imports differ in where the document comes from.
LEMMA SaveKeeps == ASSUME IInv, NEW r \in Requests, Save(r) PROVE IInv'
<1>1. PICK b \in Submitted, n \in {req[r].page, Anything} :
         Validate(r, b.document, n, b.confirm)
  BY DEF Save
<1>2. b.document \in Documents /\ b.confirm \in BOOLEAN
  BY SubmittedAssumption
<1>3. n \in Documents \cup {Anything}
  BY DEF IInv, ReqsTyped, ReqType
<1> QED
  BY <1>1, <1>2, <1>3, ValidateKeeps DEF Save, store

\* restore_config_snapshot: a kept document, over the file if it is a delta.
LEMMA RestoreKeeps == ASSUME IInv, NEW r \in Requests, Restore(r) PROVE IInv'
<1>1. PICK i \in DOMAIN snapshots :
         LET s == snapshots[i]
             d == IF s.format = 1 THEN Merge(Stripped(file), Stripped(s.doc))
                  ELSE Stripped(s.doc)
         IN  /\ s.format = 1 => file # NoFile
             /\ Validate(r, d, req[r].page, TRUE)
  BY DEF Restore
<1> DEFINE s == snapshots[i]
           d == IF s.format = 1 THEN Merge(Stripped(file), Stripped(s.doc))
                ELSE Stripped(s.doc)
<1>2. s.doc \in Documents
  <2>1. s \in SnapType
    BY DEF IInv, StoreTyped
  <2> QED
    BY <2>1 DEF SnapType
<1>3. Stripped(s.doc) \in Documents
  BY <1>2, StrippedIs
<1>4. d \in Documents
  <2>1. CASE s.format = 1
    <3>1. Stripped(file) \in Documents
      BY <1>1, <2>1, StrippedIs DEF IInv, StoreTyped
    <3> QED
      BY <1>3, <2>1, <3>1, MergeIs
  <2> QED
    BY <1>3, <2>1
<1>5. req[r].page \in Documents
  BY DEF IInv, ReqsTyped, ReqType
<1>6. Validate(r, d, req[r].page, TRUE)
  BY <1>1
<1> HIDE DEF d
<1> QED
  BY <1>4, <1>5, <1>6, ValidateKeeps DEF Restore, store

\* import_config_file: the mounted file as the document.
LEMMA ImportKeeps == ASSUME IInv, NEW r \in Requests, ImportFile(r) PROVE IInv'
<1>1. Stripped(file) \in Documents
  BY StrippedIs DEF ImportFile, IInv, StoreTyped
<1>2. req[r].page \in Documents
  BY DEF IInv, ReqsTyped, ReqType
<1> QED
  BY <1>1, <1>2, ValidateKeeps DEF ImportFile, store

\* store_row waits for the advisory lock with the request as it was judged.
LEMMA AdvisoryKeeps == ASSUME IInv, NEW r \in Requests, TakeAdvisory(r) PROVE IInv'
<1> DEFINE y == [req[r] EXCEPT !.pc = "advisory"]
<1>1. req[r] \in ReqType /\ Judged(req[r])
  BY DEF IInv, ReqsTyped
<1>2. /\ y \in ReqType /\ y.pc = "advisory" /\ y.proc = req[r].proc /\ y.doc = req[r].doc
      /\ y.after = req[r].after /\ y.whole = req[r].whole
  BY <1>1 DEF ReqType
<1>3. Judged(y)
  BY <1>1, <1>2 DEF Judged, TakeAdvisory
<1>4. y.proc \in Procs /\ Serving(y.proc) /\ (~apart => y.whole)
  BY <1>2 DEF IInv, ReqsTyped, Alone, TakeAdvisory
<1> HIDE DEF y
<1>5. req' = [req EXCEPT ![r] = y] /\ UNCHANGED <<row, snapshots, file, proc, apart>>
  BY DEF TakeAdvisory, y, store
<1> QED
  BY <1>2, <1>3, <1>4, <1>5, RequestMoves

\* _persist_and_swap: the row under the lock takes the document as it was
\* judged, and the process that wrote it runs on it, or dies.
LEMMA PersistKeeps == ASSUME IInv, NEW r \in Requests, Persist(r) PROVE IInv'
<1> DEFINE q == req[r]
<1>0. PICK p \in Procs : p = q.proc
  BY DEF Persist, IInv, ReqsTyped
<1>1. /\ q \in ReqType /\ q.pc \in {"valid", "advisory"} /\ Serving(p)
      /\ DOMAIN q.doc \subseteq Keys /\ q.after \in Generations /\ q.doc \in Documents
      /\ q.whole => Valid(q.doc) /\ q.after = Generation(q.doc)
      /\ q.whole \in BOOLEAN
      /\ ~apart => q.whole
  BY <1>0 DEF Persist, IInv, ReqsTyped, ReqType, Judged, Alone
<1>2. Idle \in ReqType /\ Judged(Idle)
  BY EmptyIsDocument DEF Idle, ReqType, Judged
<1>3. CASE Refused(r) /\ req' = [req EXCEPT ![r] = Idle] /\ UNCHANGED <<store, proc>>
  <2>1. Idle.pc = "idle"
    BY DEF Idle
  <2> QED
    BY <1>2, <1>3, <2>1, RequestMoves DEF Persist, store
<1>4. CASE /\ ~Refused(r)
           /\ snapshots' = Capture(Stored, IF Whole THEN 2 ELSE 1)
           /\ row' = Written(r)
           /\ Installs(r)
  <2> DEFINE paths == RestartPaths(proc[p].booted, proc[p].object, q.after)
             f == IF q.whole THEN 2 ELSE IF row = NoRow THEN 1 ELSE row.format
  <2>1. row' = [doc |-> q.doc, format |-> f, restart |-> paths]
    BY <1>0, <1>4 DEF Written, LockedRow
  <2>2. paths \subseteq Keys
    BY DEF RestartPaths, Changed
  <2>3. f \in {1, 2} /\ (f = 2 => q.whole) /\ (q.whole => f = 2)
    BY <1>4 DEF Refused, LockedRow, IInv, StoreTyped, RowType
  <2> HIDE DEF paths, f
  <2>4. row' \in RowType /\ row' # NoRow
    BY <1>1, <2>1, <2>2, <2>3, RowIsThere DEF RowType
  <2>5. Stored' = q.doc /\ (Whole' <=> q.whole) /\ RestartList' = paths
    <3>1. Stripped(q.doc) = q.doc
      BY <1>1, StrippedIs
    <3> QED
      BY <2>1, <2>3, <2>4, <3>1 DEF Stored, Whole, RestartList
  <2>6. snapshots' \in Seq(SnapType)
    BY <1>4, StoredIs, CaptureIs DEF IInv, StoreTyped
  <2>7. UNCHANGED <<file, apart>>
    BY DEF Persist
  <2>8. StoreTyped' /\ WholeRowsBuild'
    BY <1>1, <2>4, <2>5, <2>6, <2>7 DEF IInv, StoreTyped, WholeRowsBuild, Valid
  <2>9. CASE Dies(p)
    BY <1>1, <2>7, <2>8, <2>9, DeathKeeps DEF Serving, Up
  <2>10. CASE /\ proc' = [proc EXCEPT ![p] = Swapped(@, q.after)]
              /\ req' = [req EXCEPT ![r] = Idle]
    <3> DEFINE x == [proc[p] EXCEPT !.running = q.after]
    <3>1. /\ x \in ProcType /\ x.running = q.after /\ x.st = "serving"
          /\ x.booted = proc[p].booted /\ x.object = proc[p].object /\ Built(x)
      <4>1. proc[p] \in ProcType /\ Built(proc[p]) /\ proc[p].st = "serving"
        BY <1>1 DEF IInv, ProcsTyped, Serving
      <4> QED
        BY <1>1, <4>1 DEF ProcType, Built
    <3>2. proc' = [proc EXCEPT ![p] = x]
      BY <2>10 DEF Swapped
    <3> HIDE DEF x
    <3>3. proc'[p] = x /\ \A u \in Procs : u # p => proc'[u] = proc[u]
      BY <1>1, <3>2 DEF IInv, ProcsTyped
    <3>4. ProcsTyped'
      BY <1>1, <3>1, <3>2, <3>3 DEF IInv, ProcsTyped
    <3>5. req'[r] = Idle /\ \A u \in Requests : u # r => req'[u] = req[u]
      BY <2>10 DEF IInv, ReqsTyped
    <3>6. \A u \in Procs : Serving(u)' <=> Serving(u)
      BY <1>1, <3>1, <3>3 DEF Serving
    <3>7. ReqsTyped'
      <4>1. req' \in [Requests -> ReqType]
        BY <1>2, <2>10 DEF IInv, ReqsTyped
      <4> SUFFICES ASSUME NEW u \in Requests
                   PROVE  /\ Judged(req[u])'
                          /\ (req[u].pc # "idle" => req[u].proc \in Procs /\ Serving(req[u].proc))'
        BY <4>1 DEF ReqsTyped
      <4>2. CASE u = r
        BY <1>2, <3>5, <4>2 DEF Judged, Idle
      <4>3. CASE u # r
        BY <3>5, <3>6, <4>3 DEF Judged, Serving, IInv, ReqsTyped
      <4> QED
        BY <4>2, <4>3
    <3>8. Alone'
      <4> SUFFICES ASSUME ~apart
                   PROVE  /\ \A u, v \in Procs : Up(u)' /\ Up(v)' => u = v
                          /\ \A u \in Procs : Settled(u)'
                          /\ \A u \in Requests : req'[u].pc \in {"valid", "advisory"} => req'[u].whole
        BY <2>7 DEF Alone
      <4>1. \A u \in Procs : u # p => proc'[u].st = "down"
        BY <1>1, <3>3 DEF IInv, Alone, Up, Serving
      <4>2. \A u, v \in Procs : Up(u)' /\ Up(v)' => u = v
        BY <4>1 DEF Up
      <4>3. Settled(p)'
        <5>1. Stored' = q.doc /\ q.after = Generation(q.doc) /\ Whole'
          BY <1>1, <2>5
        <5>2. paths = RestartPaths(x.booted, x.object, Generation(q.doc))
          BY <3>1, <5>1 DEF paths
        <5>3. Changed(x.booted, Generation(q.doc)) \cap (Frozen \ Inert) \subseteq paths
          BY <5>2 DEF RestartPaths
        <5> QED
          BY <2>5, <3>1, <3>3, <5>1, <5>2, <5>3 DEF Settled
      <4>4. ASSUME NEW u \in Procs PROVE Settled(u)'
        <5>1. CASE u = p
          BY <4>3, <5>1
        <5>2. CASE u # p
          BY <4>1, <5>2 DEF Settled
        <5> QED
          BY <5>1, <5>2
      <4>5. \A u \in Requests : req'[u].pc \in {"valid", "advisory"} => req'[u].whole
        BY <3>5 DEF IInv, Alone, Idle
      <4> QED
        BY <4>2, <4>4, <4>5
    <3> QED
      BY <2>7, <2>8, <3>4, <3>7, <3>8 DEF IInv
  <2> QED
    BY <1>0, <1>4, <2>9, <2>10 DEF Installs
<1> QED
  BY <1>3, <1>4 DEF Persist

(***************************************************************************)
(* The invariant                                                           *)
(***************************************************************************)
LEMMA InitIInv == Init => IInv
<1> SUFFICES ASSUME Init PROVE IInv
  OBVIOUS
<1>1. StoreTyped
  BY RowsAssumption, FilesAssumption DEF Init, StoreTyped
<1>2. ProcsTyped
  <2>1. Down \in ProcType /\ Built(Down)
    BY DEF Down, ProcType, States, Built
  <2> QED
    BY <2>1 DEF Init, ProcsTyped
<1>3. ReqsTyped
  <2>1. Idle \in ReqType /\ Judged(Idle) /\ Idle.pc = "idle"
    BY EmptyIsDocument DEF Idle, ReqType, Judged
  <2> QED
    BY <2>1 DEF Init, ReqsTyped
<1>4. WholeRowsBuild
  BY RowsAssumption DEF Init, WholeRowsBuild, Whole, Stored
<1>5. Alone
  BY DEF Init, Alone, Up, Down, Settled, Idle
<1> QED
  BY <1>1, <1>2, <1>3, <1>4, <1>5 DEF Init, IInv

\* The file is edited, or the row deleted, behind the service's back.
LEMMA OutsideKeeps == ASSUME IInv, EditFile \/ DeleteRow PROVE IInv'
<1>1. CASE EditFile
  <2>1. UNCHANGED <<row, snapshots, proc, req, apart>> /\ file' \in Documents \cup {NoFile}
    BY <1>1, FilesAssumption DEF EditFile, store
  <2> QED
    BY <2>1 DEF IInv, StoreTyped, ProcsTyped, ReqsTyped, WholeRowsBuild, Alone, Settled,
       Judged, Serving, Up, Whole, Stored, RestartList
<1>2. CASE DeleteRow
  <2>1. UNCHANGED <<snapshots, file, proc, req>> /\ row' = NoRow /\ apart'
    BY <1>2 DEF DeleteRow
  <2> QED
    BY <2>1 DEF IInv, StoreTyped, ProcsTyped, ReqsTyped, WholeRowsBuild, Alone,
       Judged, Serving, Whole
<1> QED
  BY <1>1, <1>2

\* Every step keeps the invariant.
LEMMA NextIInv == IInv /\ [Next]_vars => IInv'
<1> SUFFICES ASSUME IInv, [Next]_vars PROVE IInv'
  OBVIOUS
<1>1. ASSUME NEW p \in Procs,
             Build(p) \/ Load(p) \/ Migrate(p) \/ Seed(p) \/ ClearRestart(p) \/ Crash(p)
      PROVE  IInv'
  <2>1. CASE Migrate(p)
    BY <2>1, ConvertKeeps DEF Migrate
  <2> QED
    BY <1>1, <2>1, BuildKeeps, LoadKeeps, SeedKeeps, ClearKeeps, CrashKeeps
<1>2. ASSUME NEW r \in Requests,
             OpenPage(r) \/ Save(r) \/ Restore(r) \/ ImportFile(r) \/ TakeAdvisory(r) \/ Persist(r)
      PROVE  IInv'
  BY <1>2, OpenKeeps, SaveKeeps, RestoreKeeps, ImportKeeps, AdvisoryKeeps, PersistKeeps
<1>3. CASE UNCHANGED vars
  BY <1>3 DEF vars, store, IInv, StoreTyped, ProcsTyped, ReqsTyped, WholeRowsBuild, Alone,
     Settled, Judged, Serving, Up, Whole, Stored, RestartList
<1> QED
  BY <1>1, <1>2, <1>3, OutsideKeeps DEF Next

\* The inductive invariant holds of every behaviour.
LEMMA StoreInvariant == Spec => []IInv
BY InitIInv, NextIInv, PTL DEF Spec

(***************************************************************************)
(* The theorems                                                            *)
(***************************************************************************)
\* Whatever saves, restores, imports, boots, conversions, seeds and crashes
\* race for the row: a row labelled whole builds, and a process that was never
\* beside another runs what the store holds and asks for a restart exactly
\* where it has to (_persist_and_swap, load_effective_config).
THEOREM ConfigIsSafe == Spec => []ConfigSafety
<1>1. IInv => ConfigSafety
  <2> SUFFICES ASSUME IInv PROVE ConfigSafety
    OBVIOUS
  <2>1. TypeOK
    <3>1. \A i \in DOMAIN snapshots : snapshots[i] \in [doc : Documents, format : {1, 2}]
      <4>1. \A i \in DOMAIN snapshots : snapshots[i] \in SnapType
        BY DEF IInv, StoreTyped
      <4> QED
        BY <4>1 DEF SnapType
    <3>2. \A p \in Procs :
             /\ proc[p].st \in {"down", "built", "migrate", "seed", "seeding", "loaded", "serving"}
             /\ Up(p) => /\ proc[p].object \in Generations
                         /\ proc[p].booted \in Generations
                         /\ proc[p].running \in Generations
      BY DEF IInv, ProcsTyped, ProcType, States, Built, Up
    <3>3. \A r \in Requests : req[r].pc \in {"idle", "open", "valid", "advisory"}
      BY DEF IInv, ReqsTyped, ReqType
    <3> QED
      BY <3>1, <3>2, <3>3 DEF IInv, StoreTyped, TypeOK
  <2>2. RunsWhatIsStored
    BY DEF IInv, Alone, Settled, Serving, RunsWhatIsStored
  <2>3. RestartListIsTrue
    BY DEF IInv, Alone, Settled, Serving, RestartListIsTrue
  <2> QED
    BY <2>1, <2>2, <2>3 DEF IInv, ConfigSafety
<1> QED
  BY <1>1, StoreInvariant, PTL

\* A store that was never written is a register that holds the empty document.
LEMMA InitRefines == IInv /\ Init => Register!Init
<1> SUFFICES ASSUME IInv, Init PROVE Register!Init
  OBVIOUS
<1>1. Stored \in Documents
  BY StoredIs DEF IInv
<1>2. [i \in DOMAIN snapshots |-> snapshots[i].doc] = <<>>
  BY DEF Init
<1> QED
  BY <1>1, <1>2 DEF Init, Register!Init

\* A boot replaces the document only by one that says as much, and keeps it.
LEMMA ConvertRefines ==
  ASSUME IInv, NEW p \in Procs, proc[p].st \in {"migrate", "seed", "seeding"}, Convert(p),
         UNCHANGED <<accepted, edits>>
  PROVE  Register!Complete \/ UNCHANGED Register!vars
<1> DEFINE merged == Merge(Stripped(proc[p].base), Stored)
<1>1. CASE UNCHANGED store
  BY <1>1 DEF store, Register!vars, Stored
<1>2. CASE /\ ~Whole /\ Valid(merged)
           /\ snapshots' = Capture(Stored, 1)
           /\ row' = [doc |-> merged, format |-> 2, restart |-> RestartList]
  <2>1. Stored \in Documents /\ DOMAIN Stored \subseteq Keys /\ proc[p].base \in Documents
    BY StoredIs DEF IInv, ProcsTyped, Built
  <2>2. /\ merged \in Documents /\ Stripped(merged) = merged
        /\ DOMAIN Stored \subseteq DOMAIN merged
        /\ \A k \in DOMAIN Stored : merged[k] = Stored[k]
    BY <2>1, MergedIs
  <2> HIDE DEF merged
  <2>3. RestartList \subseteq Keys
    BY DEF RestartList, IInv, StoreTyped, RowType
  <2>4. row' # NoRow
    BY <1>2, <2>2, <2>3, RowIsThere DEF RowType
  <2>5. Stored' = merged
    BY <1>2, <2>2, <2>4 DEF Stored
  <2>6. Register!Displace(Stored)
    BY <1>2, <2>1, CaptureIs DEF IInv, StoreTyped, Register!Displace
  <2> QED
    BY <2>2, <2>5, <2>6 DEF Register!Complete
<1> QED
  BY <1>1, <1>2 DEF Convert

\* A seed completes the empty document, or leaves the one it finds.
LEMMA SeedRefines ==
  ASSUME IInv, NEW p \in Procs, Seed(p)
  PROVE  Register!Complete \/ UNCHANGED Register!vars
<1>1. UNCHANGED <<accepted, edits>> /\ proc[p].st \in {"seed", "seeding"}
  BY DEF Seed, bounds
<1> DEFINE written == row # NoRow /\ row.doc # Empty
           d == IF written THEN Stored ELSE Stripped(proc[p].base)
<1>2. CASE UNCHANGED store
  BY <1>1, <1>2 DEF store, Register!vars, Stored
<1>3. CASE Convert(p)
  BY <1>1, <1>3, ConvertRefines
<1>4. CASE /\ row' = IF written THEN row
                     ELSE [doc |-> d, format |-> 2, restart |-> RestartList]
           /\ UNCHANGED snapshots
  <2>1. CASE written
    BY <1>1, <1>4, <2>1 DEF Register!vars, Stored
  <2>2. CASE ~written
    <3>1. Stored = Empty
      BY <2>2, EmptyIsDocument DEF Stored
    <3>2. proc[p].base \in Documents
      BY <1>1 DEF IInv, ProcsTyped, Built
    <3>3. d \in Documents /\ Stripped(d) = d
      BY <2>2, <3>2, StrippedIs
    <3> HIDE DEF d
    <3>4. row' = [doc |-> d, format |-> 2, restart |-> RestartList] /\ RestartList \subseteq Keys
      BY <1>4, <2>2 DEF RestartList, IInv, StoreTyped, RowType
    <3>5. Stored' = d
      BY <3>3, <3>4, RowIsThere DEF Stored, RowType
    <3>6. Register!Displace(Stored)
      BY <1>4, <3>1 DEF Register!Displace
    <3> QED
      BY <1>1, <3>1, <3>3, <3>5, <3>6, EmptyIsDocument DEF Register!Complete
  <2> QED
    BY <2>1, <2>2
<1> QED
  BY <1>2, <1>3, <1>4 DEF Seed, SeedLocked

\* An accepted save named the document under the lock, or none.
LEMMA PersistRefines ==
  ASSUME IInv, NEW r \in Requests, Persist(r)
  PROVE  Register!Write \/ UNCHANGED Register!vars
<1> DEFINE q == req[r]
<1>1. CASE UNCHANGED <<store, accepted>>
  BY <1>1 DEF Persist, store, Register!vars, Stored
<1>2. CASE /\ ~Refused(r)
           /\ snapshots' = Capture(Stored, IF Whole THEN 2 ELSE 1)
           /\ row' = Written(r)
           /\ accepted' = [named |-> q.named, stored |-> q.doc]
  <2>1. q.doc \in Documents /\ DOMAIN q.doc \subseteq Keys /\ q.whole \in BOOLEAN
    BY DEF Persist, IInv, ReqsTyped, ReqType, Judged
  <2>2. Written(r) \in RowType /\ Written(r).doc = q.doc
    <3> DEFINE paths == RestartPaths(proc[q.proc].booted, proc[q.proc].object, q.after)
               f == IF q.whole THEN 2 ELSE IF row = NoRow THEN 1 ELSE row.format
    <3>1. Written(r) = [doc |-> q.doc, format |-> f, restart |-> paths]
      BY DEF Written, LockedRow
    <3>2. paths \subseteq Keys /\ f \in {1, 2}
      BY DEF RestartPaths, Changed, IInv, StoreTyped, RowType
    <3> HIDE DEF paths, f
    <3> QED
      BY <2>1, <3>1, <3>2 DEF RowType
  <2>3. Stored' = q.doc
    BY <1>2, <2>1, <2>2, RowIsThere, StrippedIs DEF Stored
  <2>4. q.named \in {Anything, Stored}
    BY <1>2 DEF Refused, LockedRow, Stored
  <2>5. Register!Displace(Stored)
    BY <1>2, StoredIs, CaptureIs DEF IInv, StoreTyped, Register!Displace
  <2> QED
    BY <1>2, <2>1, <2>3, <2>4, <2>5 DEF Register!Write, Persist
<1> QED
  BY <1>1, <1>2 DEF Persist

\* Every step is one of the register or leaves the register alone.
LEMMA NextRefines == IInv /\ [Next]_vars => [Register!Next]_(Register!vars)
<1> SUFFICES ASSUME IInv, [Next]_vars
             PROVE  Register!Next \/ UNCHANGED Register!vars
  OBVIOUS
<1>1. ASSUME NEW p \in Procs,
             Build(p) \/ Load(p) \/ Migrate(p) \/ Seed(p) \/ ClearRestart(p) \/ Crash(p)
      PROVE  Register!Next \/ UNCHANGED Register!vars
  <2>1. CASE Build(p) \/ Load(p) \/ Crash(p)
    BY <2>1 DEF Build, Load, Crash, store, bounds, Register!vars, Stored
  <2>2. CASE Migrate(p)
    BY <2>2, ConvertRefines DEF Migrate, bounds, Register!Next
  <2>3. CASE Seed(p)
    BY <2>3, SeedRefines DEF Register!Next
  <2>4. CASE ClearRestart(p)
    <3>1. Stored' = Stored
      <4>1. CASE row = NoRow
        BY <2>4, <4>1 DEF ClearRestart, Stored
      <4>2. CASE row # NoRow
        <5>1. row \in RowType /\ row' = [row EXCEPT !.restart = {}]
          BY <2>4, <4>2 DEF ClearRestart, IInv, StoreTyped
        <5>2. row' \in RowType /\ row'.doc = row.doc
          BY <5>1 DEF RowType
        <5> QED
          BY <4>2, <5>2, RowIsThere DEF Stored
      <4> QED
        BY <4>1, <4>2
    <3> QED
      BY <2>4, <3>1 DEF ClearRestart, bounds, Register!vars
  <2> QED
    BY <1>1, <2>1, <2>2, <2>3, <2>4
<1>2. ASSUME NEW r \in Requests,
             OpenPage(r) \/ Save(r) \/ Restore(r) \/ ImportFile(r) \/ TakeAdvisory(r) \/ Persist(r)
      PROVE  Register!Next \/ UNCHANGED Register!vars
  <2>1. CASE Persist(r)
    BY <2>1, PersistRefines DEF Register!Next
  <2>2. CASE OpenPage(r) \/ Save(r) \/ Restore(r) \/ ImportFile(r) \/ TakeAdvisory(r)
    BY <2>2 DEF OpenPage, Save, Restore, ImportFile, TakeAdvisory, store, bounds,
       Register!vars, Stored
  <2> QED
    BY <1>2, <2>1, <2>2
<1>3. CASE EditFile \/ DeleteRow
  <2>1. Stored' \in Documents
    BY <1>3, StoredIs, EmptyIsDocument DEF IInv, EditFile, DeleteRow, store, Stored
  <2> QED
    BY <1>3, <2>1 DEF EditFile, DeleteRow, store, Register!Next, Register!Intervene
<1>4. CASE UNCHANGED vars
  BY <1>4 DEF vars, store, bounds, Register!vars, Stored
<1> QED
  BY <1>1, <1>2, <1>3, <1>4 DEF Next

\* The configuration store is a compare-and-set register: whatever processes,
\* locks, formats and crashes lie between, no accepted write replaces a
\* document its sender had not seen, a boot only ever completes a document,
\* and what is displaced is kept in the step that displaces it
\* (_persist_and_swap, seed_store, migrate_delta_to_document).
THEOREM StoreIsARegister == Spec => RegisterSpec
<1>1. Init => Register!Init
  BY InitIInv, InitRefines
<1> QED
  BY <1>1, StoreInvariant, NextRefines, PTL DEF Spec, RegisterSpec, Register!Spec

(***************************************************************************)
(* Deployment: what holds of every state                                   *)
(***************************************************************************)
\* What the wizard, the markers and a card's request are.
DocumentType == {None} \cup SUBSET Servers
NamesType == {None} \cup SUBSET Names
WritingSteps == {"document", "address", "migrate", "store", "secrets"}
WizardType ==
    [token : BOOLEAN, staged : Layer, doc : DocumentType, step : {"steps", "checked"} \cup WritingSteps,
     doc2 : DocumentType]
CardType == [does : {"save", "clear", "remove"}, server : Servers, saw : DocumentType]

Typed ==
    /\ DeploymentTypeOK
    /\ wiz \in WizardType
    /\ marks \in [stored : NamesType, file : NamesType, environment : NamesType]
    /\ last \in [by : {"container", "finish", "blind finish", "restart"}, blind : BOOLEAN]
    /\ migrated \in BOOLEAN
    /\ mode # "wizard" => wiz = NoWizard
    /\ \A r \in Cards : card[r] # None => mode = "app" /\ card[r] \in CardType
    /\ DOMAIN card = Cards

\* The environment of a process repeats the container's, and what the markers
\* say of it is true.
Origins ==
    /\ mode # "off" => DOMAIN env \subseteq DOMAIN environ
    /\ marks.environment \in {None, DOMAIN env}
    /\ mode \in {"wizard", "app"} => marks.stored # None /\ marks.file # None /\ marks.environment # None
    /\ mode = "boot" /\ marks.environment = None => environ = env
    /\ marks.file # None => marks.file \subseteq DOMAIN statefile
    /\ marks.stored # None => Db \notin marks.stored
    /\ Hard \cap DOMAIN environ \subseteq DOMAIN Sources

\* What the volume and the database hold together.
Stores ==
    /\ rows # Nothing \/ docrow # None => migrated
    /\ migrated => Db \in DOMAIN env \cup DOMAIN statefile
    /\ statefile # Nothing \/ rows # Nothing => docfile # None \/ docrow # None
    /\ mode = "app" => docrow # None /\ migrated /\ Hard \subseteq DOMAIN Sources

\* How far a finish has come.
Finishing ==
    /\ wiz.doc # None => docfile \in {None, wiz.doc}
    /\ wiz.doc2 # None => docrow = wiz.doc2
    /\ wiz.step # "steps" =>
          /\ ConfigReady
          /\ Db \in DOMAIN env \cup DOMAIN statefile \cup DOMAIN wiz.staged
    /\ wiz.step \in WritingSteps =>
          /\ docfile # None \/ wiz.doc2 # None
          /\ wiz.doc # None => docfile = wiz.doc
    /\ wiz.step \in WritingSteps \ {"document"} => Db \in DOMAIN env \cup DOMAIN statefile
    /\ wiz.step = "secrets" /\ migrated => DOMAIN ToStore \subseteq DOMAIN rows
    /\ mode = "wizard" => marks.stored \subseteq DOMAIN rows
    /\ mode = "wizard" /\ ~last.blind /\ wiz.doc2 = None => docrow \in {None, docfile}
    /\ mode = "boot" /\ last.by = "finish" => WouldServe

Wins ==
    mode = "app" /\ ~last.blind => \A n \in DOMAIN rows : n \in DOMAIN held /\ held[n] = rows[n]

DInv == Typed /\ Origins /\ Stores /\ Finishing /\ Wins /\ FinishReachesTheApplication

\* What a card's request looked at still stands, where no other runs beside it.
CardStands(r) ==
    LET s == card[r].server
    IN  /\ card[r].does = "save" =>
              Cred[s] \in (DOMAIN environ \ (marks.stored \ DOMAIN rows)) \cup DOMAIN statefile \cup DOMAIN rows
        /\ card[r].does = "clear" /\ s \in docrow => Cred[s] \in DOMAIN statefile \cup DOMAIN env
        /\ card[r].does = "remove" => s \in card[r].saw /\ card[r].saw # {s}

CardsStand == \A r \in Cards : card[r] # None => CardStands(r)

(***************************************************************************)
(* Layers                                                                  *)
(***************************************************************************)
LEMMA LayerIs ==
  ASSUME NEW f
  PROVE  f \in Layer <=> DOMAIN f \subseteq Names /\ f \in [DOMAIN f -> Values]
<1>1. ASSUME f \in Layer
      PROVE  DOMAIN f \subseteq Names /\ f \in [DOMAIN f -> Values]
  <2>1. PICK S \in SUBSET Names : f \in [S -> Values]
    BY <1>1 DEF Layer
  <2>2. DOMAIN f = S
    BY <2>1
  <2> QED
    BY <2>1, <2>2
<1>2. ASSUME DOMAIN f \subseteq Names, f \in [DOMAIN f -> Values]
      PROVE  f \in Layer
  <2> DEFINE S == DOMAIN f
  <2>1. S \in SUBSET Names /\ f \in [S -> Values]
    BY <1>2
  <2> HIDE DEF S
  <2> QED
    BY <2>1 DEF Layer
<1> QED
  BY <1>1, <1>2

LEMMA NothingIs ==
  /\ Nothing \in Layer /\ DOMAIN Nothing = {}
  /\ \A f \in Layer : f = Nothing <=> DOMAIN f = {}
<1>1. DOMAIN Nothing = {} /\ Nothing = [k \in {} |-> Nothing[k]]
  BY DEF Nothing
<1>2. Nothing \in [DOMAIN Nothing -> Values]
  BY <1>1
<1>3. Nothing \in Layer
  BY <1>1, <1>2, LayerIs
<1>4. ASSUME NEW f \in Layer, DOMAIN f = {}
      PROVE  f = Nothing
  <2>1. f \in [DOMAIN f -> Values]
    BY LayerIs
  <2>2. f = [k \in {} |-> f[k]]
    BY <1>4, <2>1
  <2>3. [k \in {} |-> f[k]] = [k \in {} |-> Nothing[k]]
    OBVIOUS
  <2> QED
    BY <1>1, <2>2, <2>3
<1> QED
  BY <1>1, <1>3, <1>4

\* What is written over a layer wins, and the rest of it stays.
LEMMA WithIs ==
  ASSUME NEW f \in Layer, NEW g \in Layer
  PROVE  /\ With(f, g) \in Layer /\ DOMAIN With(f, g) = DOMAIN f \cup DOMAIN g
         /\ \A n \in DOMAIN g : With(f, g)[n] = g[n]
         /\ \A n \in DOMAIN f \ DOMAIN g : With(f, g)[n] = f[n]
<1>1. /\ DOMAIN f \subseteq Names /\ f \in [DOMAIN f -> Values]
      /\ DOMAIN g \subseteq Names /\ g \in [DOMAIN g -> Values]
  BY LayerIs
<1> DEFINE h == With(f, g)
           F == DOMAIN f
           G == DOMAIN g
<1>2. h = [n \in F \cup G |-> IF n \in G THEN g[n] ELSE f[n]]
  BY DEF With
<1>3. f \in [F -> Values] /\ g \in [G -> Values]
  BY <1>1
<1> HIDE DEF F, G, h
<1>4. h \in [F \cup G -> Values] /\ DOMAIN h = F \cup G /\ (\A n \in G : h[n] = g[n]) /\ (\A n \in F \ G : h[n] = f[n])
  BY <1>2, <1>3
<1>5. h \in Layer
  <2>1. DOMAIN h \subseteq Names /\ h \in [DOMAIN h -> Values]
    BY <1>1, <1>4 DEF F, G
  <2> QED
    BY <2>1, LayerIs
<1> QED
  BY <1>4, <1>5 DEF F, G, h

LEMMA WithoutIs ==
  ASSUME NEW f \in Layer, NEW S
  PROVE  /\ Without(f, S) \in Layer /\ DOMAIN Without(f, S) = DOMAIN f \ S
         /\ \A n \in DOMAIN f \ S : Without(f, S)[n] = f[n]
<1>1. DOMAIN f \subseteq Names /\ f \in [DOMAIN f -> Values]
  BY LayerIs
<1> DEFINE h == Without(f, S)
           F == DOMAIN f
<1>2. h = [n \in F \ S |-> f[n]]
  BY DEF Without
<1>3. f \in [F -> Values]
  BY <1>1
<1> HIDE DEF F, h
<1>4. h \in [F \ S -> Values] /\ DOMAIN h = F \ S /\ \A n \in F \ S : h[n] = f[n]
  BY <1>2, <1>3
<1>5. DOMAIN h \subseteq Names /\ h \in [DOMAIN h -> Values]
  BY <1>1, <1>4 DEF F
<1>6. h \in Layer
  BY <1>5, LayerIs
<1> QED
  BY <1>4, <1>6 DEF F, h

LEMMA OneIs ==
  ASSUME NEW n \in Names, NEW v \in Values
  PROVE  One(n, v) \in Layer /\ DOMAIN One(n, v) = {n} /\ One(n, v)[n] = v
<1> DEFINE h == One(n, v)
<1>1. h = [m \in {n} |-> v]
  BY DEF One
<1> HIDE DEF h
<1>2. h \in [{n} -> Values] /\ DOMAIN h = {n} /\ h[n] = v
  BY <1>1
<1>3. h \in Layer
  BY <1>2, LayerIs
<1> QED
  BY <1>2, <1>3 DEF h

LEMMA ConstantsAre ==
  /\ Db # Web /\ Db \in Names /\ Web \in Names /\ Db \in Hard /\ Web \in Hard /\ Hard \subseteq Names
  /\ \A s \in Servers : Cred[s] \in Names /\ Cred[s] \notin Hard /\ Cred[s] # Db /\ Cred[s] # Web
  /\ \A f \in Layer : f # None
BY NamesAssumption, CredAssumption, NoneAssumption

\* A name is never answered by more than the environment, the state file and
\* the rows; a row answers for itself.
LEMMA ResolveIs ==
  ASSUME environ \in Layer, statefile \in Layer, NEW stored \in Layer
  PROVE  /\ Resolve(stored) \in Layer
         /\ DOMAIN Resolve(stored) \subseteq DOMAIN environ \cup DOMAIN statefile \cup DOMAIN stored
         /\ DOMAIN Resolve(stored) \subseteq
               (DOMAIN environ \ Echoes(stored)) \cup DOMAIN statefile \cup DOMAIN stored
         /\ stored # Nothing =>
               /\ DOMAIN Resolve(stored) =
                     (DOMAIN environ \ Echoes(stored)) \cup DOMAIN statefile \cup DOMAIN stored
               /\ \A n \in DOMAIN stored : Resolve(stored)[n] = stored[n]
<1>1. Found(stored) = stored
  BY ConstantsAre DEF Found
<1>2. CASE EnvironmentComplete(stored)
  <2>1. Resolve(stored) = environ /\ stored = Nothing /\ Echoes(stored) = {}
    BY <1>1, <1>2 DEF Resolve, EnvironmentComplete
  <2> QED
    BY <2>1
<1>3. CASE ~EnvironmentComplete(stored)
  <2> DEFINE e == Without(environ, Echoes(stored))
             m == With(e, statefile)
  <2>1. Resolve(stored) = With(m, stored)
    BY <1>1, <1>3 DEF Resolve
  <2>2. e \in Layer /\ DOMAIN e = DOMAIN environ \ Echoes(stored)
    BY WithoutIs
  <2> HIDE DEF e
  <2>3. m \in Layer /\ DOMAIN m = DOMAIN e \cup DOMAIN statefile
    BY <2>2, WithIs
  <2> HIDE DEF m
  <2>4. /\ With(m, stored) \in Layer /\ DOMAIN With(m, stored) = DOMAIN m \cup DOMAIN stored
        /\ \A n \in DOMAIN stored : With(m, stored)[n] = stored[n]
    BY <2>3, WithIs
  <2> QED
    BY <2>1, <2>2, <2>3, <2>4
<1> QED
  BY <1>2, <1>3

\* Nothing is an echo when nothing was looked for, so the environment and the
\* state file answer, the latter only where the former lacks a hard name.
LEMMA ResolveUnasked ==
  ASSUME environ \in Layer, statefile \in Layer
  PROVE  /\ Resolve(None) \in Layer
         /\ DOMAIN Resolve(None) =
               IF Hard \subseteq DOMAIN environ THEN DOMAIN environ
               ELSE DOMAIN environ \cup DOMAIN statefile
         /\ Db \in DOMAIN Resolve(None) <=> Db \in DOMAIN environ \cup DOMAIN statefile
<1>1. Found(None) = Nothing /\ Echoes(None) = {}
  BY DEF Found, Echoes
<1>2. CASE Hard \subseteq DOMAIN environ
  <2>1. Resolve(None) = environ
    BY <1>1, <1>2 DEF Resolve, EnvironmentComplete
  <2> QED
    BY <1>2, <2>1, ConstantsAre
<1>3. CASE ~(Hard \subseteq DOMAIN environ)
  <2> DEFINE e == Without(environ, {})
             m == With(e, statefile)
  <2>1. Resolve(None) = With(m, Nothing)
    BY <1>1, <1>3 DEF Resolve, EnvironmentComplete
  <2>2. e \in Layer /\ DOMAIN e = DOMAIN environ
    BY WithoutIs
  <2> HIDE DEF e
  <2>3. m \in Layer /\ DOMAIN m = DOMAIN environ \cup DOMAIN statefile
    BY <2>2, WithIs
  <2> HIDE DEF m
  <2>4. With(m, Nothing) \in Layer /\ DOMAIN With(m, Nothing) = DOMAIN m
    <3>1. Nothing \in Layer /\ DOMAIN Nothing = {}
      BY NothingIs
    <3>2. With(m, Nothing) \in Layer /\ DOMAIN With(m, Nothing) = DOMAIN m \cup DOMAIN Nothing
      BY <2>3, <3>1, WithIs
    <3> QED
      BY <3>1, <3>2
  <2> QED
    BY <1>3, <2>1, <2>3, <2>4
<1> QED
  BY <1>2, <1>3

\* More names answered never make a configured start unconfigured.
LEMMA ConfiguredGrows ==
  ASSUME NEW f, NEW g, DOMAIN f \subseteq DOMAIN g, NEW d, IsConfigured(f, d)
  PROVE  IsConfigured(g, d)
BY DEF IsConfigured, ServersUsable

LEMMA StateIs ==
  ASSUME DInv
  PROVE  /\ env \in Layer /\ environ \in Layer /\ statefile \in Layer /\ rows \in Layer /\ held \in Layer
         /\ wiz.staged \in Layer
         /\ docfile \in DocumentType /\ docrow \in DocumentType /\ wiz.doc \in DocumentType /\ wiz.doc2 \in DocumentType
         /\ Db \notin DOMAIN rows
         /\ DOMAIN Sources = DOMAIN env \cup DOMAIN statefile \cup DOMAIN rows
         /\ NoWizard \in WizardType
         /\ NoMarks \in [stored : NamesType, file : NamesType, environment : NamesType]
<1>1. /\ env \in Layer /\ environ \in Layer /\ statefile \in Layer /\ rows \in Layer /\ held \in Layer
      /\ wiz.staged \in Layer /\ Db \notin DOMAIN rows
      /\ docfile \in DocumentType /\ docrow \in DocumentType /\ wiz.doc \in DocumentType /\ wiz.doc2 \in DocumentType
  BY DEF DInv, Typed, DeploymentTypeOK, DocumentType
<1>2. DOMAIN Sources = DOMAIN env \cup DOMAIN statefile \cup DOMAIN rows
  <2> DEFINE h == With(env, statefile)
  <2>1. h \in Layer /\ DOMAIN h = DOMAIN env \cup DOMAIN statefile
    BY <1>1, WithIs
  <2> HIDE DEF h
  <2>2. DOMAIN With(h, rows) = DOMAIN h \cup DOMAIN rows
    BY <1>1, <2>1, WithIs
  <2> QED
    BY <2>1, <2>2 DEF h, Sources
<1>3. NoWizard \in WizardType
  BY NothingIs DEF NoWizard, WizardType, DocumentType
<1>4. NoMarks \in [stored : NamesType, file : NamesType, environment : NamesType]
  BY DEF NoMarks, NamesType
<1> QED
  BY <1>1, <1>2, <1>3, <1>4

(***************************************************************************)
(* Starts and ends of a process                                            *)
(***************************************************************************)
LEMMA OffKeeps ==
  ASSUME DInv, UNCHANGED <<env, volume, database>>, NEW e \in Layer, NEW m, Off(e, m),
         mode' \in {"off", "boot"},
         mode' = "boot" => DOMAIN env \subseteq DOMAIN e,
         Hard \cap DOMAIN e \subseteq DOMAIN Sources,
         m \in [stored : NamesType, file : NamesType, environment : NamesType],
         m.environment \in {None, DOMAIN env},
         mode' = "boot" /\ m.environment = None => e = env,
         m.file # None => m.file \subseteq DOMAIN statefile,
         m.stored # None => Db \notin m.stored,
         last' \in [by : {"container", "finish", "blind finish", "restart"}, blind : BOOLEAN],
         (mode = "boot" /\ last.by = "finish" => WouldServe)'
  PROVE  DInv' /\ CardsStand'
<1> USE StateIs
<1>1. /\ env' = env /\ statefile' = statefile /\ docfile' = docfile /\ rows' = rows /\ migrated' = migrated
      /\ docrow' = docrow /\ environ' = e /\ marks' = m /\ held' = Nothing /\ wiz' = NoWizard
      /\ card' = [r \in Cards |-> None]
  BY DEF volume, database, Off
<1>2. /\ wiz'.step = "steps" /\ wiz'.doc = None /\ wiz'.doc2 = None /\ wiz'.staged = Nothing
      /\ mode' # "wizard" /\ mode' # "app"
  BY <1>1 DEF NoWizard
<1>3. Typed'
  <2>1. DeploymentTypeOK'
    BY <1>1, <1>2, NothingIs DEF DeploymentTypeOK, DocumentType
  <2>2. wiz' \in WizardType
    BY <1>1
  <2>3. \A r \in Cards : card'[r] = None
    BY <1>1
  <2>4. DOMAIN card' = Cards
    BY <1>1
  <2>5. migrated' \in BOOLEAN
    BY <1>1 DEF DInv, Typed
  <2> QED
    BY <1>1, <2>1, <2>2, <2>3, <2>4, <2>5 DEF Typed
<1>4. Origins'
  <2>1. Sources' = Sources
    BY <1>1 DEF Sources
  <2> QED
    BY <1>1, <1>2, <2>1 DEF Origins
<1>5. Stores'
  BY <1>1, <1>2 DEF DInv, Stores
<1>6. Finishing'
  BY <1>2 DEF Finishing, WritingSteps
<1>7. Wins' /\ FinishReachesTheApplication'
  BY <1>2 DEF Wins, FinishReachesTheApplication
<1>8. CardsStand'
  BY <1>1 DEF CardsStand
<1> QED
  BY <1>3, <1>4, <1>5, <1>6, <1>7, <1>8 DEF DInv

LEMMA StartKeeps ==
  ASSUME DInv, Start
  PROVE  DInv' /\ CardsStand'
<1> USE StateIs
<1>1. /\ UNCHANGED <<env, volume, database>> /\ mode' = "boot" /\ Off(env, NoMarks)
      /\ last' = [by |-> "container", blind |-> FALSE]
  BY DEF Start
<1>2. NoMarks.environment = None /\ NoMarks.file = None /\ NoMarks.stored = None
  BY DEF NoMarks
<1>3. last'.by = "container" /\ last' \in [by : {"container", "finish", "blind finish", "restart"}, blind : BOOLEAN]
  BY <1>1
<1>4. Hard \cap DOMAIN env \subseteq DOMAIN Sources
  OBVIOUS
<1> QED
  BY <1>1, <1>2, <1>3, <1>4, OffKeeps

\* The process ends and leaves the volume and the database as they are.
LEMMA ExitKeeps ==
  ASSUME DInv, Exits, UNCHANGED <<env, volume, database>>,
         last' \in [by : {"container", "finish", "blind finish", "restart"}, blind : BOOLEAN]
  PROVE  DInv' /\ CardsStand'
<1> USE StateIs
<1>1. mode' = "off" /\ Off(Nothing, NoMarks)
  BY DEF Exits
<1>2. NoMarks.environment = None /\ NoMarks.file = None /\ NoMarks.stored = None
  BY DEF NoMarks
<1>3. Nothing \in Layer /\ Hard \cap DOMAIN Nothing \subseteq DOMAIN Sources
  BY NothingIs
<1> QED
  BY <1>1, <1>2, <1>3, OffKeeps

\* A restart in place hands its environment on.
LEMMA RestartKeeps ==
  ASSUME DInv, mode \in {"wizard", "app"}, NEW by \in {"finish", "blind finish", "restart"},
         Restarts(environ, by), UNCHANGED <<env, volume, database>>,
         by = "finish" => WouldServe'
  PROVE  DInv' /\ CardsStand'
<1> USE StateIs
<1>1. mode' = "boot" /\ Off(environ, marks) /\ last' = [by |-> by, blind |-> FALSE]
  BY DEF Restarts
<1>2. last'.by = by /\ last' \in [by : {"container", "finish", "blind finish", "restart"}, blind : BOOLEAN]
  BY <1>1
<1>3. /\ DOMAIN env \subseteq DOMAIN environ /\ Hard \cap DOMAIN environ \subseteq DOMAIN Sources
      /\ marks.environment \in {None, DOMAIN env} /\ marks.environment # None
      /\ marks.file # None => marks.file \subseteq DOMAIN statefile
      /\ marks.stored # None => Db \notin marks.stored
  BY DEF DInv, Origins
<1>4. marks \in [stored : NamesType, file : NamesType, environment : NamesType]
  BY DEF DInv, Typed
<1> QED
  BY <1>1, <1>2, <1>3, <1>4, OffKeeps

(***************************************************************************)
(* The entrypoint                                                          *)
(***************************************************************************)
\* The database URL is answered outside the table once the table exists.
LEMMA AddressIsKnown ==
  ASSUME DInv, migrated, mode # "off"
  PROVE  /\ Db \in DOMAIN Resolve(None)
         /\ rows # Nothing => Db \in DOMAIN Resolve(rows)
<1> USE StateIs
<1>1. Db \in DOMAIN environ \cup DOMAIN statefile
  BY DEF DInv, Stores, Origins
<1>2. Db \notin Echoes(rows)
  BY DEF Echoes, DInv, Origins
<1>3. Db \in DOMAIN Resolve(None)
  BY <1>1, ResolveUnasked
<1>4. ASSUME rows # Nothing PROVE Db \in DOMAIN Resolve(rows)
  <2>1. DOMAIN Resolve(rows) = (DOMAIN environ \ Echoes(rows)) \cup DOMAIN statefile \cup DOMAIN rows
    BY <1>4, ResolveIs
  <2> QED
    BY <1>1, <1>2, <2>1
<1> QED
  BY <1>3, <1>4

LEMMA BootKeeps ==
  ASSUME DInv, Boot
  PROVE  DInv' /\ CardsStand'
<1> USE StateIs
<1> DEFINE first == Resolve(None)
           stored(a) == ReadSecrets(first, a)
           resolved(a) == IF stored(a) = Nothing THEN first ELSE Resolve(stored(a))
           document(a, b) == ReadDocument(resolved(a), b)
           exported(a) == Export(resolved(a))
           marked(a) == [stored |-> DOMAIN stored(a),
                         file |-> IF stored(a) = Nothing /\ Hard \subseteq EnvironmentNames THEN {}
                                  ELSE DOMAIN statefile \ DOMAIN stored(a),
                         environment |-> EnvironmentNames]
<1> DEFINE failed(a) == Db \in DOMAIN first /\ ~a
           serves(a, b, c) ==
              /\ IsConfigured(resolved(a), document(a, b)) /\ c
              /\ mode' = "app"
              /\ migrated' = TRUE
              /\ environ' = exported(a) /\ marks' = marked(a)
              /\ held' = exported(a)
              /\ docrow' = IF docrow = None THEN docfile ELSE docrow
              /\ UNCHANGED <<wiz, card>>
           exits(a, b, c) ==
              /\ \/ IsConfigured(resolved(a), document(a, b)) /\ ~c
                 \/ /\ ~IsConfigured(resolved(a), document(a, b))
                    /\ ~(Hard \subseteq DOMAIN resolved(a)) /\ failed(a)
                 \/ /\ ~IsConfigured(resolved(a), document(a, b))
                    /\ Hard \subseteq DOMAIN resolved(a)
                    /\ document(a, b) = None /\ docfile = None
              /\ Exits
              /\ UNCHANGED <<migrated, docrow>>
           asks(a, b) ==
              /\ ~IsConfigured(resolved(a), document(a, b))
              /\ IF Hard \subseteq DOMAIN resolved(a)
                 THEN ~(document(a, b) = None /\ docfile = None) ELSE ~failed(a)
              /\ mode' = "wizard"
              /\ environ' = exported(a) /\ marks' = marked(a)
              /\ held' = Nothing
              /\ wiz' = [NoWizard EXCEPT !.doc2 = document(a, b)]
              /\ UNCHANGED <<card, migrated, docrow>>
<1>0. PICK a \in BOOLEAN, b \in BOOLEAN, c \in BOOLEAN :
        /\ Db \notin DOMAIN first => a /\ b /\ c
        /\ last' = [last EXCEPT !.blind = ~(a /\ b)]
        /\ serves(a, b, c) \/ exits(a, b, c) \/ asks(a, b)
  BY SMTT(60) DEF Boot
<1>1. /\ last' = [last EXCEPT !.blind = ~(a /\ b)]
      /\ \/ /\ IsConfigured(resolved(a), document(a, b)) /\ mode' = "app" /\ migrated' = TRUE
            /\ environ' = exported(a) /\ marks' = marked(a) /\ held' = exported(a)
            /\ docrow' = IF docrow = None THEN docfile ELSE docrow
            /\ UNCHANGED <<wiz, card>>
         \/ Exits /\ UNCHANGED <<migrated, docrow>>
         \/ /\ ~IsConfigured(resolved(a), document(a, b)) /\ mode' = "wizard"
            /\ environ' = exported(a) /\ marks' = marked(a) /\ held' = Nothing
            /\ wiz' = [NoWizard EXCEPT !.doc2 = document(a, b)]
            /\ UNCHANGED <<card, migrated, docrow>>
  <2> HIDE DEF resolved, document, exported, marked, first, failed
  <2> QED
    BY <1>0, Zenon
<1> HIDE DEF serves, exits, asks, failed
<1>2. mode = "boot" /\ UNCHANGED <<env, volume, rows, counts>>
  BY DEF Boot
<1>3. /\ last'.by = last.by /\ last'.blind = ~(a /\ b)
      /\ last' \in [by : {"container", "finish", "blind finish", "restart"}, blind : BOOLEAN]
  BY <1>1 DEF DInv, Typed
<1>4. first \in Layer /\ DOMAIN first \subseteq DOMAIN environ \cup DOMAIN statefile
  BY ResolveUnasked
<1>5. stored(a) \in {rows, Nothing} /\ stored(a) \in Layer /\ DOMAIN stored(a) \subseteq DOMAIN rows
  BY NothingIs DEF ReadSecrets
<1> DEFINE s == stored(a)
           f == first
<1>6. resolved(a) \in Layer /\ DOMAIN resolved(a) \subseteq DOMAIN environ \cup DOMAIN statefile \cup DOMAIN rows
  <2>1. s \in Layer /\ DOMAIN s \subseteq DOMAIN rows /\ f \in Layer /\ DOMAIN f \subseteq DOMAIN environ \cup DOMAIN statefile
    BY <1>4, <1>5
  <2>2. resolved(a) = IF s = Nothing THEN f ELSE Resolve(s)
    OBVIOUS
  <2> HIDE DEF s, f, resolved
  <2>3. Resolve(s) \in Layer /\ DOMAIN Resolve(s) \subseteq DOMAIN environ \cup DOMAIN statefile \cup DOMAIN s
    BY <2>1, ResolveIs
  <2> QED
    BY <2>1, <2>2, <2>3
<1>7. exported(a) \in Layer /\ DOMAIN exported(a) = DOMAIN environ \cup DOMAIN resolved(a)
      /\ \A n \in DOMAIN resolved(a) : exported(a)[n] = resolved(a)[n]
  <2> HIDE DEF resolved
  <2> QED
    BY <1>6, WithIs DEF Export
<1>8. document(a, b) \in {None, docrow}
  BY DEF ReadDocument
<1>9. EnvironmentNames = DOMAIN env
  BY <1>2 DEF EnvironmentNames, DInv, Origins
<1>10. /\ marked(a).stored = DOMAIN s /\ marked(a).environment = DOMAIN env
       /\ marked(a).file \subseteq DOMAIN statefile
       /\ marked(a) \in [stored : NamesType, file : NamesType, environment : NamesType]
  <2>1. DOMAIN s \subseteq Names /\ DOMAIN env \subseteq Names /\ DOMAIN statefile \subseteq Names
    BY <1>5, LayerIs
  <2> HIDE DEF s, stored
  <2> QED
    BY <1>9, <2>1 DEF NamesType, s
<1>11. Hard \cap DOMAIN exported(a) \subseteq DOMAIN env \cup DOMAIN statefile \cup DOMAIN rows
  <2>1. Hard \cap DOMAIN environ \subseteq DOMAIN env \cup DOMAIN statefile \cup DOMAIN rows
    BY DEF DInv, Origins
  <2> QED
    BY <1>6, <1>7, <2>1
<1>12. /\ env' = env /\ statefile' = statefile /\ docfile' = docfile /\ rows' = rows
  BY <1>2 DEF volume
<1>13. wiz = NoWizard /\ \A r \in Cards : card[r] = None
  BY <1>2 DEF DInv, Typed
<1>14. /\ docrow # None \/ rows # Nothing => migrated
       /\ migrated => Db \in DOMAIN Resolve(None) /\ (rows # Nothing => Db \in DOMAIN Resolve(rows))
  BY <1>2, AddressIsKnown DEF DInv, Stores
<1>15. a = TRUE => stored(a) = rows
  BY <1>14 DEF ReadSecrets
<1>16. a = TRUE /\ b = TRUE => document(a, b) = docrow
  <2> SUFFICES ASSUME a = TRUE, b = TRUE, docrow # None PROVE document(a, b) = docrow
    BY <1>8
  <2>1. Db \in DOMAIN resolved(a) /\ migrated
    BY <1>14, <1>15
  <2> HIDE DEF resolved
  <2> QED
    BY <2>1 DEF ReadDocument
<1> HIDE DEF first, stored, resolved, document, exported, marked, s, f
<1>17. CASE Exits /\ UNCHANGED <<migrated, docrow>>
  <2>1. UNCHANGED <<env, volume, database>>
    BY <1>12, <1>17 DEF volume, database
  <2> QED
    BY <1>3, <1>17, <2>1, ExitKeeps
<1>a. ASSUME environ' = exported(a), marks' = marked(a), mode' \in {"wizard", "app"}
      PROVE  Origins'
  <2>1. DOMAIN Sources' = DOMAIN env \cup DOMAIN statefile \cup DOMAIN rows
    BY <1>12 DEF Sources
  <2>2. marks'.stored = DOMAIN s /\ marks'.stored # None /\ Db \notin marks'.stored
    <3>1. DOMAIN s \subseteq Names /\ Db \notin DOMAIN s
      BY <1>5, LayerIs DEF s
    <3> QED
      BY <1>a, <1>10, <3>1, NoneAssumption
  <2>3. marks'.file # None /\ marks'.file \subseteq DOMAIN statefile
    <3>1. DOMAIN statefile \subseteq Names
      BY LayerIs
    <3> QED
      BY <1>a, <1>10, <3>1, NoneAssumption
  <2>4. marks'.environment = DOMAIN env /\ DOMAIN env # None
    <3>1. DOMAIN env \subseteq Names
      BY LayerIs
    <3> QED
      BY <1>a, <1>10, <3>1, NoneAssumption
  <2>5. DOMAIN env \subseteq DOMAIN environ'
    BY <1>a, <1>2, <1>7 DEF DInv, Origins
  <2> QED
    BY <1>a, <1>11, <1>12, <2>1, <2>2, <2>3, <2>4, <2>5 DEF Origins
<1>18. CASE /\ IsConfigured(resolved(a), document(a, b)) /\ mode' = "app" /\ migrated' = TRUE
            /\ environ' = exported(a) /\ marks' = marked(a) /\ held' = exported(a)
            /\ docrow' = IF docrow = None THEN docfile ELSE docrow
            /\ UNCHANGED <<wiz, card>>
  <2>1. Hard \subseteq DOMAIN resolved(a) /\ docrow' # None /\ docrow' \in DocumentType
    BY <1>8, <1>18 DEF IsConfigured
  <2>2. Hard \subseteq DOMAIN Sources'
    <3>1. Hard \subseteq DOMAIN env \cup DOMAIN statefile \cup DOMAIN rows
      BY <1>7, <1>11, <2>1
    <3> QED
      BY <1>12, <3>1 DEF Sources
  <2>3. Db \in DOMAIN env \cup DOMAIN statefile
    BY <1>12, <2>2, ConstantsAre DEF Sources
  <2>4. Typed'
    <3>1. DeploymentTypeOK'
      BY <1>7, <1>12, <1>18, <2>1 DEF DeploymentTypeOK, DocumentType
    <3> QED
      BY <1>3, <1>10, <1>13, <1>18, <3>1 DEF Typed, DInv
  <2>5. Origins'
    BY <1>18, <1>a
  <2>6. Stores'
    BY <1>12, <1>18, <2>1, <2>2, <2>3 DEF Stores
  <2>7. wiz'.step = "steps" /\ wiz'.doc = None /\ wiz'.doc2 = None
    BY <1>13, <1>18 DEF NoWizard
  <2>8. Finishing'
    BY <1>18, <2>7 DEF Finishing, WritingSteps
  <2>9. Wins'
    <3> SUFFICES ASSUME ~last'.blind, NEW n \in DOMAIN rows PROVE n \in DOMAIN held' /\ held'[n] = rows[n]
      BY <1>12 DEF Wins
    <3>1. a = TRUE /\ rows # Nothing
      BY <1>3, NothingIs
    <3>2. stored(a) = rows /\ resolved(a) = Resolve(rows)
      BY <1>15, <3>1 DEF resolved
    <3>3. n \in DOMAIN Resolve(rows) /\ Resolve(rows)[n] = rows[n]
      BY <3>1, ResolveIs
    <3> QED
      BY <1>7, <1>18, <3>2, <3>3
  <2>10. FinishReachesTheApplication' /\ CardsStand'
    BY <1>13, <1>18 DEF FinishReachesTheApplication, CardsStand
  <2> QED
    BY <2>4, <2>5, <2>6, <2>8, <2>9, <2>10 DEF DInv
<1>19. CASE /\ ~IsConfigured(resolved(a), document(a, b)) /\ mode' = "wizard"
            /\ environ' = exported(a) /\ marks' = marked(a) /\ held' = Nothing
            /\ wiz' = [NoWizard EXCEPT !.doc2 = document(a, b)]
            /\ UNCHANGED <<card, migrated, docrow>>
  <2>1. wiz' = [token |-> FALSE, staged |-> Nothing, doc |-> None, step |-> "steps", doc2 |-> document(a, b)]
    BY <1>19 DEF NoWizard
  <2>2. wiz'.step = "steps" /\ wiz'.doc = None /\ wiz'.doc2 = document(a, b) /\ wiz'.staged = Nothing
    BY <2>1
  <2>3. wiz' \in WizardType
    <3>1. document(a, b) \in DocumentType /\ None \in DocumentType /\ Nothing \in Layer
      BY <1>8, NothingIs DEF DocumentType
    <3> QED
      BY <2>1, <3>1 DEF WizardType
  <2>4. Typed'
    <3>1. DeploymentTypeOK'
      BY <1>7, <1>8, <1>12, <1>19, <2>2, NothingIs DEF DeploymentTypeOK, DocumentType
    <3> QED
      BY <1>3, <1>10, <1>13, <1>19, <2>3, <3>1 DEF Typed, DInv
  <2>5. Origins'
    BY <1>19, <1>a
  <2>6. Stores'
    BY <1>12, <1>19 DEF Stores, DInv
  <2>7. marks'.stored \subseteq DOMAIN rows
    BY <1>5, <1>10, <1>19 DEF s
  <2>8. ~last'.blind => docrow = document(a, b)
    BY <1>3, <1>16
  <2>9. Finishing'
    BY <1>8, <1>12, <1>19, <2>2, <2>7, <2>8 DEF Finishing, WritingSteps
  <2>10. FinishReachesTheApplication'
    <3> SUFFICES ASSUME last.by = "finish", ~last'.blind PROVE FALSE
      BY <1>3 DEF FinishReachesTheApplication
    <3>1. WouldServe /\ a = TRUE /\ b = TRUE
      BY <1>2, <1>3 DEF DInv, Finishing
    <3>2. IsConfigured(resolved(a), document(a, b))
      BY <3>1, Zenon DEF WouldServe, resolved, document, stored, first
    <3> QED
      BY <1>19, <3>2
  <2>11. Wins' /\ CardsStand'
    BY <1>13, <1>19 DEF Wins, CardsStand
  <2> QED
    BY <2>4, <2>5, <2>6, <2>9, <2>10, <2>11 DEF DInv
<1> QED
  BY <1>1, <1>17, <1>18, <1>19

(***************************************************************************)
(* The wizard                                                              *)
(***************************************************************************)
\* A step of the wizard only adds to the volume and the database.
LEMMA GrowKeeps ==
  ASSUME DInv, mode = "wizard", UNCHANGED <<env, process, card, last>>,
         statefile' \in Layer, rows' \in Layer,
         DOMAIN statefile \subseteq DOMAIN statefile', DOMAIN rows \subseteq DOMAIN rows', Db \notin DOMAIN rows',
         docfile' \in DocumentType, docrow' \in DocumentType, migrated' \in BOOLEAN, wiz' \in WizardType
  PROVE  Typed' /\ Origins' /\ Wins' /\ FinishReachesTheApplication' /\ CardsStand'
<1> USE StateIs
<1>1. /\ env' = env /\ environ' = environ /\ marks' = marks /\ mode' = mode /\ held' = held
      /\ card' = card /\ last' = last /\ \A r \in Cards : card[r] = None
  BY DEF process, DInv, Typed
<1>2. Typed'
  <2>1. DeploymentTypeOK'
    BY <1>1 DEF DeploymentTypeOK, DocumentType, WizardType
  <2> QED
    BY <1>1, <2>1 DEF Typed, DInv
<1>3. Origins'
  <2> DEFINE h == With(env, statefile')
  <2>1. h \in Layer /\ DOMAIN h = DOMAIN env \cup DOMAIN statefile'
    BY WithIs
  <2> HIDE DEF h
  <2>2. DOMAIN With(h, rows') = DOMAIN h \cup DOMAIN rows'
    BY <2>1, WithIs
  <2>3. DOMAIN Sources' = DOMAIN env \cup DOMAIN statefile' \cup DOMAIN rows'
    BY <1>1, <2>1, <2>2 DEF h, Sources
  <2> QED
    BY <1>1, <2>3 DEF Origins, DInv
<1>4. Wins' /\ FinishReachesTheApplication' /\ CardsStand'
  BY <1>1 DEF Wins, FinishReachesTheApplication, CardsStand, DInv
<1> QED
  BY <1>2, <1>3, <1>4

LEMMA WizardIs ==
  ASSUME DInv
  PROVE  /\ wiz = [token |-> wiz.token, staged |-> wiz.staged, doc |-> wiz.doc, step |-> wiz.step, doc2 |-> wiz.doc2]
         /\ wiz.token \in BOOLEAN /\ wiz.step \in {"steps", "checked"} \cup WritingSteps
BY DEF DInv, Typed, WizardType

\* A step that writes nothing.
LEMMA QuietKeeps ==
  ASSUME DInv, mode = "wizard", UNCHANGED <<env, process, volume, database, card, last>>,
         wiz' \in WizardType, wiz'.doc2 = wiz.doc2, DOMAIN wiz.staged \subseteq DOMAIN wiz'.staged,
         wiz'.step \in {"steps", "checked"},
         wiz'.doc # None => docfile \in {None, wiz'.doc},
         wiz'.step = "checked" =>
            /\ wiz'.doc2 # None \/ docfile # None \/ wiz'.doc # None
            /\ Db \in DOMAIN env \cup DOMAIN statefile \cup DOMAIN wiz'.staged
  PROVE  DInv' /\ CardsStand'
<1> USE StateIs
<1>1. /\ statefile' = statefile /\ rows' = rows /\ docfile' = docfile /\ docrow' = docrow /\ migrated' = migrated
      /\ env' = env /\ marks' = marks /\ mode' = mode /\ last' = last
  BY DEF volume, database, process
<1>2. Typed' /\ Origins' /\ Wins' /\ FinishReachesTheApplication' /\ CardsStand'
  <2>1. migrated \in BOOLEAN
    BY DEF DInv, Typed
  <2> QED
    BY <1>1, <2>1, GrowKeeps
<1>3. Stores'
  BY <1>1 DEF DInv, Stores
<1>4. Finishing'
  <2>1. wiz'.step \notin WritingSteps
    BY DEF WritingSteps
  <2>2. wiz'.step # "steps" => ConfigReady' /\ Db \in DOMAIN env' \cup DOMAIN statefile' \cup DOMAIN wiz'.staged
    BY <1>1 DEF ConfigReady
  <2>3. /\ wiz'.doc2 # None => docrow' = wiz'.doc2
        /\ marks'.stored \subseteq DOMAIN rows'
        /\ ~last'.blind /\ wiz'.doc2 = None => docrow' \in {None, docfile'}
    BY <1>1 DEF DInv, Finishing
  <2>4. mode' # "boot" /\ (wiz'.doc # None => docfile' \in {None, wiz'.doc}) /\ wiz'.step # "secrets"
    BY <1>1
  <2> QED
    BY <2>1, <2>2, <2>3, <2>4 DEF Finishing
<1> QED
  BY <1>2, <1>3, <1>4 DEF DInv

LEMMA RefuseKeeps ==
  ASSUME DInv, mode = "wizard", Refuse, UNCHANGED <<env, process, volume, database, card, last>>
  PROVE  DInv' /\ CardsStand'
<1> USE StateIs, WizardIs
<1>1. wiz' = [token |-> wiz.token, staged |-> wiz.staged, doc |-> wiz.doc, step |-> "steps", doc2 |-> wiz.doc2]
  BY DEF Refuse
<1>2. wiz' \in WizardType
  BY <1>1 DEF WizardType
<1>3. wiz'.doc # None => docfile \in {None, wiz'.doc}
  BY <1>1 DEF DInv, Finishing
<1>4. wiz'.doc2 = wiz.doc2 /\ wiz'.staged = wiz.staged /\ wiz'.step = "steps"
  BY <1>1
<1> QED
  BY <1>2, <1>3, <1>4, QuietKeeps

LEMMA StageKeeps ==
  ASSUME DInv, NEW n \in Names, Stage(n)
  PROVE  DInv' /\ CardsStand'
<1> USE StateIs, WizardIs, ConstantsAre
<1> DEFINE s == With(wiz.staged, One(n, "typed"))
           t == With(s, One(Web, "minted"))
<1>1. mode = "wizard" /\ wiz.step \in {"steps", "checked"} /\ UNCHANGED <<env, process, volume, database, card, last>>
  BY DEF Stage
<1>2. PICK u \in {s, t} : wiz' = [wiz EXCEPT !.staged = u]
  BY DEF Stage
<1>3. s \in Layer /\ DOMAIN wiz.staged \subseteq DOMAIN s
  <2> DEFINE o == One(n, "typed")
  <2>1. o \in Layer
    BY OneIs DEF Values
  <2> HIDE DEF o
  <2> QED
    <3>1. With(wiz.staged, o) \in Layer /\ DOMAIN With(wiz.staged, o) = DOMAIN wiz.staged \cup DOMAIN o
      BY <2>1, WithIs
    <3> QED
      BY <3>1 DEF o
<1> HIDE DEF s
<1>4. t \in Layer /\ DOMAIN s \subseteq DOMAIN t
  <2> DEFINE o == One(Web, "minted")
  <2>1. o \in Layer
    BY OneIs DEF Values
  <2> HIDE DEF o
  <2> QED
    <3>1. With(s, o) \in Layer /\ DOMAIN With(s, o) = DOMAIN s \cup DOMAIN o
      BY <1>3, <2>1, WithIs
    <3> QED
      BY <3>1 DEF o
<1> HIDE DEF t
<1>5. wiz' = [token |-> wiz.token, staged |-> u, doc |-> wiz.doc, step |-> wiz.step, doc2 |-> wiz.doc2]
  BY <1>2
<1>6. u \in Layer /\ DOMAIN wiz.staged \subseteq DOMAIN u
  BY <1>3, <1>4
<1>7. wiz' \in WizardType
  BY <1>5, <1>6 DEF WizardType
<1>8. /\ wiz.doc # None => docfile \in {None, wiz.doc}
      /\ wiz.step = "checked" =>
            /\ wiz.doc2 # None \/ docfile # None \/ wiz.doc # None
            /\ Db \in DOMAIN env \cup DOMAIN statefile \cup DOMAIN wiz.staged
  BY DEF DInv, Finishing, ConfigReady
<1>9. wiz'.doc2 = wiz.doc2 /\ wiz'.staged = u /\ wiz'.step = wiz.step /\ wiz'.doc = wiz.doc
  BY <1>5
<1> QED
  BY <1>1, <1>6, <1>7, <1>8, <1>9, QuietKeeps

LEMMA AskingKeeps ==
  ASSUME DInv, Password \/ StageConfig \/ FinishChecks
  PROVE  DInv' /\ CardsStand'
<1> USE StateIs, WizardIs
<1>1. CASE Password
  <2>1. /\ mode = "wizard" /\ UNCHANGED <<env, process, volume, database, card, last>>
        /\ wiz' = [token |-> TRUE, staged |-> wiz.staged, doc |-> wiz.doc, step |-> wiz.step, doc2 |-> wiz.doc2]
    BY <1>1 DEF Password
  <2>2. wiz' \in WizardType /\ wiz'.doc2 = wiz.doc2 /\ wiz'.staged = wiz.staged /\ wiz'.step = wiz.step /\ wiz'.doc = wiz.doc
    BY <2>1 DEF WizardType
  <2>3. CASE wiz.step \in {"steps", "checked"}
    <3>1. /\ wiz.doc # None => docfile \in {None, wiz.doc}
          /\ wiz.step = "checked" =>
                /\ wiz.doc2 # None \/ docfile # None \/ wiz.doc # None
                /\ Db \in DOMAIN env \cup DOMAIN statefile \cup DOMAIN wiz.staged
      BY DEF DInv, Finishing, ConfigReady
    <3> QED
      BY <2>1, <2>2, <2>3, <3>1, QuietKeeps
  <2>4. CASE wiz.step \notin {"steps", "checked"}
    <3>1. /\ statefile' = statefile /\ rows' = rows /\ docfile' = docfile /\ docrow' = docrow /\ migrated' = migrated
          /\ env' = env /\ marks' = marks /\ mode' = mode /\ last' = last
      BY <2>1 DEF volume, database, process
    <3>2. Typed' /\ Origins' /\ Wins' /\ FinishReachesTheApplication' /\ CardsStand'
      <4>1. migrated \in BOOLEAN
        BY DEF DInv, Typed
      <4> QED
        BY <2>1, <2>2, <3>1, <4>1, GrowKeeps
    <3>3. Stores'
      BY <2>1, <3>1 DEF DInv, Stores
    <3>4. Finishing'
      <4>1. ConfigReady' = ConfigReady /\ ToStore' = ToStore
        BY <2>2, <3>1 DEF ConfigReady, ToStore
      <4> QED
        BY <2>1, <2>2, <3>1, <4>1 DEF DInv, Finishing
    <3> QED
      BY <3>2, <3>3, <3>4 DEF DInv
  <2> QED
    BY <2>3, <2>4
<1>2. CASE StageConfig
  <2>1. PICK typed \in (SUBSET Servers) \ {{}} :
          LET d == typed \cup (IF wiz.doc = None THEN {} ELSE wiz.doc)
          IN  d # wiz.doc /\ wiz' = [wiz EXCEPT !.doc = d]
    BY <1>2 DEF StageConfig
  <2>2. /\ mode = "wizard" /\ wiz.step \in {"steps", "checked"} /\ docfile = None /\ wiz.doc2 = None
        /\ UNCHANGED <<env, process, volume, database, card, last>>
    BY <1>2 DEF StageConfig
  <2> DEFINE d == typed \cup (IF wiz.doc = None THEN {} ELSE wiz.doc)
  <2>3. wiz' = [token |-> wiz.token, staged |-> wiz.staged, doc |-> d, step |-> wiz.step, doc2 |-> wiz.doc2]
    BY <2>1
  <2>4. d \in DocumentType /\ d # None
    BY NoneAssumption DEF DocumentType
  <2> HIDE DEF d
  <2>5. wiz' \in WizardType /\ wiz'.doc2 = wiz.doc2 /\ wiz'.staged = wiz.staged /\ wiz'.step = wiz.step /\ wiz'.doc = d
    BY <2>3, <2>4 DEF WizardType
  <2>6. wiz.step = "checked" => Db \in DOMAIN env \cup DOMAIN statefile \cup DOMAIN wiz.staged
    BY DEF DInv, Finishing
  <2> QED
    BY <2>2, <2>4, <2>5, <2>6, QuietKeeps
<1>3. CASE FinishChecks
  <2>1. /\ mode = "wizard" /\ Hard \subseteq DOMAIN Effective /\ ConfigReady
        /\ UNCHANGED <<env, process, volume, database, card, last>>
        /\ wiz' = [token |-> wiz.token, staged |-> wiz.staged, doc |-> wiz.doc, step |-> "checked", doc2 |-> wiz.doc2]
    BY <1>3 DEF FinishChecks, InSteps
  <2>2. wiz' \in WizardType /\ wiz'.doc2 = wiz.doc2 /\ wiz'.staged = wiz.staged /\ wiz'.step = "checked" /\ wiz'.doc = wiz.doc
    BY <2>1 DEF WizardType
  <2>3. Db \in DOMAIN env \cup DOMAIN statefile \cup DOMAIN wiz.staged
    <3> DEFINE f == Resolve(None)
    <3>1. f \in Layer /\ (Db \in DOMAIN f <=> Db \in DOMAIN environ \cup DOMAIN statefile)
      BY ResolveUnasked
    <3> HIDE DEF f
    <3>2. DOMAIN With(f, wiz.staged) = DOMAIN f \cup DOMAIN wiz.staged
      BY <3>1, WithIs
    <3>3. Db \in DOMAIN f \cup DOMAIN wiz.staged
      BY <2>1, <3>2, ConstantsAre DEF f, Effective
    <3>4. Db \in DOMAIN environ => Db \in DOMAIN env \cup DOMAIN statefile
      BY ConstantsAre DEF DInv, Origins
    <3> QED
      BY <3>1, <3>3, <3>4
  <2>4. wiz.doc # None => docfile \in {None, wiz.doc}
    BY DEF DInv, Finishing
  <2> QED
    BY <2>1, <2>2, <2>3, <2>4, QuietKeeps DEF ConfigReady
<1> QED
  BY <1>1, <1>2, <1>3

(***************************************************************************)
(* The finish                                                              *)
(***************************************************************************)
LEMMA FinishStepsAre ==
  /\ DOMAIN FinishSteps = {"checked", "document", "address", "migrate", "store", "secrets"}
  /\ FinishSteps["checked"] = "document" /\ FinishSteps["document"] = "address"
  /\ FinishSteps["address"] = "migrate" /\ FinishSteps["migrate"] = "store"
  /\ FinishSteps["store"] = "secrets" /\ FinishSteps["secrets"] = "confirm"
BY DEF FinishSteps

LEMMA WentTo ==
  ASSUME DInv, Went, wiz.step \in DOMAIN FinishSteps, wiz.step # "secrets"
  PROVE  /\ wiz' \in WizardType /\ wiz'.step = FinishSteps[wiz.step]
         /\ wiz'.staged = wiz.staged /\ wiz'.doc = wiz.doc /\ wiz'.doc2 = wiz.doc2
<1> USE StateIs, WizardIs
<1>1. FinishSteps[wiz.step] \in WritingSteps
  BY FinishStepsAre DEF WritingSteps
<1>2. wiz' = [token |-> wiz.token, staged |-> wiz.staged, doc |-> wiz.doc, step |-> FinishSteps[wiz.step], doc2 |-> wiz.doc2]
  BY DEF Went
<1> QED
  BY <1>1, <1>2 DEF WizardType

\* What every write of a finish leaves alone, and what it has behind it.
LEMMA WritingFacts ==
  ASSUME DInv, mode = "wizard", wiz.step \in DOMAIN FinishSteps
  PROVE  /\ wiz.doc # None => docfile \in {None, wiz.doc}
         /\ wiz.doc2 # None => docrow = wiz.doc2
         /\ wiz.doc2 # None \/ docfile # None \/ wiz.doc # None
         /\ Db \in DOMAIN env \cup DOMAIN statefile \cup DOMAIN wiz.staged
         /\ wiz.step # "checked" =>
               /\ docfile # None \/ wiz.doc2 # None
               /\ wiz.doc # None => docfile = wiz.doc
         /\ wiz.step \notin {"checked", "document"} => Db \in DOMAIN env \cup DOMAIN statefile
         /\ marks.stored \subseteq DOMAIN rows
         /\ ~last.blind /\ wiz.doc2 = None => docrow \in {None, docfile}
         /\ rows # Nothing \/ docrow # None => migrated
         /\ migrated => Db \in DOMAIN env \cup DOMAIN statefile
         /\ statefile # Nothing \/ rows # Nothing => docfile # None \/ docrow # None
         /\ migrated \in BOOLEAN
<1>1. wiz.step # "steps" /\ (wiz.step # "checked" => wiz.step \in WritingSteps)
      /\ (wiz.step \notin {"checked", "document"} => wiz.step \in WritingSteps \ {"document"})
  BY FinishStepsAre DEF WritingSteps
<1> QED
  BY <1>1 DEF DInv, Finishing, Stores, Typed, ConfigReady

LEMMA DocumentKeeps ==
  ASSUME DInv, mode = "wizard", wiz.step \in DOMAIN FinishSteps, WriteDocument, UNCHANGED <<env, process, card, last>>
  PROVE  DInv' /\ CardsStand'
<1> USE StateIs, WritingFacts
<1>1. wiz.step = "checked" /\ statefile' = statefile /\ UNCHANGED database
  BY FinishStepsAre DEF WriteDocument
<1>2. CASE Refuse /\ UNCHANGED docfile
  BY <1>1, <1>2, RefuseKeeps DEF volume
<1>3. CASE docfile' = (IF wiz.doc = None THEN docfile ELSE wiz.doc) /\ Went
  <2>1. /\ wiz' \in WizardType /\ wiz'.step = "document" /\ wiz'.staged = wiz.staged /\ wiz'.doc = wiz.doc
        /\ wiz'.doc2 = wiz.doc2
    BY <1>1, <1>3, WentTo, FinishStepsAre
  <2>2. /\ statefile' = statefile /\ rows' = rows /\ docrow' = docrow /\ migrated' = migrated
        /\ env' = env /\ marks' = marks /\ mode' = mode /\ last' = last
    BY <1>1 DEF database, process
  <2>3. docfile' \in DocumentType /\ (docfile # None => docfile' # None) /\ (wiz.doc # None => docfile' = wiz.doc)
        /\ (wiz.doc2 # None \/ docfile' # None)
    BY <1>3
  <2>4. Typed' /\ Origins' /\ Wins' /\ FinishReachesTheApplication' /\ CardsStand'
    BY <2>1, <2>2, <2>3, GrowKeeps
  <2>5. Stores'
    BY <2>2, <2>3 DEF Stores
  <2>6. Finishing'
    <3>1. ~last.blind /\ wiz.doc2 = None => docrow \in {None, docfile'}
      BY <1>3
    <3>2. ConfigReady'
      BY <2>1, <2>3 DEF ConfigReady
    <3> QED
      BY <2>1, <2>2, <2>3, <3>1, <3>2 DEF Finishing, WritingSteps
  <2> QED
    BY <2>4, <2>5, <2>6 DEF DInv
<1> QED
  BY <1>2, <1>3 DEF WriteDocument

LEMMA AddressKeeps ==
  ASSUME DInv, mode = "wizard", wiz.step \in DOMAIN FinishSteps, WriteAddress, UNCHANGED <<env, process, card, last>>
  PROVE  DInv' /\ CardsStand'
<1> USE StateIs, WritingFacts
<1>1. wiz.step = "document" /\ docfile' = docfile /\ UNCHANGED database
  BY FinishStepsAre DEF WriteAddress
<1>2. CASE Refuse /\ UNCHANGED statefile
  BY <1>1, <1>2, RefuseKeeps DEF volume
<1>3. CASE statefile' = With(statefile, Without(wiz.staged, Names \ {Db})) /\ Went
  <2>1. /\ wiz' \in WizardType /\ wiz'.step = "address" /\ wiz'.staged = wiz.staged /\ wiz'.doc = wiz.doc
        /\ wiz'.doc2 = wiz.doc2
    BY <1>1, <1>3, WentTo, FinishStepsAre
  <2>2. /\ docfile' = docfile /\ rows' = rows /\ docrow' = docrow /\ migrated' = migrated
        /\ env' = env /\ marks' = marks /\ mode' = mode /\ last' = last
    BY <1>1 DEF database, process
  <2>3. /\ statefile' \in Layer /\ DOMAIN statefile \subseteq DOMAIN statefile'
        /\ Db \in DOMAIN env \cup DOMAIN statefile'
    <3> DEFINE a == Without(wiz.staged, Names \ {Db})
    <3>1. a \in Layer /\ DOMAIN a = DOMAIN wiz.staged \ (Names \ {Db})
      BY WithoutIs
    <3>2. statefile' = With(statefile, a)
      BY <1>3
    <3> HIDE DEF a
    <3>3. statefile' \in Layer /\ DOMAIN statefile' = DOMAIN statefile \cup DOMAIN a
      BY <3>1, <3>2, WithIs
    <3> QED
      BY <3>1, <3>3
  <2>4. Typed' /\ Origins' /\ Wins' /\ FinishReachesTheApplication' /\ CardsStand'
    BY <2>1, <2>2, <2>3, GrowKeeps
  <2>5. Stores'
    BY <1>1, <2>2, <2>3 DEF Stores
  <2>6. Finishing'
    <3>1. ConfigReady'
      BY <2>1, <2>2 DEF ConfigReady
    <3> QED
      BY <1>1, <2>1, <2>2, <2>3, <3>1 DEF Finishing, WritingSteps
  <2> QED
    BY <2>4, <2>5, <2>6 DEF DInv
<1> QED
  BY <1>2, <1>3 DEF WriteAddress

LEMMA MigrateKeeps ==
  ASSUME DInv, mode = "wizard", wiz.step \in DOMAIN FinishSteps, MigrateForStore, UNCHANGED <<env, process, card, last>>
  PROVE  DInv' /\ CardsStand'
<1> USE StateIs, WritingFacts
<1>1. /\ wiz.step = "address" /\ UNCHANGED volume /\ UNCHANGED <<rows, docrow>> /\ Went
      /\ migrated' \in {migrated, TRUE}
  BY FinishStepsAre DEF MigrateForStore
<1>2. /\ wiz' \in WizardType /\ wiz'.step = "migrate" /\ wiz'.staged = wiz.staged /\ wiz'.doc = wiz.doc
      /\ wiz'.doc2 = wiz.doc2
  BY <1>1, WentTo, FinishStepsAre
<1>3. /\ docfile' = docfile /\ statefile' = statefile /\ rows' = rows /\ docrow' = docrow
      /\ env' = env /\ marks' = marks /\ mode' = mode /\ last' = last
  BY <1>1 DEF volume, process
<1>4. migrated' \in BOOLEAN /\ (migrated => migrated')
  <2>1. CASE migrated' = migrated
    BY <2>1
  <2>2. CASE migrated' = TRUE
    BY <2>2
  <2> QED
    BY <1>1, <2>1, <2>2
<1>5. Typed' /\ Origins' /\ Wins' /\ FinishReachesTheApplication' /\ CardsStand'
  BY <1>2, <1>3, <1>4, GrowKeeps
<1>6. Stores'
  BY <1>1, <1>3, <1>4 DEF Stores
<1>7. Finishing'
  <2>1. ConfigReady'
    BY <1>2, <1>3 DEF ConfigReady
  <2> QED
    BY <1>1, <1>2, <1>3, <2>1 DEF Finishing, WritingSteps
<1> QED
  BY <1>5, <1>6, <1>7 DEF DInv

LEMMA StoreDocumentKeeps ==
  ASSUME DInv, mode = "wizard", wiz.step \in DOMAIN FinishSteps, StoreDocument, UNCHANGED <<env, process, card, last>>
  PROVE  DInv' /\ CardsStand'
<1> USE StateIs, WritingFacts
<1>1. wiz.step = "migrate" /\ UNCHANGED volume /\ UNCHANGED <<rows, migrated>>
  BY FinishStepsAre DEF StoreDocument
<1>2. CASE Refuse /\ UNCHANGED docrow
  BY <1>1, <1>2, RefuseKeeps DEF database
<1>3. CASE docrow' = (IF migrated /\ wiz.doc # None /\ docrow = None THEN wiz.doc ELSE docrow) /\ Went
  <2>1. /\ wiz' \in WizardType /\ wiz'.step = "store" /\ wiz'.staged = wiz.staged /\ wiz'.doc = wiz.doc
        /\ wiz'.doc2 = wiz.doc2
    BY <1>1, <1>3, WentTo, FinishStepsAre
  <2>2. /\ docfile' = docfile /\ statefile' = statefile /\ rows' = rows /\ migrated' = migrated
        /\ env' = env /\ marks' = marks /\ mode' = mode /\ last' = last
    BY <1>1 DEF volume, process
  <2>3. /\ docrow' \in DocumentType /\ (docrow # None => docrow' = docrow) /\ (docrow' # None => migrated)
        /\ docrow' \in {docrow, docfile}
    BY <1>1, <1>3
  <2>4. Typed' /\ Origins' /\ Wins' /\ FinishReachesTheApplication' /\ CardsStand'
    BY <2>1, <2>2, <2>3, GrowKeeps
  <2>5. Stores'
    BY <2>2, <2>3 DEF Stores
  <2>6. Finishing'
    <3>1. ConfigReady'
      BY <2>1, <2>2 DEF ConfigReady
    <3> QED
      BY <1>1, <2>1, <2>2, <2>3, <3>1 DEF Finishing, WritingSteps
  <2> QED
    BY <2>4, <2>5, <2>6 DEF DInv
<1> QED
  BY <1>2, <1>3 DEF StoreDocument

LEMMA StoreSecretsKeeps ==
  ASSUME DInv, mode = "wizard", wiz.step \in DOMAIN FinishSteps, StoreSecrets, UNCHANGED <<env, process, card, last>>
  PROVE  DInv' /\ CardsStand'
<1> USE StateIs, WritingFacts
<1>1. wiz.step = "store" /\ docfile' = docfile /\ migrated' = migrated /\ docrow' = docrow
  BY FinishStepsAre DEF StoreSecrets
<1>2. CASE Refuse /\ UNCHANGED <<rows, statefile>>
  BY <1>1, <1>2, RefuseKeeps DEF database, volume
<1>3. CASE /\ rows' = IF migrated THEN With(rows, ToStore) ELSE rows
           /\ statefile' = IF migrated THEN statefile ELSE With(statefile, ToStore)
           /\ Went
  <2>1. /\ wiz' \in WizardType /\ wiz'.step = "secrets" /\ wiz'.staged = wiz.staged /\ wiz'.doc = wiz.doc
        /\ wiz'.doc2 = wiz.doc2
    BY <1>1, <1>3, WentTo, FinishStepsAre
  <2>2. env' = env /\ marks' = marks /\ mode' = mode /\ last' = last
    BY DEF process
  <2>3. ToStore \in Layer /\ DOMAIN ToStore = DOMAIN wiz.staged \ {Db}
    BY WithoutIs DEF ToStore
  <2>4. /\ statefile' \in Layer /\ DOMAIN statefile \subseteq DOMAIN statefile'
        /\ rows' \in Layer /\ DOMAIN rows \subseteq DOMAIN rows' /\ Db \notin DOMAIN rows'
        /\ migrated => DOMAIN ToStore \subseteq DOMAIN rows'
        /\ ~migrated => rows' = rows
    <3>1. CASE migrated
      <4>1. With(rows, ToStore) \in Layer /\ DOMAIN With(rows, ToStore) = DOMAIN rows \cup DOMAIN ToStore
        BY <2>3, WithIs
      <4> QED
        BY <1>3, <2>3, <3>1, <4>1
    <3>2. CASE ~migrated
      <4>1. With(statefile, ToStore) \in Layer /\ DOMAIN With(statefile, ToStore) = DOMAIN statefile \cup DOMAIN ToStore
        BY <2>3, WithIs
      <4> QED
        BY <1>3, <2>3, <3>2, <4>1
    <3> QED
      BY <3>1, <3>2
  <2>5. Typed' /\ Origins' /\ Wins' /\ FinishReachesTheApplication' /\ CardsStand'
    BY <1>1, <2>1, <2>4, GrowKeeps
  <2>6. Stores'
    BY <1>1, <2>2, <2>4 DEF Stores
  <2>7. Finishing'
    <3>1. ConfigReady' /\ ToStore' = ToStore
      BY <1>1, <2>1 DEF ConfigReady, ToStore
    <3> QED
      BY <1>1, <2>1, <2>2, <2>4, <3>1 DEF Finishing, WritingSteps
  <2> QED
    BY <2>5, <2>6, <2>7 DEF DInv
<1> QED
  BY <1>2, <1>3 DEF StoreSecrets

LEMMA FinishKeeps ==
  ASSUME DInv, Finish
  PROVE  DInv' /\ CardsStand'
<1>1. mode = "wizard" /\ wiz.step \in DOMAIN FinishSteps /\ UNCHANGED <<env, process, card, last>>
  BY DEF Finish
<1> QED
  BY <1>1, DocumentKeeps, AddressKeeps, MigrateKeeps, StoreDocumentKeeps, StoreSecretsKeeps DEF Finish

\* A finish whose read-back found everything answered is followed by a start
\* that finds it too: no row is an echo to a wizard's process, so what the start
\* reads answers whatever the read-back had answered.
LEMMA ConfirmedServes ==
  ASSUME DInv, mode = "wizard", wiz.step = "secrets", ~last.blind,
         NEW answered \in BOOLEAN, Confirmed(answered)
  PROVE  WouldServe
<1> USE StateIs
<1>0. wiz.step \in DOMAIN FinishSteps
  BY FinishStepsAre
<1> USE WritingFacts, <1>0
<1> DEFINE first == Resolve(None)
           asked == IF ~migrated THEN Nothing ELSE IF answered THEN rows ELSE ToStore
           found == Resolve(IF asked = Nothing THEN None ELSE asked)
           stored == ReadSecrets(first, TRUE)
           resolved == IF stored = Nothing THEN first ELSE Resolve(stored)
           document == ReadDocument(resolved, TRUE)
<1>1. IsConfigured(found, wiz.doc2)
  BY DEF Confirmed
<1>2. migrated => Db \in DOMAIN first /\ (rows # Nothing => Db \in DOMAIN Resolve(rows))
  BY AddressIsKnown
<1>3. stored = IF migrated THEN rows ELSE Nothing
  BY <1>2 DEF ReadSecrets
<1>4. ToStore \in Layer /\ DOMAIN ToStore = DOMAIN wiz.staged \ {Db} /\ (migrated => DOMAIN ToStore \subseteq DOMAIN rows)
  BY WithoutIs DEF ToStore, DInv, Finishing
<1>5. asked \in Layer /\ DOMAIN asked \subseteq DOMAIN stored /\ stored \in Layer
  BY <1>3, <1>4, NothingIs
<1>6. Echoes(rows) = {}
  BY DEF Echoes
<1>7. DOMAIN found \subseteq DOMAIN resolved
  <2> DEFINE s == stored
             a == asked
  <2>1. first \in Layer /\ DOMAIN first \subseteq DOMAIN environ \cup DOMAIN statefile
    BY ResolveUnasked
  <2>2. s \in Layer /\ a \in Layer /\ DOMAIN a \subseteq DOMAIN s /\ (s # Nothing => s = rows)
    BY <1>3, <1>5
  <2>3. found = Resolve(IF a = Nothing THEN None ELSE a) /\ resolved = IF s = Nothing THEN first ELSE Resolve(s)
    OBVIOUS
  <2> HIDE DEF s, a, stored, asked, found, resolved
  <2>4. CASE s = Nothing
    <3>1. a = Nothing
      BY <2>2, <2>4, NothingIs
    <3> QED
      BY <2>3, <2>4, <3>1
  <2>5. CASE s # Nothing
    <3>1. s = rows /\ DOMAIN Resolve(s) = DOMAIN environ \cup DOMAIN statefile \cup DOMAIN s
      BY <1>6, <2>2, <2>5, ResolveIs
    <3>2. DOMAIN Resolve(a) \subseteq DOMAIN environ \cup DOMAIN statefile \cup DOMAIN a
      BY <2>2, ResolveIs
    <3> QED
      BY <2>1, <2>2, <2>3, <2>5, <3>1, <3>2
  <2> QED
    BY <2>4, <2>5
<1>8. migrated => Db \in DOMAIN resolved
  BY <1>2, <1>3
<1>9. document = IF migrated THEN docrow ELSE None
  <2> HIDE DEF resolved
  <2> QED
    BY <1>8 DEF ReadDocument
<1> HIDE DEF first, asked, found, stored, resolved, document
<1>10. IsConfigured(resolved, wiz.doc2)
  BY <1>1, <1>7, ConfiguredGrows
<1>11. document # None => document = wiz.doc2 \/ (wiz.doc2 = None /\ document = docfile)
  BY <1>9
<1>12. wiz.doc2 # None => document = wiz.doc2
  BY <1>9
<1>13. (IF document # None THEN document ELSE docfile) = IF wiz.doc2 # None THEN wiz.doc2 ELSE docfile
  BY <1>11, <1>12
<1>14. IsConfigured(resolved, document)
  BY <1>10, <1>13 DEF IsConfigured
<1> QED
  BY <1>14, Zenon DEF WouldServe, first, stored, resolved, document

LEMMA ConfirmKeeps ==
  ASSUME DInv, Confirm
  PROVE  DInv' /\ CardsStand'
<1>1. mode = "wizard" /\ wiz.step = "secrets" /\ UNCHANGED <<env, volume, database>>
  BY FinishStepsAre DEF Confirm
<1>2. PICK answered \in BOOLEAN :
        \/ Confirmed(answered) /\ Restarts(environ, IF last.blind THEN "blind finish" ELSE "finish")
        \/ Refuse /\ UNCHANGED <<process, card, last>>
  BY DEF Confirm
<1>3. CASE Refuse /\ UNCHANGED <<process, card, last>>
  BY <1>1, <1>3, RefuseKeeps
<1>4. CASE Confirmed(answered) /\ Restarts(environ, IF last.blind THEN "blind finish" ELSE "finish")
  <2>1. CASE last.blind
    BY <1>1, <1>4, <2>1, RestartKeeps
  <2>2. CASE ~last.blind
    <3>1. WouldServe
      BY <1>1, <1>4, <2>2, ConfirmedServes
    <3>2. environ' = environ /\ marks' = marks
      BY <1>4 DEF Restarts, Off
    <3>3. WouldServe'
      BY <1>1, <3>1, <3>2 DEF WouldServe, Resolve, EnvironmentComplete, Echoes, Found, ReadSecrets, ReadDocument, IsConfigured, volume, database
    <3> QED
      BY <1>1, <1>4, <2>2, <3>3, RestartKeeps
  <2> QED
    BY <2>1, <2>2
<1> QED
  BY <1>2, <1>3, <1>4

(***************************************************************************)
(* The application                                                         *)
(***************************************************************************)
LEMMA RunningFacts ==
  ASSUME DInv, mode = "app"
  PROVE  /\ wiz = NoWizard /\ docrow # None /\ migrated = TRUE
         /\ Hard \subseteq DOMAIN env \cup DOMAIN statefile \cup DOMAIN rows
         /\ Db \in DOMAIN env \cup DOMAIN statefile
         /\ marks.file # None /\ marks.file \subseteq DOMAIN statefile
         /\ marks.stored # None /\ EnvironmentNames = DOMAIN env
         /\ StoredDocument = docrow
<1>1. /\ wiz = NoWizard /\ docrow # None /\ migrated = TRUE /\ Hard \subseteq DOMAIN Sources
      /\ Db \in DOMAIN env \cup DOMAIN statefile
  BY DEF DInv, Typed, Stores
<1>2. marks.file # None /\ marks.file \subseteq DOMAIN statefile /\ marks.stored # None /\ EnvironmentNames = DOMAIN env
  BY DEF DInv, Origins, EnvironmentNames
<1> QED
  BY <1>1, <1>2, StateIs DEF StoredDocument

\* An operator's action keeps the invariant when it leaves every hard name an
\* answer and the application on the rows it has.
LEMMA AppKeeps ==
  ASSUME DInv, mode = "app", UNCHANGED <<env, environ, marks, mode, docfile, migrated, wiz, last>>,
         statefile' \in Layer, rows' \in Layer, held' \in Layer, docrow' \in DocumentType, docrow' # None,
         DOMAIN statefile \subseteq DOMAIN statefile', Db \notin DOMAIN rows',
         Hard \subseteq DOMAIN env \cup DOMAIN statefile' \cup DOMAIN rows',
         ~last.blind => \A n \in DOMAIN rows' : n \in DOMAIN held' /\ held'[n] = rows'[n],
         DOMAIN card' = Cards, \A r \in Cards : card'[r] # None => card'[r] \in CardType
  PROVE  DInv'
<1> USE StateIs, RunningFacts
<1>1. Typed'
  <2>1. DeploymentTypeOK'
    BY DEF DeploymentTypeOK, DocumentType
  <2> QED
    BY <2>1 DEF Typed, DInv
<1>2. DOMAIN Sources' = DOMAIN env \cup DOMAIN statefile' \cup DOMAIN rows'
  <2> DEFINE h == With(env, statefile')
  <2>1. h \in Layer /\ DOMAIN h = DOMAIN env \cup DOMAIN statefile'
    BY WithIs
  <2> HIDE DEF h
  <2>2. DOMAIN With(h, rows') = DOMAIN h \cup DOMAIN rows'
    BY <2>1, WithIs
  <2> QED
    BY <2>1, <2>2 DEF h, Sources
<1>3. Origins'
  BY <1>2 DEF Origins, DInv
<1>4. Stores'
  BY <1>2 DEF Stores
<1>5. wiz'.step = "steps" /\ wiz'.doc = None /\ wiz'.doc2 = None
  BY DEF NoWizard
<1>6. Finishing'
  BY <1>5 DEF Finishing, WritingSteps
<1>7. Wins' /\ FinishReachesTheApplication'
  BY DEF Wins, FinishReachesTheApplication
<1> QED
  BY <1>1, <1>3, <1>4, <1>6, <1>7 DEF DInv

LEMMA RepublishIs ==
  ASSUME DInv, NEW n \in Names, NEW v \in Values \cup {None}, Republish(n, v)
  PROVE  /\ held' \in Layer
         /\ v # None => n \in DOMAIN held' /\ held'[n] = v
         /\ \A m \in DOMAIN held \ {n} : m \in DOMAIN held' /\ held'[m] = held[m]
<1> USE StateIs
<1>1. CASE v = None
  <2>1. held' = Without(held, {n})
    BY <1>1 DEF Republish
  <2>2. /\ Without(held, {n}) \in Layer /\ DOMAIN Without(held, {n}) = DOMAIN held \ {n}
        /\ \A m \in DOMAIN held \ {n} : Without(held, {n})[m] = held[m]
    BY WithoutIs
  <2> QED
    BY <1>1, <2>1, <2>2
<1>2. CASE v # None
  <2> DEFINE o == One(n, v)
  <2>1. held' = With(held, o)
    BY <1>2 DEF Republish
  <2>2. o \in Layer /\ DOMAIN o = {n} /\ o[n] = v
    BY <1>2, OneIs
  <2> HIDE DEF o
  <2>3. /\ With(held, o) \in Layer /\ DOMAIN With(held, o) = DOMAIN held \cup DOMAIN o
        /\ (\A m \in DOMAIN o : With(held, o)[m] = o[m])
        /\ \A m \in DOMAIN held \ DOMAIN o : With(held, o)[m] = held[m]
    BY <2>2, WithIs
  <2> QED
    BY <2>1, <2>2, <2>3
<1> QED
  BY <1>1, <1>2

\* A value put in the table for one name.
LEMMA PutRow ==
  ASSUME DInv, NEW n \in Names, NEW v \in Values, rows' = With(rows, One(n, v))
  PROVE  /\ rows' \in Layer /\ DOMAIN rows' = DOMAIN rows \cup {n} /\ rows'[n] = v
         /\ \A m \in DOMAIN rows \ {n} : rows'[m] = rows[m]
<1> USE StateIs
<1> DEFINE o == One(n, v)
<1>1. rows' = With(rows, o)
  OBVIOUS
<1>2. o \in Layer /\ DOMAIN o = {n} /\ o[n] = v
  BY OneIs
<1> HIDE DEF o
<1>3. /\ With(rows, o) \in Layer /\ DOMAIN With(rows, o) = DOMAIN rows \cup DOMAIN o
      /\ (\A m \in DOMAIN o : With(rows, o)[m] = o[m])
      /\ \A m \in DOMAIN rows \ DOMAIN o : With(rows, o)[m] = rows[m]
  BY <1>2, WithIs
<1> QED
  BY <1>1, <1>2, <1>3

\* A name is unset only where no layer answers it.
LEMMA UnsetIs ==
  ASSUME DInv, mode = "app", NEW n, NEW left
  PROVE  Source(n, left) # "unset" => n \in DOMAIN left \cup DOMAIN statefile \cup DOMAIN env
<1> USE RunningFacts
<1>1. StateFileNames(left) \subseteq DOMAIN statefile
  BY DEF StateFileNames
<1> QED
  BY <1>1 DEF Source

LEMMA ClearedIs ==
  ASSUME DInv, mode = "app", NEW n \in Names, Cleared(n)
  PROVE  /\ rows' \in Layer /\ DOMAIN rows' = DOMAIN rows \ {n} /\ \A m \in DOMAIN rows' : rows'[m] = rows[m]
         /\ n \in Hard => n \in DOMAIN statefile \cup DOMAIN env
         /\ held' \in Layer
         /\ \A m \in DOMAIN held \ {n} : m \in DOMAIN held' /\ held'[m] = held[m]
<1> USE StateIs
<1> DEFINE left == Without(rows, {n})
           now == Resolve(left)
           v == IF n \in DOMAIN now THEN now[n] ELSE None
<1>1. ~ClearRefused(n) /\ rows' = left /\ Republish(n, v)
  BY DEF Cleared
<1>2. left \in Layer /\ DOMAIN left = DOMAIN rows \ {n} /\ \A m \in DOMAIN left : left[m] = rows[m]
  <2>1. left \in Layer /\ DOMAIN left = DOMAIN rows \ {n} /\ \A m \in DOMAIN rows \ {n} : left[m] = rows[m]
    BY WithoutIs
  <2> HIDE DEF left
  <2> QED
    BY <2>1
<1>3. n \in Hard => n \in DOMAIN statefile \cup DOMAIN env
  BY <1>1, <1>2, UnsetIs DEF ClearRefused
<1> HIDE DEF left
<1>4. now \in Layer
  BY <1>2, ResolveIs
<1> HIDE DEF now
<1>5. v \in Values \cup {None} /\ n \in Names
  BY <1>4, LayerIs
<1> HIDE DEF v
<1>6. /\ held' \in Layer
      /\ \A m \in DOMAIN held \ {n} : m \in DOMAIN held' /\ held'[m] = held[m]
  BY <1>1, <1>5, RepublishIs
<1> QED
  BY <1>1, <1>2, <1>3, <1>6

LEMMA ClearingKeeps ==
  ASSUME DInv, mode = "app", NEW n \in Names, Cleared(n),
         UNCHANGED <<env, environ, marks, mode, volume, migrated, wiz, last>>,
         docrow' = docrow,
         DOMAIN card' = Cards, \A r \in Cards : card'[r] # None => card'[r] \in CardType
  PROVE  DInv'
<1> USE StateIs, RunningFacts, ClearedIs
<1>1. statefile' = statefile /\ docfile' = docfile
  BY DEF volume
<1>2. Hard \subseteq DOMAIN env \cup DOMAIN statefile \cup DOMAIN rows'
  OBVIOUS
<1>3. ~last.blind => \A m \in DOMAIN rows' : m \in DOMAIN held' /\ held'[m] = rows'[m]
  BY DEF DInv, Wins
<1> QED
  BY <1>1, <1>2, <1>3, AppKeeps

LEMMA SetKeeps ==
  ASSUME DInv, NEW n \in Names, SetSecret(n)
  PROVE  DInv'
<1> USE StateIs
<1>1. /\ mode = "app" /\ n # Db /\ rows' = With(rows, One(n, "set")) /\ Republish(n, "set")
      /\ UNCHANGED <<env, environ, marks, mode, volume, migrated, docrow, wiz, card, last>>
  BY DEF SetSecret, Running
<1> USE <1>1, RunningFacts
<1>2. "set" \in Values /\ "set" # None
  BY NoneAssumption DEF Values
<1>3. /\ rows' \in Layer /\ DOMAIN rows' = DOMAIN rows \cup {n} /\ rows'[n] = "set"
      /\ \A m \in DOMAIN rows \ {n} : rows'[m] = rows[m]
  BY <1>2, PutRow
<1>4. /\ held' \in Layer /\ n \in DOMAIN held' /\ held'[n] = "set"
      /\ \A m \in DOMAIN held \ {n} : m \in DOMAIN held' /\ held'[m] = held[m]
  BY <1>2, RepublishIs
<1>5. ~last.blind => \A m \in DOMAIN rows' : m \in DOMAIN held' /\ held'[m] = rows'[m]
  BY <1>3, <1>4 DEF DInv, Wins
<1>6. statefile' = statefile /\ docfile' = docfile
  BY DEF volume
<1>7. DOMAIN card' = Cards /\ \A r \in Cards : card'[r] # None => card'[r] \in CardType
  BY DEF DInv, Typed
<1> QED
  BY <1>3, <1>4, <1>5, <1>6, <1>7, AppKeeps

LEMMA RotateKeeps ==
  ASSUME DInv, Rotate
  PROVE  DInv'
<1> USE StateIs, ConstantsAre
<1>1. /\ mode = "app" /\ Republish(Web, "rotated")
      /\ UNCHANGED <<env, environ, marks, mode, docfile, migrated, docrow, wiz, card, last>>
  BY DEF Rotate, Running
<1> USE <1>1, RunningFacts
<1>2. "rotated" \in Values /\ "rotated" # None
  BY NoneAssumption DEF Values
<1>3. /\ held' \in Layer /\ Web \in DOMAIN held' /\ held'[Web] = "rotated"
      /\ \A m \in DOMAIN held \ {Web} : m \in DOMAIN held' /\ held'[m] = held[m]
  BY <1>2, RepublishIs
<1>4. DOMAIN card' = Cards /\ \A r \in Cards : card'[r] # None => card'[r] \in CardType
  BY DEF DInv, Typed
<1>5. CASE rows' = With(rows, One(Web, "rotated")) /\ statefile' = statefile
  <2>2. /\ rows' \in Layer /\ DOMAIN rows' = DOMAIN rows \cup {Web} /\ rows'[Web] = "rotated"
        /\ \A m \in DOMAIN rows \ {Web} : rows'[m] = rows[m]
    BY <1>2, <1>5, PutRow
  <2>3. ~last.blind => \A m \in DOMAIN rows' : m \in DOMAIN held' /\ held'[m] = rows'[m]
    BY <1>3, <2>2 DEF DInv, Wins
  <2> QED
    BY <1>3, <1>4, <1>5, <2>2, <2>3, AppKeeps
<1>6. CASE Source(Web, rows) # "stored" /\ statefile' = With(statefile, One(Web, "rotated")) /\ rows' = rows
  <2> DEFINE o == One(Web, "rotated")
  <2>1. o \in Layer
    BY <1>2, OneIs
  <2>2. statefile' = With(statefile, o)
    BY <1>6
  <2> HIDE DEF o
  <2>3. statefile' \in Layer /\ DOMAIN statefile \subseteq DOMAIN statefile'
    <3>1. With(statefile, o) \in Layer /\ DOMAIN With(statefile, o) = DOMAIN statefile \cup DOMAIN o
      BY <2>1, WithIs
    <3> QED
      BY <2>2, <3>1
  <2>4. Web \notin DOMAIN rows
    BY <1>6 DEF Source
  <2>5. ~last.blind => \A m \in DOMAIN rows' : m \in DOMAIN held' /\ held'[m] = rows'[m]
    BY <1>3, <1>6, <2>4 DEF DInv, Wins
  <2> QED
    BY <1>3, <1>4, <1>6, <2>3, <2>5, AppKeeps
<1> QED
  BY <1>5, <1>6 DEF Rotate

LEMMA CardsKeep ==
  ASSUME DInv, NEW r \in Cards, CardLooks(r) \/ CardWrites(r)
  PROVE  DInv'
<1> USE StateIs
<1>0. mode = "app" /\ UNCHANGED <<env, environ, marks, mode, volume, migrated, wiz, last>>
  BY DEF CardLooks, CardWrites, Running, process, database
<1> USE <1>0, RunningFacts
<1>1. statefile' = statefile /\ docfile' = docfile
  BY DEF volume
<1>2. Hard \subseteq DOMAIN env \cup DOMAIN statefile \cup DOMAIN rows
  OBVIOUS
<1>3. /\ ~last.blind => \A m \in DOMAIN rows : m \in DOMAIN held /\ held[m] = rows[m]
      /\ DOMAIN card = Cards /\ \A q \in Cards : card[q] # None => card[q] \in CardType
  BY DEF DInv, Typed, Wins
<1>4. ASSUME NEW c \in CardType \cup {None}, card' = [card EXCEPT ![r] = c]
      PROVE  DOMAIN card' = Cards /\ \A q \in Cards : card'[q] # None => card'[q] \in CardType
  BY <1>3, <1>4
<1>5. CASE CardLooks(r)
  <2>1. PICK c \in CardType : card' = [card EXCEPT ![r] = c]
    <3>1. \A d \in {"save", "clear", "remove"}, s \in Servers, w \in DocumentType :
             [does |-> d, server |-> s, saw |-> w] \in CardType
      BY DEF CardType
    <3>2. docrow \in DocumentType /\ {} \in DocumentType
      BY DEF DocumentType
    <3> QED
      BY <1>5, <3>1, <3>2 DEF CardLooks
  <2>2. rows' = rows /\ held' = held /\ docrow' = docrow
    BY <1>5 DEF CardLooks, process, database
  <2>3. DOMAIN card' = Cards /\ \A q \in Cards : card'[q] # None => card'[q] \in CardType
    BY <1>4, <2>1
  <2> QED
    BY <1>1, <1>2, <1>3, <2>2, <2>3, AppKeeps
<1>6. CASE CardWrites(r)
  <2> DEFINE s == card[r].server
  <2>1. card[r] \in CardType /\ s \in Servers
    BY <1>3, <1>6 DEF CardWrites, CardType
  <2>2. CASE /\ card[r].does = "save"
             /\ docrow' = IF StoredDocument = card[r].saw THEN StoredDocument \cup {s} ELSE docrow
             /\ card' = [card EXCEPT ![r] = None] /\ UNCHANGED <<rows, held>>
    <3>1. docrow' \in DocumentType /\ docrow' # None
      BY <2>1, <2>2, NoneAssumption DEF DocumentType
    <3>2. DOMAIN card' = Cards /\ \A q \in Cards : card'[q] # None => card'[q] \in CardType
      BY <1>4, <2>2
    <3> QED
      BY <1>1, <1>2, <1>3, <2>2, <3>1, <3>2, AppKeeps
  <2>3. CASE card[r].does = "clear" /\ Cleared(Cred[s]) /\ card' = [card EXCEPT ![r] = None] /\ UNCHANGED docrow
    <3>1. DOMAIN card' = Cards /\ \A q \in Cards : card'[q] # None => card'[q] \in CardType
      BY <1>4, <2>3
    <3> QED
      BY <1>3, <2>1, <2>3, <3>1, ClearingKeeps, ConstantsAre
  <2>4. CASE /\ card[r].does = "remove" /\ UNCHANGED <<rows, held>>
             /\ IF StoredDocument = card[r].saw
                THEN /\ docrow' = StoredDocument \ {s}
                     /\ card' = [card EXCEPT ![r] = [@ EXCEPT !.does = "clear"]]
                ELSE /\ card' = [card EXCEPT ![r] = None]
                     /\ UNCHANGED docrow
    <3>1. docrow' \in DocumentType /\ docrow' # None
      BY <2>1, <2>4, NoneAssumption DEF DocumentType
    <3>2. PICK c \in CardType \cup {None} : card' = [card EXCEPT ![r] = c]
      <4>1. [card[r] EXCEPT !.does = "clear"] \in CardType
        BY <2>1 DEF CardType
      <4>2. card' = [card EXCEPT ![r] = None] \/ card' = [card EXCEPT ![r] = [card[r] EXCEPT !.does = "clear"]]
        BY <2>4
      <4> QED
        BY <4>1, <4>2
    <3>3. DOMAIN card' = Cards /\ \A q \in Cards : card'[q] # None => card'[q] \in CardType
      BY <1>4, <3>2
    <3> QED
      BY <1>1, <1>2, <1>3, <2>4, <3>1, <3>3, AppKeeps
  <2> QED
    BY <1>6, <2>2, <2>3, <2>4 DEF CardWrites
<1> QED
  BY <1>5, <1>6

(***************************************************************************)
(* The theorems                                                            *)
(***************************************************************************)
LEMMA DeploymentStarts == DeploymentInit => DInv /\ CardsStand
<1> SUFFICES ASSUME DeploymentInit PROVE DInv /\ CardsStand
  OBVIOUS
<1>1. /\ env \in Layer /\ environ = Nothing /\ marks = NoMarks /\ statefile = Nothing /\ rows = Nothing
      /\ migrated = FALSE /\ docfile \in DocumentType /\ docrow = None /\ mode = "off" /\ held = Nothing
      /\ wiz = NoWizard /\ card = [r \in Cards |-> None] /\ last = [by |-> "container", blind |-> FALSE]
  BY EnvsAssumption DEF DeploymentInit, DocumentType
<1>2. /\ wiz = [token |-> FALSE, staged |-> Nothing, doc |-> None, step |-> "steps", doc2 |-> None]
      /\ marks.stored = None /\ marks.file = None /\ marks.environment = None
  BY <1>1 DEF NoWizard, NoMarks
<1>3. Nothing \in Layer /\ DOMAIN Nothing = {}
  BY NothingIs
<1>4. Typed
  <2>1. DeploymentTypeOK
    BY <1>1, <1>2, <1>3 DEF DeploymentTypeOK, DocumentType
  <2>2. wiz \in WizardType
    BY <1>2, <1>3 DEF WizardType, DocumentType
  <2>3. marks \in [stored : NamesType, file : NamesType, environment : NamesType]
    BY <1>1 DEF NoMarks, NamesType
  <2> QED
    BY <1>1, <2>1, <2>2, <2>3 DEF Typed
<1>5. Origins /\ Stores
  BY <1>1, <1>2, <1>3 DEF Origins, Stores
<1>6. Finishing /\ Wins /\ FinishReachesTheApplication /\ CardsStand
  BY <1>1, <1>2 DEF Finishing, Wins, FinishReachesTheApplication, CardsStand, WritingSteps
<1> QED
  BY <1>4, <1>5, <1>6 DEF DInv

LEMMA DeploymentSteps ==
  ASSUME DInv, [DeploymentNext]_deploymentVars
  PROVE  DInv'
<1>1. CASE DeploymentNext
  <2>1. CASE Start
    BY <2>1, StartKeeps
  <2>2. CASE Boot
    BY <2>2, BootKeeps
  <2>3. CASE Killed
    <3>1. Exits /\ UNCHANGED <<env, volume, database>> /\ last' = last
      BY <2>3 DEF Killed
    <3>2. last \in [by : {"container", "finish", "blind finish", "restart"}, blind : BOOLEAN]
      BY DEF DInv, Typed
    <3> QED
      BY <3>1, <3>2, ExitKeeps
  <2>4. CASE Password \/ StageConfig \/ FinishChecks
    BY <2>4, AskingKeeps
  <2>5. CASE Finish
    BY <2>5, FinishKeeps
  <2>6. CASE Confirm
    BY <2>6, ConfirmKeeps
  <2>7. ASSUME NEW n \in Names, Stage(n) \/ SetSecret(n) \/ ClearSecret(n) PROVE DInv'
    <3>1. CASE Stage(n)
      BY <3>1, StageKeeps
    <3>2. CASE SetSecret(n)
      BY <3>2, SetKeeps
    <3>3. CASE ClearSecret(n)
      <4>1. /\ mode = "app" /\ Cleared(n) /\ docrow' = docrow
            /\ UNCHANGED <<env, environ, marks, mode, volume, migrated, wiz, last>>
        BY <3>3 DEF ClearSecret, Running
      <4>2. DOMAIN card' = Cards /\ \A r \in Cards : card'[r] # None => card'[r] \in CardType
        BY <3>3 DEF ClearSecret, DInv, Typed
      <4> QED
        BY <4>1, <4>2, ClearingKeeps
    <3> QED
      BY <2>7, <3>1, <3>2, <3>3
  <2>8. CASE Rotate
    BY <2>8, RotateKeeps
  <2>9. CASE \E r \in Cards : CardLooks(r) \/ CardWrites(r)
    BY <2>9, CardsKeep
  <2>10. CASE RestartInPlace
    <3>1. mode = "app" /\ Restarts(environ, "restart") /\ UNCHANGED <<env, volume, database>>
      BY <2>10 DEF RestartInPlace
    <3> QED
      BY <3>1, RestartKeeps
  <2> QED
    BY <1>1, <2>1, <2>2, <2>3, <2>4, <2>5, <2>6, <2>7, <2>8, <2>9, <2>10 DEF DeploymentNext
<1>2. CASE UNCHANGED deploymentVars
  <2>1. /\ env' = env /\ environ' = environ /\ marks' = marks /\ mode' = mode /\ held' = held
        /\ statefile' = statefile /\ docfile' = docfile /\ rows' = rows /\ migrated' = migrated
        /\ docrow' = docrow /\ wiz' = wiz /\ card' = card /\ last' = last
    BY <1>2 DEF deploymentVars, process, volume, database
  <2>2. Typed' /\ Wins' /\ FinishReachesTheApplication'
    BY <2>1 DEF DInv, Typed, DeploymentTypeOK, Wins, FinishReachesTheApplication
  <2>3. Origins' /\ Stores'
    <3>1. Sources' = Sources
      BY <2>1 DEF Sources
    <3> QED
      BY <2>1, <3>1 DEF DInv, Origins, Stores
  <2>4. Finishing'
    <3>1. WouldServe' = WouldServe
      BY <2>1 DEF WouldServe, Resolve, EnvironmentComplete, Echoes, Found, ReadSecrets, ReadDocument, IsConfigured
    <3>2. ConfigReady' = ConfigReady /\ ToStore' = ToStore
      BY <2>1 DEF ConfigReady, ToStore
    <3> QED
      BY <2>1, <3>1, <3>2 DEF DInv, Finishing
  <2> QED
    BY <2>2, <2>3, <2>4 DEF DInv
<1> QED
  BY <1>1, <1>2

LEMMA DeploymentInvariant == DeploymentSpec => []DInv
<1>1. DeploymentInit => DInv
  BY DeploymentStarts
<1>2. DInv /\ [DeploymentNext]_deploymentVars => DInv'
  BY DeploymentSteps
<1> QED
  BY <1>1, <1>2, PTL DEF DeploymentSpec

\* Wherever a finish is interrupted the next start is the wizard or the
\* application, a finish that answered is followed by the application, no
\* operator's action leaves the next container without a hard secret, and a
\* stored row wins over what the environment repeats (entrypoint.py, main;
\* api/setup.py, finish; api/secrets_api.py).
THEOREM DeploymentsAreSafe == DeploymentSpec => []DeploymentSafety
<1>1. ASSUME DInv PROVE DeploymentSafety
  <2> USE <1>1, StateIs
  <2>1. DeploymentTypeOK
    BY DEF DInv, Typed
  <2>2. FinishNeverStrands
    <3> SUFFICES ASSUME Hard \subseteq DOMAIN Sources, ~(Hard \subseteq DOMAIN env)
                 PROVE  docfile # None \/ docrow # None
      BY DEF FinishNeverStrands
    <3>1. statefile # Nothing \/ rows # Nothing
      BY NothingIs
    <3> QED
      BY <3>1 DEF DInv, Stores
  <2>3. FinishReachesTheApplication
    BY DEF DInv
  <2>4. NextStartFindsHardSecrets
    BY DEF NextStartFindsHardSecrets, DInv, Stores
  <2>5. StoredSecretsWin
    BY DEF StoredSecretsWin, DInv, Wins
  <2> QED
    BY <2>1, <2>2, <2>3, <2>4, <2>5 DEF DeploymentSafety
<1>2. DInv => DeploymentSafety
  BY <1>1
<1> QED
  BY <1>2, DeploymentInvariant, PTL

(***************************************************************************)
(* The server cards, one request at a time                                 *)
(***************************************************************************)
\* What CardsKeepCredentials says of a step.
CardsKept ==
    mode = "app" /\ mode' = "app"
         /\ DOMAIN environ \subseteq DOMAIN Sources \cup marks.stored
         /\ ServersUsable(StoredDocument, Sources)
      => ServersUsable(StoredDocument', Sources')

LEMMA SourcesNext ==
  ASSUME DInv'
  PROVE  /\ DOMAIN Sources' = DOMAIN env' \cup DOMAIN statefile' \cup DOMAIN rows'
         /\ mode' = "app" => StoredDocument' = docrow'
<1>1. env' \in Layer /\ statefile' \in Layer /\ rows' \in Layer /\ (mode' = "app" => docrow' # None)
  BY DEF DInv, Typed, DeploymentTypeOK, Stores
<1> DEFINE h == With(env', statefile')
<1>2. h \in Layer /\ DOMAIN h = DOMAIN env' \cup DOMAIN statefile'
  BY <1>1, WithIs
<1>3. Sources' = With(h, rows')
  BY DEF Sources
<1> HIDE DEF h
<1>4. DOMAIN With(h, rows') = DOMAIN h \cup DOMAIN rows'
  BY <1>1, <1>2, WithIs
<1> QED
  BY <1>1, <1>2, <1>3, <1>4 DEF StoredDocument

\* A step that takes no server's credential from the table leaves the cards'
\* requests and the servers what they had.
LEMMA CardsAreLeft ==
  ASSUME DInv, DInv', CardsStand, mode = "app", UNCHANGED <<env, environ, marks, mode, docrow, card>>,
         DOMAIN statefile \subseteq DOMAIN statefile',
         \A s \in Servers : Cred[s] \in DOMAIN rows => Cred[s] \in DOMAIN rows'
  PROVE  CardsStand' /\ CardsKept
<1> USE StateIs, RunningFacts, SourcesNext
<1>1. ASSUME NEW r \in Cards, card'[r] # None PROVE CardStands(r)'
  <2>1. card[r] # None /\ card' = card /\ CardStands(r) /\ card[r].server \in Servers
    BY <1>1 DEF CardsStand, DInv, Typed, CardType
  <2> QED
    BY <2>1 DEF CardStands
<1>2. CardsKept
  <2> SUFFICES ASSUME ServersUsable(docrow, Sources) PROVE ServersUsable(docrow', Sources')
    BY DEF CardsKept
  <2>1. docrow \subseteq Servers
    BY DEF DocumentType
  <2> QED
    BY <2>1 DEF ServersUsable
<1> QED
  BY <1>1, <1>2 DEF CardsStand

LEMMA LooksStand ==
  ASSUME DInv, DInv', CardsStand, NEW r \in Cards, CardLooks(r)
  PROVE  CardsStand' /\ CardsKept
<1> USE StateIs, RunningFacts, SourcesNext
<1>1. /\ mode = "app" /\ UNCHANGED <<env, environ, marks, mode, statefile, rows, docrow>>
      /\ DOMAIN card = Cards
  BY DEF CardLooks, Running, process, volume, database, DInv, Typed
<1> USE <1>1
<1>2. CardsKept
  BY DEF CardsKept, ServersUsable
<1>3. PICK s \in Servers :
        \/ /\ Cred[s] \in DOMAIN Resolve(rows)
           /\ card' = [card EXCEPT ![r] = [does |-> "save", server |-> s, saw |-> StoredDocument]]
        \/ /\ KeepsACredential(s)
           /\ card' = [card EXCEPT ![r] = [does |-> "clear", server |-> s, saw |-> {}]]
        \/ /\ s \in StoredDocument /\ StoredDocument # {s}
           /\ card' = [card EXCEPT ![r] = [does |-> "remove", server |-> s, saw |-> StoredDocument]]
  BY DEF CardLooks
<1>4. \A q \in Cards \ {r} : card'[q] = card[q]
  BY <1>3
<1>5. CardStands(r)'
  <2>1. CASE /\ Cred[s] \in DOMAIN Resolve(rows)
             /\ card' = [card EXCEPT ![r] = [does |-> "save", server |-> s, saw |-> StoredDocument]]
    <3>1. card'[r].does = "save" /\ card'[r].server = s
      BY <2>1
    <3>2. Cred[s] \in (DOMAIN environ \ (marks.stored \ DOMAIN rows)) \cup DOMAIN statefile \cup DOMAIN rows
      <4>1. Echoes(rows) = marks.stored \ DOMAIN rows
        BY ConstantsAre DEF Echoes
      <4> QED
        BY <2>1, <4>1, ResolveIs
    <3> QED
      BY <3>1, <3>2 DEF CardStands
  <2>2. CASE /\ KeepsACredential(s)
             /\ card' = [card EXCEPT ![r] = [does |-> "clear", server |-> s, saw |-> {}]]
    <3>1. card'[r].does = "clear" /\ card'[r].server = s
      BY <2>2
    <3>2. ASSUME s \in docrow PROVE Cred[s] \in DOMAIN statefile \cup DOMAIN env
      <4> DEFINE left == Without(rows, {Cred[s]})
      <4>1. Source(Cred[s], left) # "unset"
        BY <2>2, <3>2 DEF KeepsACredential
      <4>2. DOMAIN left = DOMAIN rows \ {Cred[s]}
        BY WithoutIs
      <4> HIDE DEF left
      <4> QED
        BY <4>1, <4>2, UnsetIs
    <3> QED
      BY <3>1, <3>2 DEF CardStands
  <2>3. CASE /\ s \in StoredDocument /\ StoredDocument # {s}
             /\ card' = [card EXCEPT ![r] = [does |-> "remove", server |-> s, saw |-> StoredDocument]]
    <3>1. card'[r].does = "remove" /\ card'[r].server = s /\ card'[r].saw = StoredDocument
      BY <2>3
    <3> QED
      BY <2>3, <3>1 DEF CardStands
  <2> QED
    BY <1>3, <2>1, <2>2, <2>3
<1>6. ASSUME NEW q \in Cards \ {r}, card'[q] # None PROVE CardStands(q)'
  <2>1. card'[q] = card[q] /\ CardStands(q)
    BY <1>4, <1>6 DEF CardsStand
  <2> QED
    BY <2>1 DEF CardStands
<1>7. CardsStand'
  BY <1>5, <1>6 DEF CardsStand
<1> QED
  BY <1>2, <1>7

\* The one request that is under way writes on what it looked at.
LEMMA WritesStand ==
  ASSUME DInv, DInv', CardsStand, NEW r \in Cards, CardWrites(r), \A q \in Cards : q = r
  PROVE  CardsStand' /\ CardsKept
<1> DEFINE s == card[r].server
<1> USE StateIs, RunningFacts, SourcesNext
<1>1. /\ mode = "app" /\ UNCHANGED <<env, environ, marks, mode, statefile>> /\ card[r] # None
      /\ DOMAIN card = Cards /\ s \in Servers /\ card[r] \in CardType /\ docrow \subseteq Servers
      /\ CardStands(r)
  BY DEF CardWrites, Running, volume, DInv, Typed, CardType, CardsStand, DocumentType
<1> USE <1>1
<1>2. CASE /\ card[r].does = "save"
           /\ docrow' = IF StoredDocument = card[r].saw THEN StoredDocument \cup {s} ELSE docrow
           /\ card' = [card EXCEPT ![r] = None] /\ UNCHANGED <<rows, held>>
  <2>1. CardsStand'
    BY <1>2 DEF CardsStand
  <2>2. CardsKept
    <3> SUFFICES ASSUME DOMAIN environ \subseteq DOMAIN Sources \cup marks.stored, ServersUsable(docrow, Sources)
                 PROVE  ServersUsable(docrow', Sources')
      BY DEF CardsKept
    <3>1. Cred[s] \in DOMAIN Sources
      BY <1>2 DEF CardStands
    <3>2. DOMAIN Sources' = DOMAIN Sources /\ docrow' \in {docrow, docrow \cup {s}}
      BY <1>2
    <3> QED
      BY <3>1, <3>2 DEF ServersUsable
  <2> QED
    BY <2>1, <2>2
<1>3. CASE card[r].does = "clear" /\ Cleared(Cred[s]) /\ card' = [card EXCEPT ![r] = None] /\ UNCHANGED docrow
  <2>1. CardsStand'
    BY <1>3 DEF CardsStand
  <2>2. CardsKept
    <3> SUFFICES ASSUME ServersUsable(docrow, Sources) PROVE ServersUsable(docrow', Sources')
      BY DEF CardsKept
    <3>1. Cred[s] \in Names
      BY ConstantsAre
    <3>2. DOMAIN rows' = DOMAIN rows \ {Cred[s]}
      BY <1>3, <3>1, ClearedIs
    <3>3. ASSUME NEW t \in docrow PROVE Cred[t] \in DOMAIN Sources'
      <4>1. Cred[t] \in DOMAIN Sources /\ t \in Servers
        BY DEF ServersUsable
      <4>2. CASE t = s
        BY <1>3, <4>2 DEF CardStands
      <4>3. CASE t # s
        <5>1. Cred[t] # Cred[s]
          BY <4>1, <4>3, CredAssumption
        <5> QED
          BY <3>2, <4>1, <5>1
      <4> QED
        BY <4>2, <4>3
    <3> QED
      BY <1>3, <3>3 DEF ServersUsable
  <2> QED
    BY <2>1, <2>2
<1>4. CASE /\ card[r].does = "remove" /\ UNCHANGED <<rows, held>>
           /\ IF StoredDocument = card[r].saw
              THEN /\ docrow' = StoredDocument \ {s}
                   /\ card' = [card EXCEPT ![r] = [@ EXCEPT !.does = "clear"]]
              ELSE /\ card' = [card EXCEPT ![r] = None]
                   /\ UNCHANGED docrow
  <2>1. CASE StoredDocument = card[r].saw
    <3>1. card'[r].does = "clear" /\ card'[r].server = s /\ docrow' = docrow \ {s}
      BY <1>4, <2>1 DEF CardType
    <3>2. s \in docrow /\ docrow # {s}
      BY <1>4, <2>1 DEF CardStands
    <3>3. CardsStand'
      BY <3>1 DEF CardsStand, CardStands
    <3>4. CardsKept
      BY <1>4, <3>1, <3>2 DEF CardsKept, ServersUsable
    <3> QED
      BY <3>3, <3>4
  <2>2. CASE StoredDocument # card[r].saw
    <3>1. CardsStand'
      BY <1>4, <2>2 DEF CardsStand
    <3>2. CardsKept
      BY <1>4, <2>2 DEF CardsKept, ServersUsable
    <3> QED
      BY <3>1, <3>2
  <2> QED
    BY <2>1, <2>2
<1> QED
  BY <1>2, <1>3, <1>4 DEF CardWrites

LEMMA CardSteps ==
  ASSUME DInv, DInv', CardsStand, \A r, q \in Cards : r = q, [DeploymentNext]_deploymentVars
  PROVE  CardsStand' /\ CardsKept
<1> USE StateIs, ConstantsAre
<1>1. CASE DeploymentNext
  <2>1. CASE Start
    BY <2>1, StartKeeps DEF CardsKept, Start
  <2>2. CASE Boot
    BY <2>2, BootKeeps DEF CardsKept, Boot
  <2>3. CASE Killed
    <3>1. Exits /\ UNCHANGED <<env, volume, database>> /\ last' = last /\ mode' = "off"
      BY <2>3 DEF Killed, Exits
    <3>2. last \in [by : {"container", "finish", "blind finish", "restart"}, blind : BOOLEAN]
      BY DEF DInv, Typed
    <3> QED
      BY <3>1, <3>2, ExitKeeps DEF CardsKept
  <2>4. CASE Password \/ StageConfig \/ FinishChecks
    BY <2>4, AskingKeeps DEF CardsKept, Password, StageConfig, FinishChecks, InSteps
  <2>5. CASE Finish
    BY <2>5, FinishKeeps DEF CardsKept, Finish
  <2>6. CASE Confirm
    BY <2>6, ConfirmKeeps DEF CardsKept, Confirm
  <2>7. ASSUME NEW n \in Names, Stage(n) \/ SetSecret(n) \/ ClearSecret(n) PROVE CardsStand' /\ CardsKept
    <3>1. CASE Stage(n)
      BY <3>1, StageKeeps DEF CardsKept, Stage
    <3>2. CASE SetSecret(n)
      <4>1. /\ mode = "app" /\ UNCHANGED <<env, environ, marks, mode, statefile, docrow, card>>
            /\ rows' = With(rows, One(n, "set")) /\ "set" \in Values
        BY <3>2 DEF SetSecret, Running, volume, Values
      <4>2. DOMAIN rows' = DOMAIN rows \cup {n}
        BY <4>1, PutRow
      <4> QED
        BY <4>1, <4>2, CardsAreLeft
    <3>3. CASE ClearSecret(n)
      <4>1. /\ mode = "app" /\ UNCHANGED <<env, environ, marks, mode, statefile, docrow, card>>
            /\ Cleared(n) /\ \A s \in Servers : n # Cred[s]
        BY <3>3 DEF ClearSecret, Running, volume
      <4>2. DOMAIN rows' = DOMAIN rows \ {n}
        BY <4>1, ClearedIs
      <4> QED
        BY <4>1, <4>2, CardsAreLeft
    <3> QED
      BY <2>7, <3>1, <3>2, <3>3
  <2>8. CASE Rotate
    <3>1. /\ mode = "app" /\ UNCHANGED <<env, environ, marks, mode, docrow, card>> /\ "rotated" \in Values
      BY <2>8 DEF Rotate, Running, Values
    <3> DEFINE o == One(Web, "rotated")
    <3>2. (rows' = With(rows, o) /\ statefile' = statefile) \/ (rows' = rows /\ statefile' = With(statefile, o))
      BY <2>8 DEF Rotate
    <3>3. o \in Layer
      BY <3>1, OneIs
    <3> HIDE DEF o
    <3>4. DOMAIN With(rows, o) = DOMAIN rows \cup DOMAIN o /\ DOMAIN With(statefile, o) = DOMAIN statefile \cup DOMAIN o
      BY <3>3, WithIs
    <3> QED
      BY <3>1, <3>2, <3>4, CardsAreLeft
  <2>9. CASE \E r \in Cards : CardLooks(r) \/ CardWrites(r)
    BY <2>9, LooksStand, WritesStand
  <2>10. CASE RestartInPlace
    <3>1. mode = "app" /\ Restarts(environ, "restart") /\ UNCHANGED <<env, volume, database>> /\ mode' = "boot"
      BY <2>10 DEF RestartInPlace, Restarts
    <3> QED
      BY <3>1, RestartKeeps DEF CardsKept
  <2> QED
    BY <1>1, <2>1, <2>2, <2>3, <2>4, <2>5, <2>6, <2>7, <2>8, <2>9, <2>10 DEF DeploymentNext
<1>2. CASE UNCHANGED deploymentVars
  <2>1. /\ env' = env /\ environ' = environ /\ marks' = marks /\ mode' = mode
        /\ statefile' = statefile /\ docfile' = docfile /\ rows' = rows /\ docrow' = docrow /\ card' = card
    BY <1>2 DEF deploymentVars, process, volume, database
  <2> QED
    BY <2>1 DEF CardsStand, CardStands, CardsKept, ServersUsable, StoredDocument, Sources
<1> QED
  BY <1>1, <1>2

\* Where server cards are saved, cleared and removed one request at a time, no
\* request and no other page takes the last credential of a configured server:
\* the look each request takes still holds when it writes (api/servers.py,
\* save_server, clear_server_credential, remove_server; api/secrets_api.py).
THEOREM CardsAreKept == (\A r, q \in Cards : r = q) => (DeploymentSpec => CardsKeepCredentials)
<1> SUFFICES ASSUME \A r, q \in Cards : r = q PROVE DeploymentSpec => CardsKeepCredentials
  OBVIOUS
<1>1. DeploymentInit => DInv /\ CardsStand
  BY DeploymentStarts
<1>2. (DInv /\ CardsStand) /\ [DeploymentNext]_deploymentVars => (DInv /\ CardsStand)' /\ CardsKept
  <2> SUFFICES ASSUME DInv, CardsStand, [DeploymentNext]_deploymentVars PROVE DInv' /\ CardsStand' /\ CardsKept
    OBVIOUS
  <2>1. DInv'
    BY DeploymentSteps
  <2> QED
    BY <2>1, CardSteps
<1>3. CardsKept =>
        [mode = "app" /\ mode' = "app"
            /\ DOMAIN environ \subseteq DOMAIN Sources \cup marks.stored
            /\ ServersUsable(StoredDocument, Sources)
         => ServersUsable(StoredDocument', Sources')]_deploymentVars
  BY DEF CardsKept
<1> QED
  BY <1>1, <1>2, <1>3, PTL DEF DeploymentSpec, CardsKeepCredentials
==============================================================================
