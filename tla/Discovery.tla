----------------------------- MODULE Discovery ------------------------------
(***************************************************************************)
(* How an item of the media server comes to be known: the deliveries of    *)
(* Radarr and Sonarr (intake/), the safety net of the arr_sync job that    *)
(* lists every library and queues what no row answers for (arr/sync.py,    *)
(* enqueue_unknown_items), and the identity a pass stores for what it      *)
(* resolves (render/pipeline.py, _persist_identity).                       *)
(*                                                                         *)
(* A job is queued under a key made of external ids alone and carries a    *)
(* hint: the server's id for the item, which the worker follows while it   *)
(* still names that film and otherwise replaces by a search of the         *)
(* libraries in order. The items of a library come in the order of their   *)
(* ids, so what is left of a listing is a set. A server id names one item  *)
(* for good; a re-added film comes back under a new one. A row is one film *)
(* in one file; a file replaced under the same server id moves the row to  *)
(* the new file.                                                           *)
(***************************************************************************)
EXTENDS Integers, Sequences, FiniteSets, SequencesExt

CONSTANTS
    Keys,     \* the server's ids, numbers in the order they are given out
    Film,     \* the external id of each
    Lib,      \* the library of each
    Files,    \* base names
    Libs,     \* the libraries, in the order they are walked
    Holdings, \* what the server may start with: [keys, file of each key]
    Batch,    \* arr_sync.batch_size
    Events    \* bound: changes of the server and deliveries

ASSUME KeysAssumption == Keys \subseteq Nat \ {0}
ASSUME LibsAssumption == \A k \in Keys : Lib[k] \in ToSet(Libs)
ASSUME HoldingsAssumption ==
    \A h \in Holdings : h.keys \subseteq Keys /\ h.file \in [Keys -> Files]
ASSUME BatchAssumption == Batch \in Nat \ {0}

VARIABLES
    plex,     \* the items the server holds
    file,     \* the base name of each one's file
    rows,     \* media_items, in the order they were made: [film, file, lib]
    ref,      \* media_item_server_refs: the row each id points at
    queue,    \* the live job of each dedupe key: [state, hint]
    sweep,    \* the safety net: [at, lib, todo, known, hint, count]
    events

vars == <<plex, file, rows, ref, queue, sweep, events>>

NoRow == 0
NoHint == 0
NoJob == [state |-> "none", hint |-> NoHint]
Idle == [at |-> "idle", lib |-> 1, todo |-> {}, known |-> {}, hint |-> <<>>, count |-> 0]

Films == {Film[k] : k \in Keys}
Place(l) == CHOOSE n \in DOMAIN Libs : Libs[n] = l
Oldest(S) == CHOOSE k \in S : \A m \in S : k <= m

\* The id a row answers for, if it still has one.
KeyOf(r) == IF \E k \in Keys : ref[k] = r THEN CHOOSE k \in Keys : ref[k] = r ELSE NoHint

\* enqueue(): insert, debounce against a pending job, or wake a deferred one,
\* which keeps the payload it has.
Job(f, hint) ==
    CASE queue[f].state = "none" -> [state |-> "pending", hint |-> hint]
      [] queue[f].state = "deferred" -> [queue[f] EXCEPT !.state = "pending"]
      [] OTHER -> queue[f]
Minted(f) == queue[f].state # "pending"

Happens == events < Events /\ events' = events + 1

(***************************************************************************)
(* The server and the deliveries                                           *)
(***************************************************************************)
\* One library holds one item of a film, and two libraries hold two files.
Appear(k) ==
    /\ Happens
    /\ \A m \in plex : Film[m] = Film[k] => Lib[m] # Lib[k] /\ file[m] # file[k]
    /\ plex' = plex \cup {k}
    /\ UNCHANGED <<file, rows, ref, queue, sweep>>

Vanish(k) ==
    /\ Happens
    /\ k \in plex
    /\ plex' = plex \ {k}
    /\ UNCHANGED <<file, rows, ref, queue, sweep>>

\* An upgrade: another file under the same id, and the delivery that says so,
\* which knows no server's id.
Upgrade(k) ==
    /\ Happens
    /\ k \in plex
    /\ \E n \in Files \ {file[m] : m \in {i \in Keys : Film[i] = Film[k]}} :
          file' = [file EXCEPT ![k] = n]
    /\ queue' = [queue EXCEPT ![Film[k]] = Job(Film[k], NoHint)]
    /\ UNCHANGED <<plex, rows, ref, sweep>>

\* A delivery for a film the server may or may not have yet.
Deliver(f) ==
    /\ Happens
    /\ queue' = [queue EXCEPT ![f] = Job(f, NoHint)]
    /\ UNCHANGED <<plex, file, rows, ref, sweep>>

(***************************************************************************)
(* The safety net                                                          *)
(***************************************************************************)
\* One library's items, listed once.
SweepList ==
    /\ sweep.at = "idle"
    /\ LET items == {k \in plex : Lib[k] = Libs[sweep.lib]}
       IN  sweep' = [sweep EXCEPT !.at = "listed", !.todo = items]
    /\ UNCHANGED <<plex, file, rows, ref, queue, events>>

\* Mutant: a row of any library.
StaleAnywhere(k) == {r \in DOMAIN rows : rows[r].film = Film[k]}

\* The rows of this library that carry the item's identity.
StaleRows(k) == {r \in DOMAIN rows : rows[r].film = Film[k] /\ rows[r].lib = Lib[k]}

\* An unknown item is queued by its own id, unless exactly one row of the
\* library already carries its identity: then by that row's.
HintFor(k) ==
    IF Cardinality(StaleRows(k)) = 1
    THEN KeyOf(CHOOSE r \in StaleRows(k) : TRUE)
    ELSE k

SweepRead ==
    /\ sweep.at = "listed"
    /\ LET known == {k \in sweep.todo : ref[k] # NoRow}
       IN  sweep' = [sweep EXCEPT !.at = "enqueueing", !.known = known,
                       !.hint = [k \in sweep.todo \ known |-> HintFor(k)]]
    /\ UNCHANGED <<plex, file, rows, ref, queue, events>>

Room == sweep.count < Batch

SweepEnqueue ==
    /\ sweep.at = "enqueueing"
    /\ sweep.todo # {} /\ Room
    /\ LET k == Oldest(sweep.todo) IN
         IF k \in sweep.known
         THEN /\ sweep' = [sweep EXCEPT !.todo = @ \ {k}]
              /\ UNCHANGED queue
         ELSE /\ queue' = [queue EXCEPT ![Film[k]] = Job(Film[k], sweep.hint[k])]
              /\ sweep' = [sweep EXCEPT !.todo = @ \ {k},
                             !.count = IF Minted(Film[k]) THEN @ + 1 ELSE @]
    /\ UNCHANGED <<plex, file, rows, ref, events>>

\* The next library; after the last, the next run.
SweepNext ==
    /\ sweep.at = "enqueueing"
    /\ sweep.todo = {} \/ ~Room
    /\ sweep' = [Idle EXCEPT !.lib = (sweep.lib % Len(Libs)) + 1]
    /\ UNCHANGED <<plex, file, rows, ref, queue, events>>

(***************************************************************************)
(* The worker                                                              *)
(***************************************************************************)
\* A job without a hint takes the id of the only item stored for its film.
HintOf(f) ==
    LET stored == {k \in Keys : Film[k] = f /\ ref[k] # NoRow}
    IN  IF queue[f].hint # NoHint THEN queue[f].hint
        ELSE IF Cardinality(stored) = 1 THEN Oldest(stored) ELSE NoHint

\* The hint is followed while it still names an item of this film.
Follows(f) == HintOf(f) \in {k \in plex : Film[k] = f}

\* The hinted item, else the first the walk of the libraries finds.
Resolved(f) ==
    LET here == {k \in plex : Film[k] = f}
    IN  IF Follows(f) THEN {HintOf(f)}
        ELSE {k \in here : \A m \in here : Place(Lib[k]) <= Place(Lib[m])}

Identity(k) == [film |-> Film[k], file |-> file[k], lib |-> Lib[k]]
HolderOf(k) == {r \in DOMAIN rows : rows[r].film = Film[k] /\ rows[r].file = file[k]}

\* Mutant: no re-key in place.
FreshRowFor(k) ==
    IF HolderOf(k) # {} THEN CHOOSE r \in HolderOf(k) : TRUE ELSE Len(rows) + 1

\* The row of this film and file; else the row this id already points at,
\* moved to the new file; else a new one.
RowFor(k) ==
    IF HolderOf(k) # {} THEN CHOOSE r \in HolderOf(k) : TRUE
    ELSE IF ref[k] # NoRow THEN ref[k]
    ELSE Len(rows) + 1

\* Mutant: the item's former id is left.
PointToo(k, r) == [ref EXCEPT ![k] = r]

\* The id points at the row, and no other id of this server does.
Point(k, r) ==
    [m \in Keys |-> IF m = k THEN r ELSE IF ref[m] = r THEN NoRow ELSE ref[m]]

WriteRow(k, r) ==
    IF r \in DOMAIN rows THEN [rows EXCEPT ![r] = Identity(k)] ELSE Append(rows, Identity(k))

Store(k) ==
    LET r == RowFor(k)
    IN  rows' = WriteRow(k, r) /\ ref' = Point(k, r)

Process(f) ==
    /\ queue[f].state = "pending"
    /\ \E k \in Resolved(f) : Store(k)
    /\ queue' = [queue EXCEPT ![f] = NoJob]
    /\ UNCHANGED <<plex, file, sweep, events>>

Defer(f) ==
    /\ queue[f].state = "pending"
    /\ Resolved(f) = {}
    /\ queue' = [queue EXCEPT ![f].state = "deferred"]
    /\ UNCHANGED <<plex, file, rows, ref, sweep, events>>

\* The deferral ends: the wait for the server has no last attempt.
Due(f) ==
    /\ queue[f].state = "deferred"
    /\ queue' = [queue EXCEPT ![f].state = "pending"]
    /\ UNCHANGED <<plex, file, rows, ref, sweep, events>>

(***************************************************************************)
(* The specification                                                       *)
(***************************************************************************)
Init ==
    /\ \E h \in Holdings : plex = h.keys /\ file = h.file
    /\ rows = <<>>
    /\ ref = [k \in Keys |-> NoRow]
    /\ queue = [f \in Films |-> NoJob]
    /\ sweep = Idle
    /\ events = 0

Sweep == SweepList \/ SweepRead \/ SweepEnqueue \/ SweepNext
Work(f) == Process(f) \/ Defer(f)

Next ==
    \/ \E k \in Keys : Appear(k) \/ Vanish(k) \/ Upgrade(k)
    \/ \E f \in Films : Deliver(f)
    \/ Sweep
    \/ \E f \in Films : Work(f) \/ Due(f)

\* The sweep is scheduled for good, a pending job is worked, a deferral ends.
Fairness ==
    /\ WF_vars(Sweep)
    /\ \A f \in Films : WF_vars(Work(f)) /\ WF_vars(Due(f))

Spec == Init /\ [][Next]_vars /\ Fairness

(***************************************************************************)
(* Properties                                                              *)
(***************************************************************************)
TypeOK ==
    /\ plex \subseteq Keys
    /\ file \in [Keys -> Files]
    /\ \A r \in DOMAIN rows : rows[r] \in [film : Films, file : Files, lib : ToSet(Libs)]
    /\ ref \in [Keys -> 0..Len(rows)]
    /\ queue \in [Films -> [state : {"none", "pending", "deferred"}, hint : Keys \cup {NoHint}]]
    /\ sweep.count <= Batch

\* A server names an item by one id, and two rows never carry one identity:
\* a reader that asks for a row's id on this server has one answer
\* (pipeline.py, upsert_server_ref: "ONE ref per (item, server)").
OneIdPerRow ==
    /\ \A k, m \in Keys : ref[k] = ref[m] /\ k # m => ref[k] = NoRow
    /\ \A r, s \in DOMAIN rows :
          rows[r].film = rows[s].film /\ rows[r].file = rows[s].file => r = s

\* A row says the library of the item it answers for: config_for_library, the
\* sweep's own match and the library filters all read it.
RowSaysItsLibrary ==
    \A k \in Keys : ref[k] # NoRow =>
        rows[ref[k]].film = Film[k] /\ rows[ref[k]].lib = Lib[k]

\* A file replaced under a known id never leaves the old row, with its
\* overrides and dismissals, behind for a fresh one (_rekey_in_place).
KnownItemsKeepTheirRow ==
    [][\A k \in Keys : ref[k] # NoRow => ref'[k] <= Len(rows)]_vars

\* What the server holds is recorded in the end, whatever was delivered or
\* missed: the batches of successive sweeps work through the rest
\* (enqueue_unknown_items).
EveryItemIsFound ==
    \A k \in Keys : (k \in plex) ~> (ref[k] # NoRow \/ k \notin plex)

\* An item has one id and one row, and the row says the library the item is in.
DiscoverySafety ==
    /\ TypeOK
    /\ OneIdPerRow
    /\ RowSaysItsLibrary
=============================================================================
