----------------------------- MODULE ConfigStore -----------------------------
(* The configuration store and the processes that run on it.                *)
(*                                                                          *)
(* One row holds the configuration document; format 2 says the document is  *)
(* whole, format 1 that it is a delta over the mounted file.  Operators     *)
(* save, restore and import through one write path that validates against   *)
(* an unlocked read and writes under the row lock (or, when there is no row *)
(* to lock, an advisory lock and a second read).  A booting process seeds   *)
(* or converts the row, forgets the restart list and serves; a save swaps   *)
(* the configuration of the process that took it.                           *)
EXTENDS Integers, Sequences, FiniteSets

CONSTANTS Procs, Requests,
          Keys, Vals, Unset,   \* settings, their values, "not set"
          Required,            \* settings build_config cannot do without
          Frozen, Inert,       \* settings a swap does not reach
          Guarded,             \* list settings the file may own
          Stale,               \* settings that have left the schema
          Submitted,           \* what operators send: [document, confirm]
          Files, NoFile,       \* the mounted file, over time
          Rows, NoRow,         \* rows an earlier release may have left
          DropCap, Keep, Anything,
          MaxWrites, MaxBoots, MaxEdits

VARIABLES row,        \* NoRow or [doc, format, restart]
          snapshots,  \* displaced documents, oldest first
          file,       \* the mounted document or NoFile
          proc,       \* proc[p]: where the process is and what it runs on
          req,        \* req[r]: one operator request
          accepted,   \* history: the last accepted write
          apart,      \* history: two processes overlapped, or the row was deleted
          writes, boots, edits

store == <<row, snapshots>>
bounds == <<writes, boots, edits>>
vars == <<row, snapshots, file, proc, req, accepted, apart, bounds>>

Empty == <<>>
Documents == UNION {[D -> Vals] : D \in SUBSET (Keys \cup Stale)}

----------------------------------------------------------------------------
(* Documents. *)

Stripped(d) == [k \in DOMAIN d \ Stale |-> d[k]]

Merge(base, d) == [k \in DOMAIN base \cup DOMAIN d |->
                      IF k \in DOMAIN d THEN d[k] ELSE base[k]]

Valid(d) == Required \subseteq DOMAIN d /\ DOMAIN d \subseteq Keys

\* build_config: the generation a whole document describes.
Generation(d) == [k \in Keys |-> IF k \in DOMAIN d THEN d[k] ELSE Unset]

Changed(g, h) == {k \in Keys : g[k] # h[k]}

\* The settings waiting for a restart, each against the generation that settled it.
RestartPaths(booted, object, g) ==
    (Changed(booted, g) \cap (Frozen \ Inert)) \cup (Changed(object, g) \cap Inert)

DropRefused(held, d) ==
    /\ held # Empty
    /\ d = Empty \/ Cardinality(DOMAIN held \ DOMAIN d) > DropCap

RowType == [doc : Documents, format : {1, 2}, restart : SUBSET Keys]

\* A setting has left the schema or is in it; what an earlier release left
\* labelled whole builds; "no file" and "no row" are neither.
ASSUME SettingsAssumption == Keys \cap Stale = {}
ASSUME FilesAssumption == Files \subseteq Documents /\ NoFile \notin Documents
ASSUME RowsAssumption ==
    /\ Rows \subseteq RowType /\ NoRow \notin RowType
    /\ \A r \in Rows : r.format = 2 => Valid(Stripped(r.doc))
ASSUME SubmittedAssumption == Submitted \subseteq [document : Documents, confirm : BOOLEAN]
ASSUME KeepAssumption == Keep \in Nat

----------------------------------------------------------------------------
(* The row. *)

Stored == IF row = NoRow THEN Empty ELSE Stripped(row.doc)
Whole == row # NoRow /\ row.format = 2
RestartList == IF row = NoRow THEN {} ELSE row.restart

\* capture_snapshot: the displaced document with its format; the newest Keep stay.
Capture(d, f) ==
    LET longer == Append(snapshots, [doc |-> d, format |-> f])
    IN  IF d = Empty THEN snapshots
        ELSE SubSeq(longer, IF Len(longer) > Keep THEN Len(longer) - Keep + 1 ELSE 1,
                    Len(longer))

----------------------------------------------------------------------------
(* Processes: boot, swap, crash. *)

Down == [st |-> "down", object |-> Unset, booted |-> Unset, running |-> Unset,
         base |-> NoFile]

Up(p) == proc[p].st # "down"
Serving(p) == proc[p].st = "serving"

\* swap_config: the process runs on the new generation.
Swapped(p, g) == [p EXCEPT !.running = g]

Idle == [pc |-> "idle", proc |-> Unset, page |-> Empty, doc |-> Empty,
         after |-> Unset, whole |-> FALSE, named |-> Anything, confirm |-> FALSE]

\* A process that dies takes its requests with it.
Lost(p) == [r \in Requests |-> IF req[r].proc = p THEN Idle ELSE req[r]]

Dies(p) == /\ proc' = [proc EXCEPT ![p] = Down]
           /\ req' = Lost(p)

\* main._boot_config: the application object is built from the stored whole
\* document, or from the file when the store holds none or did not answer.
Build(p) ==
    /\ ~Up(p) /\ boots < MaxBoots
    /\ \E answered \in BOOLEAN :
        LET d == IF answered /\ Whole /\ Stored # Empty THEN Stored ELSE file
        IN  /\ d # NoFile
            /\ Valid(d)
            /\ proc' = [proc EXCEPT ![p] = [Down EXCEPT !.st = "built",
                            !.object = Generation(d), !.booted = Generation(d),
                            !.running = Generation(d)]]
    /\ apart' = (apart \/ \E q \in Procs \ {p} : Up(q))
    /\ boots' = boots + 1
    /\ UNCHANGED <<store, file, req, accepted, writes, edits>>

\* The generation the lifespan loaded is swapped in and becomes the booted one.
Comes(p, d) ==
    proc' = [proc EXCEPT ![p] = [Swapped(@, Generation(d)) EXCEPT
                !.st = "loaded", !.booted = Generation(d)]]

\* load_effective_config: an unlocked read decides which arm the boot takes.
Load(p) ==
    /\ proc[p].st = "built"
    /\ \/ /\ Whole /\ Stored # Empty /\ Valid(Stored)
          /\ Comes(p, Stored)
          /\ UNCHANGED req
       \/ /\ Whole => Stored = Empty
          /\ file # NoFile
          /\ proc' = [proc EXCEPT ![p].base = file,
                        ![p].st = IF Stored # Empty THEN "migrate" ELSE "seed"]
          /\ UNCHANGED req
       \/ /\ IF Whole /\ Stored # Empty THEN ~Valid(Stored) ELSE file = NoFile
          /\ Dies(p)
    /\ UNCHANGED <<store, file, accepted, apart, bounds>>

\* migrate_delta_to_document under the row lock: what the lock holds is what is
\* converted, and a row converted meanwhile is taken as it stands.
Convert(p) ==
    LET merged == Merge(Stripped(proc[p].base), Stored)
    IN  \/ /\ Whole /\ Valid(Stored)
           /\ Comes(p, Stored)
           /\ UNCHANGED <<store, req>>
        \/ /\ ~Whole /\ Valid(merged)
           /\ snapshots' = Capture(Stored, 1)
           /\ row' = [doc |-> merged, format |-> 2, restart |-> RestartList]
           /\ Comes(p, merged)
           /\ UNCHANGED req
        \/ /\ ~Valid(IF Whole THEN Stored ELSE merged)
           /\ Dies(p)
           /\ UNCHANGED store

Migrate(p) ==
    /\ proc[p].st = "migrate"
    /\ Convert(p)
    /\ UNCHANGED <<file, accepted, apart, bounds>>

\* seed_store once the lock is held: it fills an empty store and nothing else.
SeedLocked(p) ==
    LET written == row # NoRow /\ row.doc # Empty
        d == IF written THEN Stored ELSE Stripped(proc[p].base)
    IN  \/ /\ written /\ Stored = Empty
           /\ Convert(p)
        \/ /\ ~(written /\ Stored = Empty) /\ Valid(d)
           /\ row' = IF written THEN row
                     ELSE [doc |-> d, format |-> 2, restart |-> RestartList]
           /\ Comes(p, d)
           /\ UNCHANGED <<snapshots, req>>
        \/ /\ ~(written /\ Stored = Empty) /\ ~Valid(d)
           /\ Dies(p)
           /\ UNCHANGED store

\* store_row(for_update): with no row to lock, the advisory lock and a second look.
Seed(p) ==
    /\ \/ /\ proc[p].st = "seed" /\ row = NoRow
          /\ proc' = [proc EXCEPT ![p].st = "seeding"]
          /\ UNCHANGED <<store, req>>
       \/ /\ proc[p].st = "seeding" \/ (proc[p].st = "seed" /\ row # NoRow)
          /\ SeedLocked(p)
    /\ UNCHANGED <<file, accepted, apart, bounds>>

\* clear_restart_paths; then the process serves.
ClearRestart(p) ==
    /\ proc[p].st = "loaded"
    /\ row' = IF row = NoRow THEN row ELSE [row EXCEPT !.restart = {}]
    /\ proc' = [proc EXCEPT ![p].st = "serving"]
    /\ UNCHANGED <<snapshots, file, req, accepted, apart, bounds>>

Crash(p) ==
    /\ Up(p)
    /\ Dies(p)
    /\ UNCHANGED <<store, file, accepted, apart, bounds>>

----------------------------------------------------------------------------
(* Requests: one write path for save, apply, restore and import. *)

\* GET /api/config: the page remembers the document (its revision) it shows.
OpenPage(r) ==
    /\ req[r].pc = "idle" /\ writes < MaxWrites
    /\ \E p \in Procs :
        /\ Serving(p)
        /\ req' = [req EXCEPT ![r] = [Idle EXCEPT !.pc = "open", !.proc = p,
                                        !.page = Stored]]
    /\ UNCHANGED <<store, file, proc, accepted, apart, bounds>>

\* _definitions_guard: a delta may not start to own a list the file owns.
GuardRefuses(d) ==
    \E k \in Guarded : k \in DOMAIN d /\ k \in DOMAIN file /\ k \notin DOMAIN Stored

\* _validated_generation, from an unlocked read of the row: which arm the
\* document belongs to, and the generation it describes there.
Validate(r, d, n, c) ==
    LET whole == Whole \/ (file = NoFile /\ Stored = Empty)
        full == IF whole THEN d ELSE Merge(file, d)
    IN  /\ DOMAIN d \subseteq Keys
        /\ whole \/ (file # NoFile /\ ~GuardRefuses(d))
        /\ Valid(full)
        /\ req' = [req EXCEPT ![r] = [@ EXCEPT !.pc = "valid", !.page = Empty,
                      !.doc = d, !.whole = whole, !.after = Generation(full),
                      !.named = n, !.confirm = c]]

\* put_config_overrides, apply_config_overrides, import_config_overrides.
Save(r) ==
    /\ req[r].pc = "open"
    /\ \E b \in Submitted, n \in {req[r].page, Anything} :
           Validate(r, b.document, n, b.confirm)
    /\ UNCHANGED <<store, file, proc, accepted, apart, bounds>>

\* restore_config_snapshot: a delta-era snapshot is merged over the file first.
Restore(r) ==
    /\ req[r].pc = "open"
    /\ \E i \in DOMAIN snapshots :
        LET s == snapshots[i]
            d == IF s.format = 1 THEN Merge(Stripped(file), Stripped(s.doc))
                 ELSE Stripped(s.doc)
        IN  /\ s.format = 1 => file # NoFile
            /\ Validate(r, d, req[r].page, TRUE)
    /\ UNCHANGED <<store, file, proc, accepted, apart, bounds>>

\* import_config_file: the mounted file as the document.
ImportFile(r) ==
    /\ req[r].pc = "open" /\ file # NoFile
    /\ Validate(r, Stripped(file), req[r].page, TRUE)
    /\ UNCHANGED <<store, file, proc, accepted, apart, bounds>>

\* store_row(for_update) with no row to lock: wait for the advisory lock.
TakeAdvisory(r) ==
    /\ req[r].pc = "valid" /\ row = NoRow
    /\ req' = [req EXCEPT ![r].pc = "advisory"]
    /\ UNCHANGED <<store, file, proc, accepted, apart, bounds>>

\* Mutant: no second read once the advisory lock is granted.
LockedRowPeeked(r) == IF req[r].pc = "advisory" THEN NoRow ELSE row

\* The row the lock holds: read again once the advisory lock is granted.
LockedRow(r) == row

\* The three refusals of _persist_and_swap, under the lock.
Refused(r) ==
    LET q == req[r]
        held == IF LockedRow(r) = NoRow THEN Empty ELSE Stripped(LockedRow(r).doc)
    IN  \/ ~q.whole /\ LockedRow(r) # NoRow /\ LockedRow(r).format = 2
        \/ q.named # Anything /\ q.named # held
        \/ ~q.confirm /\ DropRefused(held, q.doc)

\* The process that committed swaps, unless it dies between the two.
Installs(r) ==
    LET p == req[r].proc
    IN  \/ /\ proc' = [proc EXCEPT ![p] = Swapped(@, req[r].after)]
           /\ req' = [req EXCEPT ![r] = Idle]
        \/ Dies(p)

\* Mutant: the restart list is measured against the last save.
WrittenSinceSave(r) ==
    LET q == req[r]
        p == proc[q.proc]
    IN  [doc |-> q.doc,
         format |-> IF q.whole THEN 2
                    ELSE IF LockedRow(r) = NoRow THEN 1 ELSE LockedRow(r).format,
         restart |-> RestartPaths(p.running, p.object, q.after)]

\* The row a save writes: how it was validated, and what waits for a restart.
Written(r) ==
    LET q == req[r]
        p == proc[q.proc]
    IN  [doc |-> q.doc,
         format |-> IF q.whole THEN 2
                    ELSE IF LockedRow(r) = NoRow THEN 1 ELSE LockedRow(r).format,
         restart |-> RestartPaths(p.booted, p.object, q.after)]

\* _persist_and_swap: refuse, or snapshot, write and commit in one transaction.
Persist(r) ==
    /\ req[r].pc = "advisory" \/ (req[r].pc = "valid" /\ row # NoRow)
    /\ \/ /\ Refused(r)
          /\ req' = [req EXCEPT ![r] = Idle]
          /\ UNCHANGED <<store, proc, accepted, writes>>
       \/ /\ ~Refused(r)
          /\ writes < MaxWrites
          /\ snapshots' = Capture(Stored, IF Whole THEN 2 ELSE 1)
          /\ row' = Written(r)
          /\ accepted' = [named |-> req[r].named, stored |-> req[r].doc]
          /\ writes' = writes + 1
          /\ Installs(r)
    /\ UNCHANGED <<file, apart, boots, edits>>

----------------------------------------------------------------------------
(* What happens around the service. *)

\* The mounted file is edited, removed or put back.
EditFile ==
    /\ edits < MaxEdits
    /\ file' \in (Files \cup {NoFile}) \ {file}
    /\ edits' = edits + 1
    /\ UNCHANGED <<store, proc, req, accepted, apart, writes, boots>>

\* The row is deleted by hand, which is the way out of a corrupt one.
DeleteRow ==
    /\ edits < MaxEdits /\ row # NoRow
    /\ row' = NoRow
    /\ edits' = edits + 1
    /\ apart' = TRUE
    /\ UNCHANGED <<snapshots, file, proc, req, accepted, writes, boots>>

Init ==
    /\ row \in Rows \cup {NoRow}
    /\ snapshots = <<>>
    /\ file \in Files
    /\ proc = [p \in Procs |-> Down]
    /\ req = [r \in Requests |-> Idle]
    /\ accepted = [named |-> Anything, stored |-> Empty]
    /\ apart = FALSE
    /\ writes = 0 /\ boots = 0 /\ edits = 0

Next ==
    \/ \E p \in Procs : \/ Build(p) \/ Load(p) \/ Migrate(p) \/ Seed(p)
                         \/ ClearRestart(p) \/ Crash(p)
    \/ \E r \in Requests : \/ OpenPage(r) \/ Save(r) \/ Restore(r) \/ ImportFile(r)
                            \/ TakeAdvisory(r) \/ Persist(r)
    \/ EditFile
    \/ DeleteRow

Spec == Init /\ [][Next]_vars

----------------------------------------------------------------------------
(* Properties. *)

Generations == [Keys -> Vals \cup {Unset}]

TypeOK ==
    /\ row = NoRow \/ row \in RowType
    /\ \A i \in DOMAIN snapshots : snapshots[i] \in [doc : Documents, format : {1, 2}]
    /\ file \in Documents \cup {NoFile}
    /\ \A p \in Procs :
        /\ proc[p].st \in {"down", "built", "migrate", "seed", "seeding", "loaded", "serving"}
        /\ Up(p) => /\ proc[p].object \in Generations
                    /\ proc[p].booted \in Generations
                    /\ proc[p].running \in Generations
    /\ \A r \in Requests : req[r].pc \in {"idle", "open", "valid", "advisory"}

\* A row labelled whole always builds on its own, whatever saves, conversions
\* and seeds raced for it: the next boot can load it without the file.
WholeRowsBuild == Whole => Valid(Stored)

\* A process alone with its store runs the stored document: every boot path
\* and every save leaves the running generation and the row saying the same.
RunsWhatIsStored ==
    \A p \in Procs : Serving(p) /\ ~apart =>
        Whole /\ proc[p].running = Generation(Stored)

\* A process alone with its store never asks for a restart that would change
\* nothing, and asks for one whenever a frozen setting differs from what it
\* booted on, however often the setting was edited and put back.
RestartListIsTrue ==
    \A p \in Procs : Serving(p) /\ ~apart =>
        LET now == Generation(Stored)
        IN  /\ RestartList \subseteq RestartPaths(proc[p].booted, proc[p].object, now)
            /\ Changed(proc[p].booted, now) \cap (Frozen \ Inert) \subseteq RestartList

Register == INSTANCE ConfigRegister WITH
                value <- Stored,
                kept <- [i \in DOMAIN snapshots |-> snapshots[i].doc],
                interventions <- edits

\* The store is a compare-and-set register with a bounded history: no accepted
\* write replaces a document its sender had not seen, and every displaced
\* document is kept in the transaction that displaced it.
RegisterSpec == Register!Spec

\* clear_restart_paths' own rule: a boot forgets a claim only if the generation
\* it booted on has that setting as the store has it now.
BootForgetsOnlyWhatItApplied ==
    [][\A p \in Procs : proc[p].st = "loaded" /\ proc'[p].st = "serving" =>
          \A k \in RestartList \ Inert : proc[p].booted[k] = Generation(Stored)[k]]_vars

\* What the store holds builds, a serving process runs on it or says that it wants a
\* restart, and the restart list is neither short nor long.
ConfigSafety ==
    /\ TypeOK
    /\ WholeRowsBuild
    /\ RunsWhatIsStored
    /\ RestartListIsTrue
=============================================================================
