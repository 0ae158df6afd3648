------------------------------ MODULE Metadata ------------------------------
(***************************************************************************)
(* The metadata half of one item: facts gathered and stored                *)
(* (facts/gather.py), sort positions handed out by the collections pass    *)
(* (collections/member_sort.py), per-item overrides                        *)
(* (api/item_overrides.py), and the writes to Plex and Jellyfin by the     *)
(* pipeline (render/pipeline.py apply_metadata, plex/writer.py,            *)
(* jellyfin/writer.py) and by the delivery retry (deliveries.py).          *)
(*                                                                         *)
(* A field has a value, 0 being blank, and a lock: "on", "off", or "none"  *)
(* where the server says nothing.  Plex takes the edited fields only,      *)
(* Jellyfin the whole document that was read.                              *)
(***************************************************************************)
EXTENDS Naturals, FiniteSets

CONSTANTS
    MetaFields,     \* the fields modelled; "sort" is the sort title
    Sourced,        \* fields a provider has a value for
    Answers,        \* what it may answer
    Listed,         \* list-valued fields (genres)
    Lockable,       \* fields Jellyfin has a lock for
    Removable,      \* fields a `remove' verb clears
    Defs,           \* definitions with member_sort
    First,          \* the one that runs first
    Place,          \* the sort title each gives the item
    Configs,        \* the operations sections an operator may load
    Retried,        \* the servers whose pending rows come due
    Touched,        \* the server's fields somebody else changes
    MaxAttempts,    \* failed retries before a row is failed
    MetadataEvents  \* bound on what happens from outside

VARIABLES
    shown,          \* [server -> [field -> [val, lock]]]
    provider,       \* what the providers would answer
    stored,         \* item_facts
    ov,             \* item_metadata_overrides, 0 is no row
    pos,            \* item_sort_positions: "none", "held" or "released", and by whom
    rows,           \* metadata_writes: [server -> [status, attempts]]
    cfg,            \* the operations section
    exempt,         \* the item carries an ignored label
    queued,         \* a process_item job waits
    work,           \* the worker running it
    redo,           \* the delivery retry
    coll,           \* the collections pass owes an enqueue
    op,             \* the override request
    metaBudget,
    metaGhost       \* history used by the properties only

metadataVars ==
    <<shown, provider, stored, ov, pos, rows, cfg, exempt, queued, work, redo, coll, op, metaBudget, metaGhost>>

Servers == {"plex", "jellyfin"}
Wish == 3       \* an operator's override
Agent == 1      \* what the server's own agent fills in
Hand == 9       \* what a person types on the server
KeepValue == 99 \* an edit that keeps the value

Verbs == {"none", "lock", "unlock", "remove"}

ASSUME FieldsAssumption ==
    /\ "sort" \in MetaFields /\ Sourced \subseteq MetaFields
    /\ Retried \subseteq Servers /\ Touched \subseteq Servers \X MetaFields

\* Blank and "keep the value" are no values; a definition gives a sort title.
ASSUME AnswersAssumption ==
    /\ Answers \cap {0, KeepValue} = {}
    /\ First \in Defs
    /\ \A d \in Defs : Place[d] \notin {0, KeepValue}

ASSUME OperationsAssumption ==
    /\ Configs # {}
    /\ \A c \in Configs : c.verb \in [MetaFields -> Verbs] /\ c.write \in [Servers -> BOOLEAN]

ASSUME AttemptsAssumption == MaxAttempts \in Nat \ {0}

Blank == [f \in MetaFields |-> 0]
Pairs == Servers \X MetaFields
NoView == [f \in MetaFields |-> [val |-> 0, lock |-> "none"]]
Unplaced == [st |-> "none", def |-> First]
NoWork == [pc |-> "idle", cfg |-> CHOOSE c \in Configs : TRUE, facts |-> Blank, ovs |-> Blank, sort |-> KeepValue,
           on |-> {}, todo |-> {}, at |-> "plex", view |-> NoView, out |-> [s \in Servers |-> "none"], clean |-> {}]
NoRetry == [pc |-> "idle", cfg |-> CHOOSE c \in Configs : TRUE, at |-> "plex", facts |-> Blank, ovs |-> Blank,
            view |-> NoView, clean |-> {}]
NoOp == [pc |-> "idle", field |-> "none"]
NoGhost == [dirty |-> Pairs, outage |-> FALSE, last |-> Blank, alone |-> TRUE]

MetadataInit ==
    /\ shown = [s \in Servers |-> [f \in MetaFields |-> [val |-> Agent, lock |-> "none"]]]
    /\ provider \in [MetaFields -> Answers \cup {0}]
    /\ \A f \in MetaFields : provider[f] # 0 <=> f \in Sourced
    /\ stored = Blank
    /\ ov = Blank
    /\ pos = Unplaced
    /\ rows = [s \in Servers |-> [status |-> "none", attempts |-> 0]]
    /\ cfg \in Configs
    /\ exempt = FALSE
    /\ queued = TRUE
    /\ work = NoWork
    /\ redo = NoRetry
    /\ coll = FALSE
    /\ op = NoOp
    /\ metaBudget = MetadataEvents
    /\ metaGhost = NoGhost

SpendMeta == metaBudget > 0 /\ metaBudget' = metaBudget - 1

(* What a change makes stale: pairs a running pass no longer answers for.   *)
Unsettle(P) ==
    /\ work' = [work EXCEPT !.clean = @ \ P]
    /\ redo' = [redo EXCEPT !.clean = @ \ P]

Disturb(P) == Unsettle(P) /\ metaGhost' = [metaGhost EXCEPT !.dirty = @ \cup P]

Everywhere(f) == Servers \X {f}

-----------------------------------------------------------------------------
(* The planner both writers use (plex/writer.py).                           *)

Nothing == [val |-> KeepValue, lock |-> "keep"]

Put(v) == [val |-> v, lock |-> "on"]

EnsureLocked(cur) == IF cur.lock = "on" THEN Nothing ELSE [val |-> KeepValue, lock |-> "on"]

WritesAbsent(cur, f, v) == IF cur.val # v THEN Put(v) ELSE Nothing

(* A provider's value, where it differs; a list equal already is locked.    *)
FactEdit(cur, f, v) ==
    IF v = 0 THEN Nothing
    ELSE IF cur.val # v THEN Put(v)
    ELSE IF f \in Listed THEN EnsureLocked(cur) ELSE Nothing

(* A sort title is put; a released one is blanked and unlocked, unless the  *)
(* server says it is unlocked already.                                      *)
SortEdit(cur, want, c) ==
    IF want = KeepValue \/ ~c.sortApply THEN Nothing
    ELSE IF want = 0 THEN (IF cur.lock = "off" THEN Nothing ELSE [val |-> 0, lock |-> "off"])
    ELSE IF cur.val # want THEN Put(want) ELSE Nothing

VerbEdit(cur, f, verb) ==
    IF verb = "lock" /\ cur.lock # "on" THEN [val |-> KeepValue, lock |-> "on"]
    ELSE IF verb = "unlock" /\ cur.lock # "off" THEN [val |-> KeepValue, lock |-> "off"]
    ELSE IF verb = "remove" /\ f \in Removable /\ cur.val # 0 THEN Put(0)
    ELSE IF verb = "remove" /\ f \in Removable /\ f \in Listed THEN EnsureLocked(cur)
    ELSE Nothing

OverrideEdit(cur, v) == IF cur.val # v THEN Put(v) ELSE EnsureLocked(cur)

(* A field in field_verbs or in the overrides leaves the provider path.     *)
PlanEdits(view, facts, sort, ovs, c) ==
    [f \in MetaFields |->
        IF ovs[f] # 0 THEN OverrideEdit(view[f], ovs[f])
        ELSE IF c.verb[f] # "none" THEN VerbEdit(view[f], f, c.verb[f])
        ELSE IF f = "sort" THEN SortEdit(view[f], sort, c)
        ELSE FactEdit(view[f], f, facts[f])]

(* Plex keeps a lock per field.  Jellyfin has one for a few fields only and *)
(* never says that one is off.                                              *)
Locked(s, f, cur, e) ==
    IF e.lock = "keep" THEN cur.lock
    ELSE IF s = "plex" THEN e.lock
    ELSE IF f \notin Lockable \/ e.lock = "off" THEN "none" ELSE "on"

Edited(s, base, edits) ==
    [f \in MetaFields |-> [val |-> IF edits[f].val = KeepValue THEN base[f].val ELSE edits[f].val,
                       lock |-> Locked(s, f, base[f], edits[f])]]

(* Plex: the edits over what it holds now.  Jellyfin: the document read     *)
(* earlier, edited and posted whole.                                        *)
Sent(s, view, edits) ==
    IF s = "plex" \/ (\A f \in MetaFields : edits[f] = Nothing) THEN Edited(s, shown[s], edits)
    ELSE Edited(s, view, edits)

Overwritten(s, view) == {p \in {s} \X MetaFields : s = "jellyfin" /\ view[p[2]] # shown[s][p[2]]}

(* What a write of a server leaves undecided: the fields it was disturbed   *)
(* on, and those it puts back as it had read them.                          *)
Unsure(s, view, clean) == Overwritten(s, view) \cup (({s} \X MetaFields) \ clean)

-----------------------------------------------------------------------------
(* The pass over the item.                                                  *)

Coalesced(facts) == [f \in MetaFields |-> IF facts[f] # 0 THEN facts[f] ELSE stored[f]]

PassGathers ==
    /\ queued
    /\ work.pc = "idle"
    /\ queued' = FALSE
    /\ \E answered \in {Sourced, {}} : \E r \in {Servers, {"plex"}} :
       \E facts \in {[f \in MetaFields |-> IF f \in answered THEN provider[f] ELSE 0]} :
          /\ stored' = Coalesced(facts)
          /\ work' = [NoWork EXCEPT !.pc = "load", !.cfg = cfg, !.facts = facts, !.on = r, !.todo = r,
                                    !.clean = r \X (MetaFields \ (Sourced \ answered))]
          /\ metaGhost' = [metaGhost EXCEPT !.last = [f \in MetaFields |-> IF facts[f] # 0 THEN facts[f] ELSE @[f]]]
    /\ UNCHANGED <<shown, provider, ov, pos, rows, cfg, exempt, redo, coll, op, metaBudget>>

(* with_sort_position, then load_overrides.                                 *)
WithSortPosition == IF pos.st = "none" THEN KeepValue ELSE IF pos.st = "released" THEN 0 ELSE Place[pos.def]

PassLoads ==
    /\ work.pc = "load"
    /\ work' = [work EXCEPT !.pc = "write", !.ovs = ov, !.sort = WithSortPosition]
    /\ UNCHANGED <<shown, provider, stored, ov, pos, rows, cfg, exempt, queued, redo, coll, op, metaBudget, metaGhost>>

NextServer == IF "plex" \in work.todo THEN "plex" ELSE "jellyfin"

(* Per server: the toggle, the exemption, then the item as it is now.       *)
PassReads ==
    /\ work.pc = "write"
    /\ work.todo # {}
    /\ \E s \in {NextServer} :
          work' = IF ~work.cfg.write[s] \/ exempt
                  THEN [work EXCEPT !.todo = @ \ {s}, !.out[s] = "skipped"]
                  ELSE [work EXCEPT !.pc = "send", !.at = s, !.view = shown[s]]
    /\ UNCHANGED <<shown, provider, stored, ov, pos, rows, cfg, exempt, queued, redo, coll, op, metaBudget, metaGhost>>

OneDown(s) == work.todo \ {s}

(* The write goes through, or fails with or without having been applied;    *)
(* a failure is recorded and the next server has its turn.                  *)
PassSends ==
    /\ work.pc = "send"
    /\ \E s \in {work.at} :
       \E edits \in {PlanEdits(work.view, work.facts, work.sort, work.ovs, work.cfg)} :
       \E after \in {Sent(s, work.view, edits)} :
       \E unsure \in {Unsure(s, work.view, work.clean)} :
          \/ /\ shown' = [shown EXCEPT ![s] = after]
             /\ work' = [work EXCEPT !.pc = "write", !.todo = @ \ {s}, !.out[s] = "written", !.clean = @ \ unsure]
             /\ redo' = [redo EXCEPT !.clean = @ \ unsure]
             /\ metaGhost' = [metaGhost EXCEPT !.dirty = @ \cup unsure]
          \/ /\ shown' \in {shown, [shown EXCEPT ![s] = after]}
             /\ work' = [work EXCEPT !.pc = "write", !.todo = OneDown(s), !.out[s] = "pending", !.clean = @ \ ({s} \X MetaFields)]
             /\ redo' = [redo EXCEPT !.clean = @ \ ({s} \X MetaFields)]
             /\ metaGhost' = [metaGhost EXCEPT !.dirty = @ \cup ({s} \X MetaFields)]
    /\ UNCHANGED <<provider, stored, ov, pos, rows, cfg, exempt, queued, coll, op, metaBudget>>

(* record_metadata: an ended row starts over; a failed one is armed again.  *)
RowRecorded(row, out) ==
    IF out = "none" THEN row
    ELSE IF out \in {"written", "skipped"} THEN [status |-> out, attempts |-> 0]
    ELSE [status |-> out,
          attempts |-> IF row.status = "failed" THEN 1
                       ELSE IF row.attempts < MaxAttempts THEN row.attempts + 1 ELSE MaxAttempts]

(* The tombstone goes whatever became of the clear, and even if the row has *)
(* been held again since.                                                   *)
DropsTombstone == work.sort = 0 /\ work.cfg.sortApply

PassCommits ==
    /\ work.pc = "write"
    /\ work.todo = {}
    /\ rows' = [s \in Servers |-> RowRecorded(rows[s], work.out[s])]
    /\ pos' = IF DropsTombstone THEN Unplaced ELSE pos
    /\ work' = NoWork
    /\ metaGhost' = [metaGhost EXCEPT !.dirty = (@ \ {p \in work.clean : work.out[p[1]] = "written"})
                                            \cup (IF DropsTombstone /\ pos.st = "held" THEN Everywhere("sort") ELSE {}),
                              !.alone = @ /\ \A s \in work.on : work.out[s] # "none"]
    /\ UNCHANGED <<shown, provider, stored, ov, cfg, exempt, queued, redo, coll, op, metaBudget>>

-----------------------------------------------------------------------------
(* The retry of a pending row: the stored facts, no sort position.          *)

FactsFromRow == stored

Settles(s, out) == rows' = [rows EXCEPT ![s] = RowRecorded(@, out)]

(* A failed attempt counts; at the last the row is failed.                  *)
Counts(s) ==
    rows' = [rows EXCEPT ![s] = IF @.attempts + 1 >= MaxAttempts THEN [status |-> "failed", attempts |-> MaxAttempts]
                                ELSE [status |-> "pending", attempts |-> @.attempts + 1]]

RetryPicks(s) ==
    /\ redo.pc = "idle"
    /\ rows[s].status = "pending"
    /\ \/ ~cfg.write[s] /\ Settles(s, "skipped") /\ UNCHANGED redo
       \/ cfg.write[s] /\ Counts(s) /\ UNCHANGED redo
       \/ /\ cfg.write[s]
          /\ redo' = [NoRetry EXCEPT !.pc = "read", !.cfg = cfg, !.at = s, !.facts = FactsFromRow, !.ovs = ov,
                                      !.clean = {s} \X {f \in MetaFields : stored[f] \in {0, provider[f]}}]
          /\ UNCHANGED rows
    /\ UNCHANGED <<shown, provider, stored, ov, pos, cfg, exempt, queued, work, coll, op, metaBudget, metaGhost>>

RetryReads ==
    /\ redo.pc = "read"
    /\ IF exempt THEN Settles(redo.at, "skipped") /\ redo' = NoRetry
       ELSE redo' = [redo EXCEPT !.pc = "send", !.view = shown[redo.at]] /\ UNCHANGED rows
    /\ UNCHANGED <<shown, provider, stored, ov, pos, cfg, exempt, queued, work, coll, op, metaBudget, metaGhost>>

RetrySends ==
    /\ redo.pc = "send"
    /\ \E s \in {redo.at} :
       \E edits \in {PlanEdits(redo.view, redo.facts, KeepValue, redo.ovs, redo.cfg)} :
       \E after \in {Sent(s, redo.view, edits)} :
       \E unsure \in {Unsure(s, redo.view, redo.clean)} :
          /\ \/ shown' = [shown EXCEPT ![s] = after] /\ Settles(s, "written")
             \/ shown' \in {shown, [shown EXCEPT ![s] = after]} /\ Counts(s)
          /\ work' = [work EXCEPT !.clean = @ \ unsure]
          /\ metaGhost' = [metaGhost EXCEPT !.dirty = @ \cup unsure]
    /\ redo' = NoRetry
    /\ UNCHANGED <<provider, stored, ov, pos, cfg, exempt, queued, coll, op, metaBudget>>

-----------------------------------------------------------------------------
(* The collections pass: what each definition's run said of the item.       *)

Others == Defs \ {First}

Outcomes == [Defs -> [lists : BOOLEAN, run : {"ran", "failed", "unnamed"}]]

Claims(o, d) == o[d] = [lists |-> TRUE, run |-> "ran"]

(* The first definition to claim the item has it.                           *)
Wanted(o) ==
    IF Claims(o, First) THEN {First}
    ELSE LET c == {d \in Others : Claims(o, d)} IN IF c = {} THEN {} ELSE {CHOOSE d \in c : TRUE}

EveryOneSettles(o, d) == TRUE

(* A definition releases only when it ran; one that could not even be named *)
(* holds every release.                                                     *)
Settled(o, d) == o[d].run # "failed" /\ \A x \in Defs : o[x].run # "unnamed"

Releases(o) == pos.st = "held" /\ Wanted(o) = {} /\ Settled(o, pos.def)

Changed(o) == Wanted(o) # {} /\ (pos.st # "held" \/ pos.def \notin Wanted(o))

CollectionsPass ==
    /\ ~coll
    /\ SpendMeta
    /\ \E o \in Outcomes :
          /\ pos' = IF Wanted(o) # {} THEN [st |-> "held", def |-> CHOOSE d \in Wanted(o) : TRUE]
                    ELSE IF Releases(o) THEN [pos EXCEPT !.st = "released"] ELSE pos
          /\ coll' = (Changed(o) \/ Releases(o))
          /\ IF Changed(o) \/ Releases(o)
             THEN /\ work' = [work EXCEPT !.clean = @ \ Everywhere("sort")]
                  /\ metaGhost' = [metaGhost EXCEPT !.dirty = @ \cup Everywhere("sort"),
                                            !.outage = @ \/ (Releases(o) /\ o[pos.def].lists)]
             ELSE UNCHANGED <<work, metaGhost>>
    /\ UNCHANGED <<shown, provider, stored, ov, rows, cfg, exempt, queued, redo, op>>

(* The jobs are queued after the commit, or the queue refuses them.         *)
CollEnqueues ==
    /\ coll
    /\ coll' = FALSE
    /\ queued' \in {TRUE, queued}
    /\ UNCHANGED <<shown, provider, stored, ov, pos, rows, cfg, exempt, work, redo, op, metaBudget, metaGhost>>

-----------------------------------------------------------------------------
(* PUT and DELETE of an override.                                           *)

PutOverride(f) ==
    /\ cfg.overrides
    /\ SpendMeta
    /\ ov' = [ov EXCEPT ![f] = Wish]
    /\ queued' = TRUE
    /\ Disturb(Everywhere(f))
    /\ UNCHANGED <<shown, provider, stored, pos, rows, cfg, exempt, coll, op>>

(* The field is unlocked in Plex first; an exempt item's is left.  A        *)
(* refusal changes nothing.                                                 *)
DeleteUnlocks(f) ==
    /\ cfg.overrides
    /\ ov[f] # 0
    /\ op.pc = "idle"
    /\ SpendMeta
    /\ shown' = IF exempt \/ shown["plex"][f].lock = "off" THEN shown ELSE [shown EXCEPT !["plex"][f].lock = "off"]
    /\ op' = [pc |-> "drop", field |-> f]
    /\ Disturb(Everywhere(f))
    /\ UNCHANGED <<provider, stored, ov, pos, rows, cfg, exempt, queued, coll>>

DeleteDrops ==
    /\ op.pc = "drop"
    /\ ov' = [ov EXCEPT ![op.field] = 0]
    /\ queued' = TRUE
    /\ op' = NoOp
    /\ Disturb(Everywhere(op.field))
    /\ UNCHANGED <<shown, provider, stored, pos, rows, cfg, exempt, coll, metaBudget>>

-----------------------------------------------------------------------------
(* The outside.                                                             *)

(* A server's own agent fills what is not locked.                           *)
AgentFills(s, f) ==
    /\ shown[s][f].lock # "on"
    /\ shown[s][f].val # Agent
    /\ SpendMeta
    /\ shown' = [shown EXCEPT ![s][f].val = Agent]
    /\ IF ov[f] # 0 /\ (s = "plex" \/ f \in Lockable) THEN Unsettle({<<s, f>>}) /\ UNCHANGED metaGhost ELSE Disturb({<<s, f>>})
    /\ UNCHANGED <<provider, stored, ov, pos, rows, cfg, exempt, queued, coll, op>>

PersonEdits(s, f) ==
    /\ SpendMeta
    /\ shown' = [shown EXCEPT ![s][f] = [val |-> Hand, lock |-> IF s = "plex" \/ f \in Lockable THEN "on" ELSE "none"]]
    /\ Disturb({<<s, f>>})
    /\ UNCHANGED <<provider, stored, ov, pos, rows, cfg, exempt, queued, coll, op>>

ProviderMoves(f) ==
    /\ SpendMeta
    /\ \E answer \in (Answers \cup {0}) \ {provider[f]} : provider' = [provider EXCEPT ![f] = answer]
    /\ Disturb(Everywhere(f))
    /\ UNCHANGED <<shown, stored, ov, pos, rows, cfg, exempt, queued, coll, op>>

ConfigMoves ==
    /\ SpendMeta
    /\ \E c \in Configs \ {cfg} : cfg' = c
    /\ Disturb(Pairs)
    /\ UNCHANGED <<shown, provider, stored, ov, pos, rows, exempt, queued, coll, op>>

LabelToggles ==
    /\ SpendMeta
    /\ exempt' = ~exempt
    /\ UNCHANGED <<shown, provider, stored, ov, pos, rows, cfg, queued, work, redo, coll, op, metaGhost>>

(* A full pass, a webhook or a press queues the item again.                 *)
Requeued ==
    /\ ~queued
    /\ SpendMeta
    /\ queued' = TRUE
    /\ UNCHANGED <<shown, provider, stored, ov, pos, rows, cfg, exempt, work, redo, coll, op, metaGhost>>

(* What a dead worker ran is reclaimed at the next boot.                    *)
MetadataCrash ==
    /\ work.pc # "idle" \/ redo.pc # "idle" \/ coll \/ op.pc # "idle"
    /\ SpendMeta
    /\ queued' = (queued \/ work.pc # "idle")
    /\ work' = NoWork
    /\ redo' = NoRetry
    /\ coll' = FALSE
    /\ op' = NoOp
    /\ metaGhost' = [metaGhost EXCEPT !.dirty = IF work.pc # "idle" \/ redo.pc # "idle" THEN Pairs ELSE @]
    /\ UNCHANGED <<shown, provider, stored, ov, pos, rows, cfg, exempt>>

-----------------------------------------------------------------------------
MetadataNext ==
    \/ PassGathers \/ PassLoads \/ PassReads \/ PassSends \/ PassCommits
    \/ RetryReads \/ RetrySends
    \/ CollectionsPass \/ CollEnqueues
    \/ DeleteDrops \/ ConfigMoves \/ LabelToggles \/ Requeued \/ MetadataCrash
    \/ \E s \in Retried : RetryPicks(s)
    \/ \E f \in MetaFields : PutOverride(f) \/ DeleteUnlocks(f)
    \/ \E p \in Touched : AgentFills(p[1], p[2]) \/ PersonEdits(p[1], p[2])
    \/ \E f \in Sourced : ProviderMoves(f)

MetadataSpec == MetadataInit /\ [][MetadataNext]_metadataVars

-----------------------------------------------------------------------------
Values == {0, Agent, Wish, Hand} \cup Answers \cup {Place[d] : d \in Defs}

MetadataTypeOK ==
    /\ \A s \in Servers, f \in MetaFields : shown[s][f].val \in Values /\ shown[s][f].lock \in {"none", "off", "on"}
    /\ \A f \in MetaFields \ Lockable : shown["jellyfin"][f].lock = "none"
    /\ stored \in [MetaFields -> Answers \cup {0}]
    /\ ov \in [MetaFields -> {0, Wish}]
    /\ pos \in [st : {"none", "held", "released"}, def : Defs]
    /\ rows \in [Servers -> [status : {"none", "pending", "written", "skipped", "failed"}, attempts : 0..MaxAttempts]]
    /\ work.todo \subseteq work.on

(* What a server must show of a field once a pass nothing disturbed has     *)
(* recorded its write: an override, locked wherever there is a lock, so     *)
(* that no refresh of the agent takes it back; else what the field's verb   *)
(* asks for; else the sort title the collections pass handed out; else the  *)
(* provider's value.                                                        *)
Holds(s, f) ==
    LET x == shown[s][f] IN
    IF ov[f] # 0 THEN x.val = ov[f] /\ (s = "plex" \/ f \in Lockable => x.lock = "on")
    ELSE IF cfg.verb[f] = "lock" THEN s = "plex" \/ f \in Lockable => x.lock = "on"
    ELSE IF cfg.verb[f] = "unlock" THEN x.lock # "on"
    ELSE IF cfg.verb[f] = "remove" THEN f \in Removable => x.val = 0
    ELSE IF f = "sort" THEN (pos.st = "held" /\ cfg.sortApply) => x.val = Place[pos.def]
    ELSE f \in Sourced /\ provider[f] # 0 => x.val = provider[f]

(* The "written" row is what every later decision trusts.                   *)
WrittenMeansShown == \A p \in Pairs \ metaGhost.dirty : Holds(p[1], p[2])

(* Each server's write stands or falls alone: whichever fails, the pass has *)
(* an answer for every server the item resolved on.                         *)
ServersStandAlone == metaGhost.alone

(* An outage never strips a sort title: the position is released only when  *)
(* its definition's source dropped the item.                                   *)
OutageStripsNothing == ~metaGhost.outage

(* item_facts keeps the last reading of every provider: a failed fetch does *)
(* not blank it.                                                            *)
FactsRemember == stored = metaGhost.last

(* Plex's value of a field is blanked by nothing but a `remove' verb or a   *)
(* released sort title.                                                     *)
NothingIsBlanked ==
    [][\A f \in MetaFields :
          (shown["plex"][f].val # 0 /\ shown'["plex"][f].val = 0)
              => f = "sort" \/ work.cfg.verb[f] = "remove" \/ redo.cfg.verb[f] = "remove"]_metadataVars

AtRest == work.pc = "idle" /\ redo.pc = "idle" /\ op.pc = "idle" /\ ~coll /\ ~queued

(* DELETE unlocks the field and then drops the row: "a deleted row and a    *)
(* still-locked field" is what it must not leave.                           *)
ClearedMeansUnlocked ==
    \A f \in MetaFields \ (Sourced \cup {"sort"}) :
        (AtRest /\ ov[f] = 0 /\ cfg.verb[f] = "none") => shown["plex"][f] # Put(Wish)

(* A released position is acted on once: with its row gone and the item     *)
(* written, Plex no longer shows the title it gave.                         *)
ReleasedIsCleared ==
    (AtRest /\ pos.st = "none" /\ rows["plex"].status = "written" /\ ov["sort"] = 0)
        => shown["plex"]["sort"].val \notin {Place[d] : d \in Defs}

\* A written row means the server shows it, one server's failure is its own, an outage
\* strips nothing, and the facts remember what a source once said.
MetadataSafety ==
    /\ MetadataTypeOK
    /\ WrittenMeansShown
    /\ ServersStandAlone
    /\ OutageStripsNothing
    /\ FactsRemember
=============================================================================
