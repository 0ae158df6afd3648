------------------------------ MODULE ServerArt ------------------------------
(***************************************************************************)
(* Everything of this service that writes artwork to Plex: the badge stage *)
(* of a pipeline pass (render/pipeline.py compose_badged_bytes, deliver),  *)
(* the delivery retry (deliveries.py), and the bulk artwork modes          *)
(* (artwork_modes/, api/routes.py): backup, restore, revert, reset, logo   *)
(* and logo revert, over the calls of plex/artwork.py.                     *)
(*                                                                         *)
(* A picture is who drew it and the provenance stamped into it; 0 is no    *)
(* stamp.  Only badged pictures are stamped: the base a revert pushes and  *)
(* the provider's logo are not.  A badge fingerprint is the version of the *)
(* badge's inputs.  The modes walk their items in id order, probe first,   *)
(* check the plan against the cap, and only then act on the plan.          *)
(***************************************************************************)
EXTENDS Naturals, FiniteSets

CONSTANTS
    Items,              \* media_items ids, 1..n
    Slots,              \* [Items -> which artwork fields the item has]
    Cap,                \* artwork_modes.max_changes
    Versions,           \* badge input versions, positive
    Events,             \* bound: outside changes, crashes and mode runs
    OperatorDuringRuns  \* may a person change artwork while a mode runs

(* Ids are positive and the library is finite; every item has a poster; a   *)
(* version is what a stamp can carry, so never 0.                           *)
ASSUME ServerArtAssumption ==
    /\ Items \subseteq Nat \ {0} /\ IsFiniteSet(Items)
    /\ \A i \in Items : "poster" \in Slots[i] /\ Slots[i] \subseteq {"poster", "background"}
    /\ Versions \subseteq Nat \ {0} /\ 1 \in Versions
    /\ Cap \in Nat /\ Events \in Nat

VARIABLES
    facts,      \* version of the badge inputs, per item
    row,        \* badge_fingerprint and the Plex delivery row, per item
    art,        \* what Plex shows: [item -> [slot -> picture]]
    locked,     \* locked artwork fields, as <<item, slot>>
    agent,      \* fields Plex has agent artwork for
    logo,       \* the clearlogo Plex shows: [by, key]
    marker,     \* media_items.logo_upload_key; 0 is NULL
    tree,       \* the backup tree
    pass,       \* the worker's badge stage
    retry,      \* the scheduler's delivery retry
    copy,       \* fields the backup walk has left
    run,        \* the mode run in progress
    budget,     \* events left
    keys,       \* upload keys handed out
    ghost       \* history used by the properties only

artVars == <<facts, row, art, locked, agent, logo, marker, tree, pass, retry, copy, run, budget, keys, ghost>>

NoPicture == [by |-> "nobody", stamp |-> 0]
AgentArt == [by |-> "agent", stamp |-> 0]
OperatorArt == [by |-> "operator", stamp |-> 0]
Base == [by |-> "service", stamp |-> 0]
Badged(v) == [by |-> "service", stamp |-> v]
NoLogo == [by |-> "nobody", key |-> 0]

Pictures == {NoPicture, AgentArt, OperatorArt, Base} \cup {Badged(v) : v \in Versions}
Fields == UNION {{<<i, s>> : s \in Slots[i]} : i \in Items}
Modes == {"restore", "revert", "reset", "logo", "logo_revert"}

Idle == [pc |-> "idle", item |-> 0, data |-> 0, ok |-> FALSE]
NoRun == [mode |-> "none", apply |-> FALSE, pc |-> "idle", at |-> 0, plan |-> {},
          key |-> 0, unsaved |-> {}]

NoneYet == [changed |-> {}, trampled |-> {}, removed |-> {}, settled |-> {}, undone |-> {},
            torn |-> {}, foreign |-> {}, excuses |-> 0]

ArtInit ==
    /\ facts \in [Items -> {1}]
    /\ row = [i \in Items |-> [badge |-> 0, status |-> "none", print |-> 0]]
    /\ art \in [Items -> {[s \in {"poster", "background"} |-> AgentArt]}]
    /\ locked = {}
    /\ agent \in {Fields, Fields \ {<<1, "poster">>}}
    /\ logo = [i \in Items |-> NoLogo]
    /\ marker = [i \in Items |-> 0]
    /\ tree = [f \in Fields |-> NoPicture]
    /\ pass = Idle
    /\ retry = Idle
    /\ copy = {}
    /\ run = NoRun
    /\ budget = Events
    /\ keys = 0
    /\ ghost = NoneYet

Paused == run.apply /\ run.pc # "idle"

Spend == budget > 0 /\ budget' = budget - 1

-----------------------------------------------------------------------------
(* One artwork upload: the picture, then the lock.  Either request may     *)
(* raise, and the caller sees only that it did.                             *)

Shown(i, s, p) == art' = [art EXCEPT ![i][s] = p]

UploadArtwork(i, s, p, ok) ==
    \/ ok /\ Shown(i, s, p) /\ locked' = locked \cup {<<i, s>>}
    \/ ~ok /\ Shown(i, s, p) /\ UNCHANGED locked
    \/ ~ok /\ UNCHANGED <<art, locked>>

(* The service's own deliveries over what a mode left behind.               *)
Delivered(i, v) ==
    [ghost EXCEPT !.undone = IF i \in ghost.settled /\ art'[i]["poster"] # art[i]["poster"]
                             THEN @ \cup {i} ELSE @,
                  !.foreign = IF art' # art THEN @ \ {i} ELSE @]

-----------------------------------------------------------------------------
(* The badge stage of a pass (a worker; fenced).                            *)

(* Facts gathered by the metadata stage are committed before the badge      *)
(* stage reads them back.                                                   *)
AlreadyDelivered(i, v) ==
    row[i].status = "none" /\ art[i]["poster"].stamp = v

(* An unchanged fingerprint composes nothing and re-arms a delivery that    *)
(* never arrived; a server already showing these bytes is adopted.          *)
ComposeBadged(i) ==
    LET v == facts[i] IN
    \/ /\ v = row[i].badge
       /\ row' = [row EXCEPT ![i].status = IF @ \in {"none", "pending", "failed"} THEN "pending" ELSE @]
       /\ UNCHANGED pass
    \/ /\ v # row[i].badge
       /\ AlreadyDelivered(i, v)
       /\ row' = [row EXCEPT ![i] = [badge |-> v, status |-> "uploaded", print |-> v]]
       /\ UNCHANGED pass
    \/ /\ v # row[i].badge
       /\ ~AlreadyDelivered(i, v)
       /\ pass' = [Idle EXCEPT !.pc = "upload", !.item = i, !.data = v]
       /\ UNCHANGED row

PassStarts(i) ==
    /\ pass.pc = "idle"
    /\ ~Paused
    /\ ComposeBadged(i)
    /\ ghost' = [ghost EXCEPT !.torn = IF retry.item = i /\ pass'.pc # "idle" THEN @ \cup {i} ELSE @,
                              !.settled = IF row'[i] # row[i] THEN @ \ {i} ELSE @]
    /\ UNCHANGED <<facts, art, locked, agent, logo, marker, tree, retry, copy, run, budget, keys>>

DeliverUpload ==
    /\ pass.pc = "upload"
    /\ \E ok \in BOOLEAN :
          /\ UploadArtwork(pass.item, "poster", Badged(pass.data), ok)
          /\ pass' = [pass EXCEPT !.pc = "record", !.ok = ok]
    /\ ghost' = Delivered(pass.item, pass.data)
    /\ UNCHANGED <<facts, row, agent, logo, marker, tree, retry, copy, run, budget, keys>>

DeliverRecord ==
    /\ pass.pc = "record"
    /\ row' = [row EXCEPT ![pass.item] =
                  IF pass.ok THEN [badge |-> pass.data, status |-> "uploaded", print |-> pass.data]
                  ELSE [@ EXCEPT !.badge = pass.data, !.status = "failed"]]
    /\ pass' = Idle
    /\ ghost' = [ghost EXCEPT !.settled = @ \ {pass.item}]
    /\ UNCHANGED <<facts, art, locked, agent, logo, marker, tree, retry, copy, run, budget, keys>>

-----------------------------------------------------------------------------
(* The delivery retry: a scheduler job, which the fence does not stop.  It  *)
(* composes whatever the inputs are now and records what it composed.       *)

RetryStarts(i) ==
    /\ retry.pc = "idle"
    /\ row[i].status = "pending"
    /\ retry' = [Idle EXCEPT !.pc = "upload", !.item = i, !.data = facts[i]]
    /\ ghost' = [ghost EXCEPT !.torn = IF pass.item = i THEN @ \cup {i} ELSE @]
    /\ UNCHANGED <<facts, row, art, locked, agent, logo, marker, tree, pass, copy, run, budget, keys>>

RetryUpload ==
    /\ retry.pc = "upload"
    /\ \E ok \in BOOLEAN :
          /\ UploadArtwork(retry.item, "poster", Badged(retry.data), ok)
          /\ retry' = [retry EXCEPT !.pc = "record", !.ok = ok]
    /\ ghost' = Delivered(retry.item, retry.data)
    /\ UNCHANGED <<facts, row, agent, logo, marker, tree, pass, copy, run, budget, keys>>

(* The forced compose leaves the render's own fingerprint alone.            *)
ComposedPrint(i) == retry.data

RetryRecord ==
    /\ retry.pc = "record"
    /\ row' = [row EXCEPT ![retry.item].status = IF retry.ok THEN "uploaded" ELSE "failed",
                          ![retry.item].print = IF retry.ok THEN ComposedPrint(retry.item) ELSE @]
    /\ retry' = Idle
    /\ ghost' = [ghost EXCEPT !.settled = @ \ {retry.item}]
    /\ UNCHANGED <<facts, art, locked, agent, logo, marker, tree, pass, copy, run, budget, keys>>

-----------------------------------------------------------------------------
(* Backup: reads Plex and writes files, takes no lock and no fence.         *)

BackupStarts ==
    /\ copy = {}
    /\ Spend
    /\ copy' = Fields
    /\ UNCHANGED <<facts, row, art, locked, agent, logo, marker, tree, pass, retry, run, keys, ghost>>

(* One field: read what Plex serves and replace the file with it.  A field  *)
(* with no art, or one that cannot be read or written, is passed over.      *)
BackupCopies ==
    /\ copy # {}
    /\ \E f \in copy :
          /\ \A g \in copy : f[1] <= g[1]
          /\ copy' = copy \ {f}
          /\ \/ UNCHANGED tree
             \/ art[f[1]][f[2]] # NoPicture /\ tree' = [tree EXCEPT ![f] = art[f[1]][f[2]]]
    /\ UNCHANGED <<facts, row, art, locked, agent, logo, marker, pass, retry, run, budget, keys, ghost>>

-----------------------------------------------------------------------------
(* Running one mode: lock, fence, drain, probe, cap, apply.                 *)

ModeStarts(m, apply) ==
    /\ run.pc = "idle"
    /\ Spend
    /\ run' = [NoRun EXCEPT !.mode = m, !.apply = apply, !.pc = "drain", !.at = 1]
    /\ ghost' = [ghost EXCEPT !.changed = {}]
    /\ UNCHANGED <<facts, row, art, locked, agent, logo, marker, tree, pass, retry, copy, keys>>

Drains ==
    /\ run.pc = "drain"
    /\ run.apply => pass.pc = "idle"
    /\ run' = [run EXCEPT !.pc = "probe"]
    /\ UNCHANGED <<facts, row, art, locked, agent, logo, marker, tree, pass, retry, copy, budget, keys, ghost>>

(* What each mode would act on, item by item.                               *)
RestorePlan(i) == {s \in Slots[i] : tree[<<i, s>>] # NoPicture}
RevertPlan(i) == Slots[i]
ResetPlan(i) == {s \in Slots[i] : art[i][s].stamp # 0}
LogoPlan(i) == IF logo[i] = NoLogo THEN {"logo"} ELSE {}
LogoRevertPlan(i) == IF marker[i] # 0 /\ logo[i].key = marker[i] THEN {"logo"} ELSE {}

Plan(m, i) ==
    CASE m = "restore" -> RestorePlan(i)
      [] m = "revert" -> RevertPlan(i)
      [] m = "reset" -> ResetPlan(i)
      [] m = "logo" -> LogoPlan(i)
      [] m = "logo_revert" -> LogoRevertPlan(i)

Probed(i) == {<<i, s>> : s \in Plan(run.mode, i)}

(* An item Plex cannot be asked about, or no longer has, is counted and     *)
(* left out.                                                                *)
Probes ==
    /\ run.pc = "probe"
    /\ run.at \in Items
    /\ \/ run' = [run EXCEPT !.at = @ + 1]
       \/ run' = [run EXCEPT !.at = @ + 1, !.plan = @ \cup Probed(run.at)]
    /\ UNCHANGED <<facts, row, art, locked, agent, logo, marker, tree, pass, retry, copy, budget, keys, ghost>>

Planned(plan) == {f[1] : f \in plan}

RefuseIfImplausible(plan) == Cardinality(Planned(plan)) > Cap

ProbeEnds ==
    /\ run.pc = "probe"
    /\ run.at \notin Items
    /\ run' = IF RefuseIfImplausible(run.plan) \/ ~run.apply THEN NoRun
              ELSE [run EXCEPT !.pc = "apply", !.at = 1]
    /\ UNCHANGED <<facts, row, art, locked, agent, logo, marker, tree, pass, retry, copy, budget, keys, ghost>>

(* The next item of the plan, items in id order, and its fields.            *)
NextFields == {f \in run.plan : \A g \in run.plan : f[1] <= g[1]}

Applying(m) == run.pc = "apply" /\ run.mode = m /\ run.plan # {}

Done(f) == run' = [run EXCEPT !.plan = @ \ {f}]

(* A mode's own write, and whether Plex now shows something the next pass   *)
(* has no reason to replace.                                                *)
Wrote(f) ==
    [ghost EXCEPT
       !.changed = IF art' # art \/ logo' # logo THEN @ \cup {f[1]} ELSE @,
       !.foreign = IF art' # art THEN @ \cup {f[1]} ELSE @,
       !.settled = IF art' # art /\ f[2] = "poster" /\ row[f[1]].status = "uploaded"
                      /\ row[f[1]].badge = facts[f[1]] /\ retry.item # f[1]
                   THEN @ \cup {f[1]} ELSE @]

Push(m, p(_)) ==
    /\ Applying(m)
    /\ \E f \in NextFields :
          /\ Done(f)
          /\ \E ok \in BOOLEAN : UploadArtwork(f[1], f[2], p(f), ok)
          /\ logo' = logo
          /\ ghost' = Wrote(f)
    /\ UNCHANGED <<facts, row, agent, marker, tree, pass, retry, copy, budget, keys>>

Restores == Push("restore", LAMBDA f : tree[f])
Reverts == Push("revert", LAMBDA f : Base)

(* Unlock, then select the agent's picture when Plex has one; either        *)
(* request may raise, and the second leaves the field unlocked.             *)
ResetToAgentDefault(f) ==
    \/ UNCHANGED <<art, locked>>
    \/ locked' = locked \ {f} /\ UNCHANGED art
    \/ f \in agent /\ locked' = locked \ {f} /\ Shown(f[1], f[2], AgentArt)

Resets ==
    /\ Applying("reset")
    /\ \E f \in NextFields :
          /\ Done(f)
          /\ logo' = logo
          /\ ResetToAgentDefault(f)
          /\ ghost' = [Wrote(f) EXCEPT !.trampled =
                          IF art' # art /\ art[f[1]][f[2]].by = "operator" THEN @ \cup {f} ELSE @]
    /\ UNCHANGED <<facts, row, agent, marker, tree, pass, retry, copy, budget, keys>>

(* The logo run: no usable candidate, a failed upload, or an upload whose   *)
(* key is read back and committed before the next item.                     *)
LogoUploads ==
    /\ Applying("logo")
    /\ run.key = 0
    /\ \E f \in NextFields :
          \/ Done(f) /\ UNCHANGED <<logo, keys, art>> /\ ghost' = ghost
          \/ /\ keys' = keys + 1
             /\ logo' = [logo EXCEPT ![f[1]] = [by |-> "service", key |-> keys + 1]]
             /\ art' = art
             /\ run' = [run EXCEPT !.key = keys + 1]
             /\ ghost' = [Wrote(f) EXCEPT !.trampled =
                             IF logo[f[1]].by = "operator" THEN @ \cup {f} ELSE @]
    /\ UNCHANGED <<facts, row, locked, agent, marker, tree, pass, retry, copy, budget>>

Recorded(i, key) == marker' = [marker EXCEPT ![i] = key]

MarkAtTheEnd(f) ==
    /\ UNCHANGED marker
    /\ run' = [run EXCEPT !.plan = @ \ {f}, !.key = 0]

RecordMarker(f) ==
    /\ Recorded(f[1], logo[f[1]].key)
    /\ run' = [run EXCEPT !.plan = @ \ {f}, !.key = 0]

(* The key is the one Plex shows when it is asked; the write may fail.      *)
LogoMarks ==
    /\ Applying("logo")
    /\ run.key # 0
    /\ \E f \in NextFields :
          \/ RecordMarker(f) /\ ghost' = ghost
          \/ /\ UNCHANGED marker
             /\ run' = [run EXCEPT !.plan = @ \ {f}, !.key = 0]
             /\ ghost' = [ghost EXCEPT !.excuses = @ + 1]
    /\ UNCHANGED <<facts, row, art, locked, agent, logo, tree, pass, retry, copy, budget, keys>>

(* The revert clears what the probe found; its marker updates ride one      *)
(* transaction to the end of the run.                                       *)
LogoClears ==
    /\ Applying("logo_revert")
    /\ \E f \in NextFields :
          \/ Done(f) /\ UNCHANGED <<logo, art>> /\ ghost' = ghost
          \/ /\ logo' = [logo EXCEPT ![f[1]] = NoLogo]
             /\ art' = art
             /\ run' = [run EXCEPT !.plan = @ \ {f}, !.unsaved = @ \cup {f[1]}]
             /\ ghost' = [Wrote(f) EXCEPT !.removed =
                             IF logo[f[1]].by = "operator" THEN @ \cup {f} ELSE @]
    /\ UNCHANGED <<facts, row, locked, agent, marker, tree, pass, retry, copy, budget, keys>>

ModeEnds ==
    /\ run.pc = "apply"
    /\ run.plan = {}
    /\ marker' = [i \in Items |-> IF i \in run.unsaved THEN 0 ELSE marker[i]]
    /\ run' = NoRun
    /\ UNCHANGED <<facts, row, art, locked, agent, logo, tree, pass, retry, copy, budget, keys, ghost>>

-----------------------------------------------------------------------------
(* The outside.                                                             *)

PersonMay == OperatorDuringRuns \/ run.pc = "idle"

OperatorSetsArt(f) ==
    /\ PersonMay
    /\ Spend
    /\ Shown(f[1], f[2], OperatorArt)
    /\ locked' = locked \cup {f}
    /\ ghost' = [ghost EXCEPT !.foreign = @ \cup {f[1]}, !.settled = @ \ {f[1]}]
    /\ UNCHANGED <<facts, row, agent, logo, marker, tree, pass, retry, copy, run, keys>>

OperatorSetsLogo(i) ==
    /\ PersonMay
    /\ Spend
    /\ keys' = keys + 1
    /\ logo' = [logo EXCEPT ![i] = [by |-> "operator", key |-> keys + 1]]
    /\ UNCHANGED <<facts, row, art, locked, agent, marker, tree, pass, retry, copy, run, ghost>>

(* Plex's agent reclaims a field nobody locked.                             *)
AgentRefresh(f) ==
    /\ f \in agent \ locked
    /\ art[f[1]][f[2]] # AgentArt
    /\ Spend
    /\ Shown(f[1], f[2], AgentArt)
    /\ ghost' = [ghost EXCEPT !.foreign = @ \cup {f[1]}, !.settled = @ \ {f[1]}]
    /\ UNCHANGED <<facts, row, locked, agent, logo, marker, tree, pass, retry, copy, run, keys>>

FactsMove(i) ==
    /\ Spend
    /\ \E v \in Versions \ {facts[i]} : facts' = [facts EXCEPT ![i] = v]
    /\ ghost' = [ghost EXCEPT !.settled = @ \ {i}]
    /\ UNCHANGED <<row, art, locked, agent, logo, marker, tree, pass, retry, copy, run, keys>>

(* The process dies: every transaction in flight is lost, and the fence.    *)
Crash ==
    /\ Spend
    /\ pass' = Idle
    /\ retry' = Idle
    /\ copy' = {}
    /\ run' = NoRun
    /\ ghost' = [ghost EXCEPT
                    !.torn = @ \cup {t.item : t \in {x \in {pass, retry} : x.pc = "record"}},
                    !.excuses = IF run.key # 0 THEN @ + 1 ELSE @]
    /\ UNCHANGED <<facts, row, art, locked, agent, logo, marker, tree, keys>>

-----------------------------------------------------------------------------
ArtNext ==
    \/ \E i \in Items : PassStarts(i) \/ RetryStarts(i) \/ OperatorSetsLogo(i) \/ FactsMove(i)
    \/ DeliverUpload \/ DeliverRecord \/ RetryUpload \/ RetryRecord
    \/ BackupStarts \/ BackupCopies
    \/ \E m \in Modes, apply \in BOOLEAN : ModeStarts(m, apply)
    \/ Drains \/ Probes \/ ProbeEnds
    \/ Restores \/ Reverts \/ Resets
    \/ LogoUploads \/ LogoMarks \/ LogoClears \/ ModeEnds
    \/ \E f \in Fields : OperatorSetsArt(f) \/ AgentRefresh(f)
    \/ Crash

ArtSpec == ArtInit /\ [][ArtNext]_artVars

-----------------------------------------------------------------------------
Slot == {"poster", "background"}
DeliveryRow == [badge : Versions \cup {0}, print : Versions \cup {0},
                status : {"none", "pending", "failed", "uploaded"}]
Deliveries == [pc : {"idle", "upload", "record"}, item : Items \cup {0}, data : Versions \cup {0}, ok : BOOLEAN]
Busy(d) == d.pc # "idle" => d.item \in Items /\ d.data \in Versions

ModeRuns == [mode : Modes \cup {"none"}, apply : BOOLEAN, pc : {"idle", "drain", "probe", "apply"},
             at : Nat, plan : SUBSET (Items \X (Slot \cup {"logo"})), key : Nat, unsaved : SUBSET Items]

RunTypeOK ==
    /\ run \in ModeRuns
    /\ run.key <= keys
    /\ run.pc # "idle" => run.mode \in Modes
    /\ IF run.mode \in {"restore", "revert", "reset"} THEN run.plan \subseteq Fields
       ELSE run.plan \subseteq Items \X {"logo"}

History == [changed : SUBSET Items, trampled : SUBSET (Items \X (Slot \cup {"logo"})),
            removed : SUBSET (Items \X (Slot \cup {"logo"})), settled : SUBSET Items,
            undone : SUBSET Items, torn : SUBSET Items, foreign : SUBSET Items, excuses : Nat]

ArtTypeOK ==
    /\ facts \in [Items -> Versions]
    /\ row \in [Items -> DeliveryRow]
    /\ art \in [Items -> [Slot -> Pictures]]
    /\ locked \subseteq Fields /\ agent \subseteq Fields /\ copy \subseteq Fields
    /\ logo \in [Items -> [by : {"nobody", "service", "operator"}, key : 0..keys]]
    /\ marker \in [Items -> 0..keys]
    /\ tree \in [Fields -> Pictures]
    /\ pass \in Deliveries /\ Busy(pass)
    /\ retry \in Deliveries /\ Busy(retry)
    /\ budget \in Nat /\ keys \in Nat
    /\ RunTypeOK
    /\ ghost \in History

(* A mode changes no more items than the cap it was checked against, and a  *)
(* dry run changes none, whatever moved between the probe and the writes    *)
(* (artwork_modes/base.py refuse_if_implausible).                           *)
PlanBoundsTheRun ==
    run.pc # "idle" => Cardinality(ghost.changed) <= (IF run.apply THEN Cap ELSE 0)

(* Reset, logo and logo revert never take away what a person chose in Plex  *)
(* (reset.py: only art this service uploaded; logo.py: never one removed by *)
(* surprise).                                                               *)
OperatorChoicesStand == ghost.trampled \cup ghost.removed = {}

(* Both failing directions of the logo revert cost a logo left in place,    *)
(* never one removed by surprise (logo.py).                                 *)
NeverRemovedBySurprise == ghost.removed = {}

(* What a restore, revert or reset put on Plex stays there: with the badge  *)
(* inputs unchanged and nothing owed, neither the next pass nor the retry   *)
(* replaces it.                                                             *)
ModeArtSticks == ghost.undone = {}

(* An interrupted logo run is partial but truthful: each crash or failed    *)
(* marker write leaves at most one logo of ours that the revert cannot      *)
(* claim (logo.py _record_marker commits per item).                         *)
Unclaimed == {i \in Items : logo[i].by = "service" /\ marker[i] # logo[i].key}

OneLogoPerInterruption ==
    Cardinality(Unclaimed) <= ghost.excuses + (IF run.key # 0 THEN 1 ELSE 0)

InFlight(i) == pass.item = i \/ retry.item = i

(* A delivery row that says uploaded names the stamp Plex shows, unless a   *)
(* person, Plex's agent or a mode has changed the picture since, two        *)
(* deliveries overlapped, or one died between its upload and its commit.    *)
RowsTellTheTruth ==
    \A i \in Items \ (ghost.torn \cup ghost.foreign) :
        (row[i].status = "uploaded" /\ ~InFlight(i)) => art[i]["poster"].stamp = row[i].print

(* A server never reads as up to date while it shows other artwork: what    *)
(* the comment above the retry's compose calls the failure mode the         *)
(* catch-up exists to find (deliveries.py).                                 *)
UpToDateMeansServed ==
    \A i \in Items \ ghost.foreign :
        (row[i].status = "uploaded" /\ row[i].print = row[i].badge /\ row[i].badge = facts[i] /\ ~InFlight(i))
            => art[i]["poster"].stamp = row[i].badge

\* Mode runs stay inside their plan, leave a person's choices and their own art alone,
\* and rows and markers tell the truth about the server.
ServerArtSafety ==
    /\ ArtTypeOK
    /\ PlanBoundsTheRun
    /\ OperatorChoicesStand
    /\ ModeArtSticks
    /\ OneLogoPerInterruption
    /\ RowsTellTheTruth
=============================================================================
