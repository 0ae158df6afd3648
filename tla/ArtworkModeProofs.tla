------------------------ MODULE ArtworkModeProofs ------------------------
(***************************************************************************)
(* What is written to the servers: the artwork modes, from both sides,     *)
(* what they write (ServerArt) and how they are kept apart from the        *)
(* workers (WorkerPause), and one item's metadata (Metadata).  The three   *)
(* machines share no variable; each is proved about by itself.             *)
(*                                                                         *)
(* ServerArtSafety, for any finite library, cap and set of badge versions. *)
(* PlanBoundsTheRun needs what a run has changed and what it still plans   *)
(* counted together (CapHolds); ModeArtSticks, that a settled item is in   *)
(* no delivery's hands (SettledHolds, over FenceHolds and IdleHolds);      *)
(* OneLogoPerInterruption, that the one logo in hand is the next of the    *)
(* plan (MarkersHold); RowsTellTheTruth, the truth of a row between upload *)
(* and record (TruthHolds); OperatorChoicesStand, that nothing on a plan   *)
(* and no marker is a person's (ChoicesHold), which holds only while       *)
(* nobody chooses artwork during a run.                                    *)
(*                                                                         *)
(* PauseSafety, for any finite pool and any number of requests.            *)
(* FencedWrites is not inductive: it needs the count to be the number of   *)
(* workers inside a handler (Counted), the fence to be up exactly while a  *)
(* mode is behind the lock (Fenced), and a drain that has ended to stay    *)
(* ended (Quiet).                                                          *)
(*                                                                         *)
(* MetadataSafety, for any fields, values and definitions.                 *)
(* WrittenMeansShown needs what a pass under way and a retry under way     *)
(* know of each field nothing has disturbed (PassKnows, RetryKnows): the   *)
(* wishes they loaded still stand, and the server shows what they read, or *)
(* what is wished.  PassEditGrants is the planner's lemma: an edit planned *)
(* over such a field leaves it as wished.                                  *)
(***************************************************************************)
EXTENDS ServerArt, WorkerPause, Metadata, FiniteSetTheorems, TLAPS

Field == Items \X (Slot \cup {"logo"})

LEMMA FieldsOfItems ==
  \A f : f \in Fields <=> f \in Items \X Slot /\ f[2] \in Slots[f[1]]
<1>1. ASSUME NEW f \in Fields
      PROVE  f \in Items \X Slot /\ f[2] \in Slots[f[1]]
  <2>1. PICK i \in Items : f \in {<<i, s>> : s \in Slots[i]}
    BY <1>1 DEF Fields
  <2>2. PICK s \in Slots[i] : f = <<i, s>>
    BY <2>1
  <2> QED
    BY <2>2, ServerArtAssumption DEF Slot
<1>2. ASSUME NEW f \in Items \X Slot, f[2] \in Slots[f[1]]
      PROVE  f \in Fields
  <2>1. f = <<f[1], f[2]>> /\ f[1] \in Items
    OBVIOUS
  <2>2. f \in {<<f[1], s>> : s \in Slots[f[1]]}
    BY <2>1, <1>2
  <2> QED
    BY <2>1, <2>2 DEF Fields
<1> QED
  BY <1>1, <1>2

LEMMA PosterIsAField == \A i \in Items : <<i, "poster">> \in Fields
  BY FieldsOfItems, ServerArtAssumption DEF Slot

LEMMA ZeroIsNoItem == 0 \notin Items /\ 0 \notin Versions
  BY ServerArtAssumption

LEMMA PicturesDrawn ==
  /\ NoPicture \in Pictures /\ AgentArt \in Pictures /\ OperatorArt \in Pictures /\ Base \in Pictures
  /\ \A v \in Versions : Badged(v) \in Pictures
  /\ \A p \in Pictures : p.stamp # 0 => p.by = "service"
<1>1. /\ NoPicture \in Pictures /\ AgentArt \in Pictures /\ OperatorArt \in Pictures /\ Base \in Pictures
      /\ \A v \in Versions : Badged(v) \in Pictures
  BY DEF Pictures
<1>2. ASSUME NEW p \in Pictures, p.stamp # 0
      PROVE  p.by = "service"
  <2>1. CASE p \in {NoPicture, AgentArt, OperatorArt, Base}
    BY <1>2, <2>1 DEF NoPicture, AgentArt, OperatorArt, Base
  <2>2. CASE p \in {Badged(v) : v \in Versions}
    BY <1>2, <2>2 DEF Badged
  <2> QED
    BY <2>1, <2>2 DEF Pictures
<1> QED
  BY <1>1, <1>2

\* What an upload may leave behind, whether it raises or not.
LEMMA UploadEffect ==
  ASSUME art \in [Items -> [Slot -> Pictures]], locked \subseteq Fields,
         NEW i \in Items, NEW s \in Slots[i], NEW p \in Pictures, NEW ok \in BOOLEAN,
         UploadArtwork(i, s, p, ok)
  PROVE  /\ art' \in [Items -> [Slot -> Pictures]]
         /\ locked' \subseteq Fields
         /\ \A j \in Items \ {i} : art'[j] = art[j]
         /\ ok => art'[i][s] = p
<1>1. s \in Slot /\ <<i, s>> \in Fields
  BY FieldsOfItems, ServerArtAssumption DEF Slot
<1>2. \/ art' = [art EXCEPT ![i] = [@ EXCEPT ![s] = p]]
      \/ art' = art /\ ~ok
  BY DEF UploadArtwork, Shown
<1>3. [art[i] EXCEPT ![s] = p] \in [Slot -> Pictures]
  BY <1>1
<1>4. locked' \subseteq Fields
  BY <1>1 DEF UploadArtwork
<1> QED
  BY <1>1, <1>2, <1>3, <1>4

LEMMA ArtInitTypes == ArtInit => ArtTypeOK
<1> SUFFICES ASSUME ArtInit PROVE ArtTypeOK
  OBVIOUS
<1>1. art \in [Items -> [Slot -> Pictures]]
  BY PicturesDrawn DEF ArtInit, Slot
<1>2. Idle \in Deliveries /\ Busy(Idle)
  BY DEF Idle, Deliveries, Busy
<1>3. RunTypeOK
  BY DEF ArtInit, RunTypeOK, ModeRuns, NoRun
<1>4. ghost \in History
  BY DEF ArtInit, History, NoneYet
<1>5. tree \in [Fields -> Pictures]
  BY PicturesDrawn DEF ArtInit
<1>6. logo \in [Items -> [by : {"nobody", "service", "operator"}, key : 0..keys]] /\ marker \in [Items -> 0..keys]
  BY DEF ArtInit, NoLogo
<1>7. facts \in [Items -> Versions]
  BY ServerArtAssumption DEF ArtInit
<1>8. row \in [Items -> DeliveryRow]
  BY DEF ArtInit, DeliveryRow
<1>9. /\ locked \subseteq Fields /\ agent \subseteq Fields /\ copy \subseteq Fields
      /\ pass = Idle /\ retry = Idle /\ budget \in Nat /\ keys \in Nat
  BY ServerArtAssumption DEF ArtInit
<1> QED
  BY <1>1, <1>2, <1>3, <1>4, <1>5, <1>6, <1>7, <1>8, <1>9 DEF ArtTypeOK

\* Deliveries of the service's own.
LEMMA DeliveredTypes ==
  ASSUME ghost \in History, NEW i \in Items, NEW v, ghost' = Delivered(i, v)
  PROVE  /\ ghost' \in History
         /\ ghost'.changed = ghost.changed /\ ghost'.trampled = ghost.trampled
         /\ ghost'.removed = ghost.removed /\ ghost'.settled = ghost.settled
         /\ ghost'.torn = ghost.torn /\ ghost'.excuses = ghost.excuses
         /\ ghost'.undone = IF i \in ghost.settled /\ art'[i]["poster"] # art[i]["poster"]
                            THEN ghost.undone \cup {i} ELSE ghost.undone
         /\ ghost'.foreign = IF art' # art THEN ghost.foreign \ {i} ELSE ghost.foreign
  BY DEF History, Delivered

\* A mode's own write.
LEMMA WroteTypes ==
  ASSUME ghost \in History, NEW f \in Field
  PROVE  /\ Wrote(f) \in History
         /\ Wrote(f).trampled = ghost.trampled /\ Wrote(f).removed = ghost.removed
         /\ Wrote(f).undone = ghost.undone /\ Wrote(f).torn = ghost.torn
         /\ Wrote(f).excuses = ghost.excuses
         /\ Wrote(f).changed = IF art' # art \/ logo' # logo THEN ghost.changed \cup {f[1]} ELSE ghost.changed
         /\ Wrote(f).foreign = IF art' # art THEN ghost.foreign \cup {f[1]} ELSE ghost.foreign
         /\ Wrote(f).settled = IF art' # art /\ f[2] = "poster" /\ row[f[1]].status = "uploaded"
                                  /\ row[f[1]].badge = facts[f[1]] /\ retry.item # f[1]
                               THEN ghost.settled \cup {f[1]} ELSE ghost.settled
  BY DEF History, Wrote, Field

\* Noting what a write took away changes nothing else of the history.
LEMMA NotedTypes ==
  ASSUME NEW g \in History, NEW T \in SUBSET Field
  PROVE  /\ [g EXCEPT !.trampled = T] \in History /\ [g EXCEPT !.removed = T] \in History
         /\ [g EXCEPT !.trampled = T].trampled = T /\ [g EXCEPT !.trampled = T].removed = g.removed
         /\ [g EXCEPT !.removed = T].removed = T /\ [g EXCEPT !.removed = T].trampled = g.trampled
         /\ \A h \in {[g EXCEPT !.trampled = T], [g EXCEPT !.removed = T]} :
               /\ h.undone = g.undone /\ h.torn = g.torn /\ h.excuses = g.excuses
               /\ h.changed = g.changed /\ h.foreign = g.foreign /\ h.settled = g.settled
  BY DEF History, Field

-----------------------------------------------------------------------------
LEMMA PassStartsTypes ==
  ASSUME ArtTypeOK, NEW i \in Items, PassStarts(i)
  PROVE  ArtTypeOK'
<1>1. facts[i] \in Versions /\ facts[i] \in Versions \cup {0}
  BY DEF ArtTypeOK
<1>2. row' \in [Items -> DeliveryRow]
  <2>1. row[i] \in DeliveryRow
    BY DEF ArtTypeOK
  <2>2. CASE row' = [row EXCEPT ![i].status = IF @ \in {"none", "pending", "failed"} THEN "pending" ELSE @]
    <3>1. [row[i] EXCEPT !.status = IF @ \in {"none", "pending", "failed"} THEN "pending" ELSE @] \in DeliveryRow
      BY <2>1 DEF DeliveryRow
    <3> QED
      BY <2>2, <3>1 DEF ArtTypeOK
  <2>3. CASE row' = [row EXCEPT ![i] = [badge |-> facts[i], status |-> "uploaded", print |-> facts[i]]]
    <3>1. [badge |-> facts[i], status |-> "uploaded", print |-> facts[i]] \in DeliveryRow
      BY <1>1 DEF DeliveryRow
    <3> QED
      BY <2>3, <3>1 DEF ArtTypeOK
  <2> QED
    BY <2>2, <2>3 DEF ArtTypeOK, PassStarts, ComposeBadged
<1>3. pass' \in Deliveries /\ Busy(pass')
  BY <1>1 DEF ArtTypeOK, PassStarts, ComposeBadged, Idle, Deliveries, Busy
<1>4. ghost' \in History
  BY DEF ArtTypeOK, PassStarts, History
<1>5. RunTypeOK'
  BY DEF ArtTypeOK, PassStarts, RunTypeOK
<1> QED
  BY <1>2, <1>3, <1>4, <1>5 DEF ArtTypeOK, PassStarts

LEMMA DeliverTypes ==
  ASSUME ArtTypeOK, DeliverUpload \/ DeliverRecord
  PROVE  ArtTypeOK'
<1>1. pass.pc # "idle" /\ pass.item \in Items /\ pass.data \in Versions
  BY DEF ArtTypeOK, Busy, DeliverUpload, DeliverRecord
<1>2. CASE DeliverUpload
  <2>1. PICK ok \in BOOLEAN : /\ UploadArtwork(pass.item, "poster", Badged(pass.data), ok)
                              /\ pass' = [pass EXCEPT !.pc = "record", !.ok = ok]
    BY <1>2 DEF DeliverUpload
  <2>a. Badged(pass.data) \in Pictures /\ "poster" \in Slots[pass.item]
    BY <1>1, PicturesDrawn, ServerArtAssumption
  <2>b. art \in [Items -> [Slot -> Pictures]] /\ locked \subseteq Fields
    BY DEF ArtTypeOK
  <2>2. art' \in [Items -> [Slot -> Pictures]] /\ locked' \subseteq Fields
    BY <1>1, <2>1, <2>a, <2>b, UploadEffect
  <2>3. pass' \in Deliveries /\ Busy(pass')
    BY <1>1, <2>1 DEF ArtTypeOK, Deliveries, Busy
  <2>4. ghost' \in History
    BY <1>1, <1>2, DeliveredTypes DEF ArtTypeOK, DeliverUpload
  <2>5. RunTypeOK'
    BY <1>2 DEF ArtTypeOK, DeliverUpload, RunTypeOK
  <2> QED
    BY <1>2, <2>2, <2>3, <2>4, <2>5 DEF ArtTypeOK, DeliverUpload
<1>3. CASE DeliverRecord
  <2>1. row' \in [Items -> DeliveryRow]
    <3>1. row[pass.item] \in DeliveryRow
      BY <1>1 DEF ArtTypeOK
    <3>2. [badge |-> pass.data, status |-> "uploaded", print |-> pass.data] \in DeliveryRow
      BY <1>1 DEF DeliveryRow
    <3>3. [row[pass.item] EXCEPT !.badge = pass.data, !.status = "failed"] \in DeliveryRow
      BY <1>1, <3>1 DEF DeliveryRow
    <3> QED
      BY <1>1, <1>3, <3>2, <3>3 DEF ArtTypeOK, DeliverRecord
  <2>2. pass' \in Deliveries /\ Busy(pass')
    BY <1>3 DEF DeliverRecord, Deliveries, Busy, Idle
  <2>3. ghost' \in History
    BY <1>3 DEF ArtTypeOK, DeliverRecord, History
  <2>4. RunTypeOK'
    BY <1>3 DEF ArtTypeOK, DeliverRecord, RunTypeOK
  <2> QED
    BY <1>3, <2>1, <2>2, <2>3, <2>4 DEF ArtTypeOK, DeliverRecord
<1> QED
  BY <1>2, <1>3

LEMMA RetryTypes ==
  ASSUME ArtTypeOK, RetryUpload \/ RetryRecord \/ \E i \in Items : RetryStarts(i)
  PROVE  ArtTypeOK'
<1>1. CASE RetryUpload
  <2>0. retry.item \in Items /\ retry.data \in Versions
    BY <1>1 DEF ArtTypeOK, Busy, RetryUpload
  <2>1. PICK ok \in BOOLEAN : /\ UploadArtwork(retry.item, "poster", Badged(retry.data), ok)
                              /\ retry' = [retry EXCEPT !.pc = "record", !.ok = ok]
    BY <1>1 DEF RetryUpload
  <2>a. Badged(retry.data) \in Pictures /\ "poster" \in Slots[retry.item]
    BY <2>0, PicturesDrawn, ServerArtAssumption
  <2>b. art \in [Items -> [Slot -> Pictures]] /\ locked \subseteq Fields
    BY DEF ArtTypeOK
  <2>2. art' \in [Items -> [Slot -> Pictures]] /\ locked' \subseteq Fields
    BY <2>0, <2>1, <2>a, <2>b, UploadEffect
  <2>3. retry' \in Deliveries /\ Busy(retry')
    BY <2>0, <2>1 DEF ArtTypeOK, Deliveries, Busy
  <2>4. ghost' \in History
    BY <1>1, <2>0, DeliveredTypes DEF ArtTypeOK, RetryUpload
  <2>5. RunTypeOK'
    BY <1>1 DEF ArtTypeOK, RetryUpload, RunTypeOK
  <2> QED
    BY <1>1, <2>2, <2>3, <2>4, <2>5 DEF ArtTypeOK, RetryUpload
<1>2. CASE RetryRecord
  <2>0. retry.item \in Items /\ retry.data \in Versions
    BY <1>2 DEF ArtTypeOK, Busy, RetryRecord
  <2>1. row' \in [Items -> DeliveryRow]
    <3>1. row[retry.item] \in DeliveryRow /\ retry.data \in Versions \cup {0}
      BY <2>0 DEF ArtTypeOK
    <3>2. PICK r \in DeliveryRow : row' = [row EXCEPT ![retry.item] = r]
      <4>1. row' = [row EXCEPT ![retry.item] =
                       [row[retry.item] EXCEPT !.status = IF retry.ok THEN "uploaded" ELSE "failed",
                                               !.print = IF retry.ok THEN retry.data ELSE @]]
        BY <1>2, <2>0 DEF ArtTypeOK, RetryRecord, ComposedPrint
      <4>2. [row[retry.item] EXCEPT !.status = IF retry.ok THEN "uploaded" ELSE "failed",
                                    !.print = IF retry.ok THEN retry.data ELSE @] \in DeliveryRow
        BY <3>1 DEF DeliveryRow
      <4> QED
        BY <4>1, <4>2
    <3> QED
      BY <2>0, <3>2 DEF ArtTypeOK
  <2>2. retry' \in Deliveries /\ Busy(retry')
    BY <1>2 DEF RetryRecord, Deliveries, Busy, Idle
  <2>3. ghost' \in History
    BY <1>2 DEF ArtTypeOK, RetryRecord, History
  <2>4. RunTypeOK'
    BY <1>2 DEF ArtTypeOK, RetryRecord, RunTypeOK
  <2> QED
    BY <1>2, <2>1, <2>2, <2>3, <2>4 DEF ArtTypeOK, RetryRecord
<1>3. CASE \E i \in Items : RetryStarts(i)
  <2>1. PICK i \in Items : RetryStarts(i)
    BY <1>3
  <2>2. retry' \in Deliveries /\ Busy(retry')
    BY <2>1 DEF ArtTypeOK, RetryStarts, Deliveries, Busy, Idle
  <2>3. ghost' \in History
    BY <2>1 DEF ArtTypeOK, RetryStarts, History
  <2>4. RunTypeOK'
    BY <2>1 DEF ArtTypeOK, RetryStarts, RunTypeOK
  <2> QED
    BY <2>1, <2>2, <2>3, <2>4 DEF ArtTypeOK, RetryStarts
<1> QED
  BY <1>1, <1>2, <1>3

LEMMA BackupTypes ==
  ASSUME ArtTypeOK, BackupStarts \/ BackupCopies
  PROVE  ArtTypeOK'
<1>1. RunTypeOK' /\ ghost' \in History
  BY DEF ArtTypeOK, BackupStarts, BackupCopies, RunTypeOK, History
<1>2. CASE BackupStarts
  BY <1>1, <1>2 DEF ArtTypeOK, BackupStarts, Spend
<1>3. CASE BackupCopies
  <2>1. PICK f \in copy : /\ copy' = copy \ {f}
                          /\ \/ UNCHANGED tree
                             \/ tree' = [tree EXCEPT ![f] = art[f[1]][f[2]]]
    BY <1>3 DEF BackupCopies
  <2>2. art[f[1]][f[2]] \in Pictures
    BY <2>1, FieldsOfItems DEF ArtTypeOK
  <2>3. tree' \in [Fields -> Pictures]
    BY <2>1, <2>2 DEF ArtTypeOK
  <2> QED
    BY <1>1, <1>3, <2>1, <2>3 DEF ArtTypeOK, BackupCopies
<1> QED
  BY <1>2, <1>3

LEMMA PlansAreTyped ==
  ASSUME ArtTypeOK, NEW i \in Items, run.pc # "idle"
  PROVE  IF run.mode \in {"restore", "revert", "reset"} THEN Probed(i) \subseteq Fields
         ELSE Probed(i) \subseteq Items \X {"logo"}
<1>0. run.mode \in Modes
  BY DEF ArtTypeOK, RunTypeOK
<1>1. ASSUME NEW p \in Probed(i), run.mode \in {"restore", "revert", "reset"}
      PROVE  p \in Fields
  <2>1. PICK s \in Plan(run.mode, i) : p = <<i, s>>
    BY <1>1 DEF Probed
  <2>2. s \in Slots[i]
    BY <1>1, <2>1 DEF Plan, RestorePlan, RevertPlan, ResetPlan
  <2> QED
    BY <2>1, <2>2, FieldsOfItems, ServerArtAssumption DEF Slot
<1>2. ASSUME NEW p \in Probed(i), run.mode \notin {"restore", "revert", "reset"}
      PROVE  p \in Items \X {"logo"}
  <2>1. PICK s \in Plan(run.mode, i) : p = <<i, s>>
    BY <1>2 DEF Probed
  <2>2. s = "logo"
    BY <1>0, <1>2, <2>1 DEF Modes, Plan, LogoPlan, LogoRevertPlan
  <2> QED
    BY <2>1, <2>2
<1> QED
  BY <1>1, <1>2

LEMMA ModeTypes ==
  ASSUME ArtTypeOK,
         \/ \E m \in Modes, apply \in BOOLEAN : ModeStarts(m, apply)
         \/ Drains \/ Probes \/ ProbeEnds \/ ModeEnds
  PROVE  ArtTypeOK'
<1>1. CASE \E m \in Modes, apply \in BOOLEAN : ModeStarts(m, apply)
  <2>1. PICK m \in Modes, apply \in BOOLEAN : ModeStarts(m, apply)
    BY <1>1
  <2>a. run' = [mode |-> m, apply |-> apply, pc |-> "drain", at |-> 1, plan |-> {}, key |-> 0, unsaved |-> {}]
    BY <2>1 DEF ModeStarts, NoRun
  <2>b. run' \in ModeRuns
    BY <2>a DEF ModeRuns
  <2>2. RunTypeOK' /\ keys' = keys
    <3>1. run'.mode = m /\ run'.plan = {} /\ run'.key = 0
      BY <2>a
    <3>2. keys' = keys
      BY <2>1 DEF ModeStarts
    <3>3. keys \in Nat
      BY DEF ArtTypeOK
    <3> QED
      BY <2>b, <3>1, <3>2, <3>3 DEF RunTypeOK
  <2>3. ghost' \in History
    BY <2>1 DEF ArtTypeOK, ModeStarts, History
  <2> QED
    <3>1. /\ budget > 0 /\ budget' = budget - 1
          /\ UNCHANGED <<facts, row, art, locked, agent, logo, marker, tree, pass, retry, copy, keys>>
      BY <2>1 DEF ModeStarts, Spend
    <3>2. budget' \in Nat
      BY <3>1 DEF ArtTypeOK
    <3> QED
      BY <2>2, <2>3, <3>1, <3>2 DEF ArtTypeOK
<1>2. CASE Drains
  <2>0. ghost' \in History
    BY <1>2 DEF ArtTypeOK, Drains, History
  <2>1. RunTypeOK'
    <3>1. run \in ModeRuns /\ keys' = keys
      BY <1>2 DEF ArtTypeOK, RunTypeOK, Drains
    <3>2. /\ run' \in ModeRuns
          /\ run'.mode = run.mode /\ run'.key = run.key /\ run'.plan = run.plan
      BY <1>2, <3>1 DEF ModeRuns, Drains
    <3> QED
      BY <1>2, <3>1, <3>2 DEF ArtTypeOK, RunTypeOK, Drains
  <2> QED
    BY <1>2, <2>0, <2>1 DEF ArtTypeOK, Drains
<1>3. CASE Probes
  <2>1. run.at \in Items /\ run.pc = "probe"
    BY <1>3 DEF Probes
  <2>2. PICK more \in SUBSET Probed(run.at) : run' = [run EXCEPT !.at = @ + 1, !.plan = @ \cup more]
    <3>1. CASE run' = [run EXCEPT !.at = @ + 1]
      <4>1. run' = [run EXCEPT !.at = @ + 1, !.plan = @ \cup {}]
        BY <3>1 DEF ArtTypeOK, RunTypeOK
      <4> QED
        BY <4>1
    <3>2. CASE run' = [run EXCEPT !.at = @ + 1, !.plan = @ \cup Probed(run.at)]
      BY <3>2
    <3> QED
      BY <1>3, <3>1, <3>2 DEF Probes
  <2>3. IF run.mode \in {"restore", "revert", "reset"} THEN more \subseteq Fields
        ELSE more \subseteq Items \X {"logo"}
    BY <2>1, PlansAreTyped
  <2>4. more \in SUBSET Field
    BY <2>3, FieldsOfItems DEF Field
  <2>5. RunTypeOK'
    <3>1. run \in ModeRuns /\ keys' = keys
      BY <1>3 DEF ArtTypeOK, RunTypeOK, Probes
    <3>2. /\ run'.mode = run.mode /\ run'.pc = run.pc /\ run'.key = run.key
          /\ run'.plan = run.plan \cup more
      BY <2>2, <3>1 DEF ModeRuns
    <3>3. run' \in ModeRuns
      <4>1. run.plan \cup more \in SUBSET (Items \X (Slot \cup {"logo"})) /\ run.at + 1 \in Nat
        BY <2>4, <3>1 DEF ModeRuns, Field
      <4> QED
        BY <2>2, <3>1, <4>1 DEF ModeRuns
    <3> QED
      BY <2>3, <3>1, <3>2, <3>3 DEF ArtTypeOK, RunTypeOK
  <2>6. ghost' \in History
    BY <1>3 DEF ArtTypeOK, Probes, History
  <2> QED
    BY <1>3, <2>5, <2>6 DEF ArtTypeOK, Probes
<1>4. CASE ProbeEnds
  <2>1. RunTypeOK'
    <3>1. run \in ModeRuns /\ keys' = keys
      BY <1>4 DEF ArtTypeOK, RunTypeOK, ProbeEnds
    <3>2. CASE run' = NoRun
      BY <3>1, <3>2 DEF ArtTypeOK, RunTypeOK, NoRun, ModeRuns
    <3>3. CASE run' = [run EXCEPT !.pc = "apply", !.at = 1]
      <4>1. /\ run' \in ModeRuns
            /\ run'.mode = run.mode /\ run'.key = run.key /\ run'.plan = run.plan
        BY <3>1, <3>3 DEF ModeRuns
      <4> QED
        BY <1>4, <3>1, <4>1 DEF ArtTypeOK, RunTypeOK, ProbeEnds
    <3> QED
      BY <1>4, <3>2, <3>3 DEF ProbeEnds
  <2>2. ghost' \in History
    BY <1>4 DEF ArtTypeOK, ProbeEnds, History
  <2> QED
    BY <1>4, <2>1, <2>2 DEF ArtTypeOK, ProbeEnds
<1>5. CASE ModeEnds
  <2>1. RunTypeOK'
    BY <1>5 DEF ArtTypeOK, ModeEnds, RunTypeOK, ModeRuns, NoRun
  <2>2. ghost' \in History
    BY <1>5 DEF ArtTypeOK, ModeEnds, History
  <2>3. marker' \in [Items -> 0..keys]
    BY <1>5 DEF ArtTypeOK, ModeEnds
  <2> QED
    BY <1>5, <2>1, <2>2, <2>3 DEF ArtTypeOK, ModeEnds
<1> QED
  BY <1>1, <1>2, <1>3, <1>4, <1>5

\* Taking a field off the plan keeps the run's type.
LEMMA RunWithout ==
  ASSUME RunTypeOK, NEW f, UNCHANGED keys, Done(f)
  PROVE  /\ RunTypeOK'
         /\ run' = [run EXCEPT !.plan = run.plan \ {f}]
         /\ run'.mode = run.mode /\ run'.apply = run.apply /\ run'.pc = run.pc /\ run'.key = run.key
         /\ run'.plan = run.plan \ {f} /\ run'.unsaved = run.unsaved
<1>1. /\ run'.mode = run.mode /\ run'.apply = run.apply /\ run'.pc = run.pc /\ run'.key = run.key
      /\ run'.plan = run.plan \ {f} /\ run'.unsaved = run.unsaved
  BY DEF RunTypeOK, ModeRuns, Done
<1>2. run' \in ModeRuns
  BY DEF RunTypeOK, ModeRuns, Done
<1> QED
  BY <1>1, <1>2 DEF RunTypeOK, Done

LEMMA NextFieldTyped ==
  ASSUME RunTypeOK, NEW f \in NextFields
  PROVE  /\ f \in run.plan /\ f \in Field /\ f[1] \in Items
         /\ run.mode \in {"restore", "revert", "reset"} => f \in Fields /\ f[2] \in Slots[f[1]]
         /\ run.mode \notin {"restore", "revert", "reset"} => f = <<f[1], "logo">>
<1>1. f \in run.plan /\ f \in Field
  BY DEF RunTypeOK, ModeRuns, NextFields, Field
<1> QED
  BY <1>1, FieldsOfItems DEF RunTypeOK, Field

\* What Push leaves behind, for the field it acts on.
LEMMA PushEffect ==
  ASSUME ArtTypeOK, Restores \/ Reverts
  PROVE  \E f \in NextFields :
            /\ run.mode \in {"restore", "revert"} /\ run.pc = "apply"
            /\ Done(f) /\ logo' = logo /\ ghost' = Wrote(f)
            /\ art' \in [Items -> [Slot -> Pictures]] /\ locked' \subseteq Fields
            /\ \A j \in Items \ {f[1]} : art'[j] = art[j]
            /\ UNCHANGED <<facts, row, agent, marker, tree, pass, retry, copy, budget, keys>>
<1>0. RunTypeOK /\ art \in [Items -> [Slot -> Pictures]] /\ locked \subseteq Fields /\ tree \in [Fields -> Pictures]
  BY DEF ArtTypeOK
<1>1. CASE Restores
  <2>1. PICK f \in NextFields :
            /\ Done(f) /\ logo' = logo /\ ghost' = Wrote(f)
            /\ \E ok \in BOOLEAN : UploadArtwork(f[1], f[2], tree[f], ok)
    BY <1>1 DEF Restores, Push
  <2>2. run.mode = "restore" /\ run.pc = "apply"
    BY <1>1 DEF Restores, Push, Applying
  <2>3. f[1] \in Items /\ f[2] \in Slots[f[1]] /\ tree[f] \in Pictures
    BY <1>0, <2>2, NextFieldTyped
  <2>4. /\ art' \in [Items -> [Slot -> Pictures]] /\ locked' \subseteq Fields
        /\ \A j \in Items \ {f[1]} : art'[j] = art[j]
    BY <1>0, <2>1, <2>3, UploadEffect
  <2>5. UNCHANGED <<facts, row, agent, marker, tree, pass, retry, copy, budget, keys>>
    BY <1>1 DEF Restores, Push
  <2> QED
    BY <2>1, <2>2, <2>4, <2>5
<1>2. CASE Reverts
  <2>1. PICK f \in NextFields :
            /\ Done(f) /\ logo' = logo /\ ghost' = Wrote(f)
            /\ \E ok \in BOOLEAN : UploadArtwork(f[1], f[2], Base, ok)
    BY <1>2 DEF Reverts, Push
  <2>2. run.mode = "revert" /\ run.pc = "apply"
    BY <1>2 DEF Reverts, Push, Applying
  <2>3. f[1] \in Items /\ f[2] \in Slots[f[1]] /\ Base \in Pictures
    BY <1>0, <2>2, NextFieldTyped, PicturesDrawn
  <2>4. /\ art' \in [Items -> [Slot -> Pictures]] /\ locked' \subseteq Fields
        /\ \A j \in Items \ {f[1]} : art'[j] = art[j]
    BY <1>0, <2>1, <2>3, UploadEffect
  <2>5. UNCHANGED <<facts, row, agent, marker, tree, pass, retry, copy, budget, keys>>
    BY <1>2 DEF Reverts, Push
  <2> QED
    BY <2>1, <2>2, <2>4, <2>5
<1> QED
  BY <1>1, <1>2

LEMMA ResetEffect ==
  ASSUME ArtTypeOK, Resets
  PROVE  \E f \in NextFields :
            /\ run.mode = "reset" /\ run.pc = "apply"
            /\ Done(f) /\ logo' = logo
            /\ ghost' = [Wrote(f) EXCEPT !.trampled =
                            IF art' # art /\ art[f[1]][f[2]].by = "operator" THEN @ \cup {f} ELSE @]
            /\ art' \in [Items -> [Slot -> Pictures]] /\ locked' \subseteq Fields
            /\ \A j \in Items \ {f[1]} : art'[j] = art[j]
            /\ art' # art => art' = [art EXCEPT ![f[1]][f[2]] = AgentArt]
            /\ UNCHANGED <<facts, row, agent, marker, tree, pass, retry, copy, budget, keys>>
<1>0. RunTypeOK /\ art \in [Items -> [Slot -> Pictures]] /\ locked \subseteq Fields
  BY DEF ArtTypeOK
<1>1. PICK f \in NextFields :
          /\ Done(f)
          /\ logo' = logo
          /\ ResetToAgentDefault(f)
          /\ ghost' = [Wrote(f) EXCEPT !.trampled =
                          IF art' # art /\ art[f[1]][f[2]].by = "operator" THEN @ \cup {f} ELSE @]
  BY DEF Resets
<1>2. run.mode = "reset" /\ run.pc = "apply"
  BY DEF Resets, Applying
<1>3. f[1] \in Items /\ f[2] \in Slots[f[1]] /\ f[2] \in Slot
  BY <1>0, <1>2, NextFieldTyped, ServerArtAssumption DEF Slot
<1>4. locked' \subseteq Fields /\ (art' = art \/ art' = [art EXCEPT ![f[1]][f[2]] = AgentArt])
  BY <1>0, <1>1 DEF ResetToAgentDefault, Shown
<1>5. [art[f[1]] EXCEPT ![f[2]] = AgentArt] \in [Slot -> Pictures]
  BY <1>0, <1>3, PicturesDrawn
<1>6. art' \in [Items -> [Slot -> Pictures]] /\ \A j \in Items \ {f[1]} : art'[j] = art[j]
  BY <1>0, <1>3, <1>4, <1>5
<1>7. UNCHANGED <<facts, row, agent, marker, tree, pass, retry, copy, budget, keys>>
  BY DEF Resets
<1> QED
  BY <1>1, <1>2, <1>4, <1>6, <1>7

LEMMA PicturesWritten ==
  ASSUME ArtTypeOK, Restores \/ Reverts \/ Resets
  PROVE  ArtTypeOK'
<1>0. RunTypeOK /\ ghost \in History /\ keys \in Nat
  BY DEF ArtTypeOK
<1>1. PICK f \in NextFields :
            /\ Done(f)
            /\ ghost' \in History
            /\ art' \in [Items -> [Slot -> Pictures]] /\ locked' \subseteq Fields
            /\ UNCHANGED <<facts, row, agent, logo, marker, tree, pass, retry, copy, budget, keys>>
  <2>1. CASE Restores \/ Reverts
    <3>1. PICK f \in NextFields :
            /\ Done(f) /\ logo' = logo /\ ghost' = Wrote(f)
            /\ art' \in [Items -> [Slot -> Pictures]] /\ locked' \subseteq Fields
            /\ UNCHANGED <<facts, row, agent, marker, tree, pass, retry, copy, budget, keys>>
      BY <2>1, PushEffect
    <3>2. f \in Field
      BY <1>0, NextFieldTyped
    <3>3. ghost' \in History
      BY <1>0, <3>1, <3>2, WroteTypes DEF History, Field
    <3> QED
      BY <3>1, <3>3
  <2>2. CASE Resets
    <3>1. PICK f \in NextFields :
            /\ Done(f) /\ logo' = logo
            /\ ghost' = [Wrote(f) EXCEPT !.trampled =
                            IF art' # art /\ art[f[1]][f[2]].by = "operator" THEN @ \cup {f} ELSE @]
            /\ art' \in [Items -> [Slot -> Pictures]] /\ locked' \subseteq Fields
            /\ UNCHANGED <<facts, row, agent, marker, tree, pass, retry, copy, budget, keys>>
      BY <2>2, ResetEffect
    <3>2. f \in Field
      BY <1>0, NextFieldTyped
    <3>3. PICK g : g = Wrote(f)
      OBVIOUS
    <3>4. ghost' \in History
      BY <1>0, <3>1, <3>2, <3>3, WroteTypes DEF History, Field
    <3> QED
      BY <3>1, <3>4
  <2> QED
    BY <2>1, <2>2
<1>2. RunTypeOK'
  BY <1>0, <1>1, RunWithout
<1> QED
  BY <1>1, <1>2 DEF ArtTypeOK

-----------------------------------------------------------------------------
LogoShown == [by : {"nobody", "service", "operator"}, key : Nat]

\* The key of a logo just set is one nobody has seen.
LEMMA NewLogo ==
  ASSUME ArtTypeOK, NEW i \in Items, NEW b \in {"service", "operator"},
         keys' = keys + 1, logo' = [logo EXCEPT ![i] = [by |-> b, key |-> keys + 1]]
  PROVE  /\ keys' \in Nat
         /\ logo' \in [Items -> [by : {"nobody", "service", "operator"}, key : 0..keys']]
         /\ logo'[i].by = b /\ logo'[i].key = keys + 1
         /\ \A j \in Items \ {i} : logo'[j] = logo[j]
<1>1. keys \in Nat /\ logo \in [Items -> [by : {"nobody", "service", "operator"}, key : 0..keys]]
  BY DEF ArtTypeOK
<1>2. keys' \in Nat /\ keys + 1 \in 0..keys' /\ 0..keys \subseteq 0..keys'
  BY <1>1
<1>3. [by |-> b, key |-> keys + 1] \in [by : {"nobody", "service", "operator"}, key : 0..keys']
  BY <1>2
<1>4. logo \in [Items -> [by : {"nobody", "service", "operator"}, key : 0..keys']]
  <2>1. [by : {"nobody", "service", "operator"}, key : 0..keys]
          \subseteq [by : {"nobody", "service", "operator"}, key : 0..keys']
    BY <1>2
  <2> QED
    BY <1>1, <2>1
<1> QED
  BY <1>1, <1>2, <1>3, <1>4

LEMMA LogoUploadsEffect ==
  ASSUME ArtTypeOK, LogoUploads
  PROVE  \E f \in NextFields :
           /\ run.pc = "apply" /\ run.mode = "logo" /\ run.key = 0 /\ f[1] \in Items
           /\ \/ /\ Done(f)
                 /\ UNCHANGED <<logo, keys, ghost>>
              \/ /\ keys' = keys + 1
                 /\ logo' = [logo EXCEPT ![f[1]] = [by |-> "service", key |-> keys + 1]]
                 /\ run' = [run EXCEPT !.key = keys + 1]
                 /\ ghost' = [Wrote(f) EXCEPT !.trampled =
                                 IF logo[f[1]].by = "operator" THEN @ \cup {f} ELSE @]
           /\ UNCHANGED <<facts, row, art, locked, agent, marker, tree, pass, retry, copy, budget>>
<1>1. \A f \in NextFields : f[1] \in Items
  BY NextFieldTyped DEF ArtTypeOK
<1> QED
  BY <1>1 DEF LogoUploads, Applying

LEMMA LogoUploadsTypes ==
  ASSUME ArtTypeOK, LogoUploads
  PROVE  ArtTypeOK'
<1>0. RunTypeOK /\ ghost \in History /\ keys \in Nat /\ marker \in [Items -> 0..keys]
  BY DEF ArtTypeOK
<1>1. PICK f \in NextFields :
           /\ run.pc = "apply" /\ run.mode = "logo" /\ run.key = 0 /\ f[1] \in Items
           /\ \/ /\ Done(f)
                 /\ UNCHANGED <<logo, keys, ghost>>
              \/ /\ keys' = keys + 1
                 /\ logo' = [logo EXCEPT ![f[1]] = [by |-> "service", key |-> keys + 1]]
                 /\ run' = [run EXCEPT !.key = keys + 1]
                 /\ ghost' = [Wrote(f) EXCEPT !.trampled =
                                 IF logo[f[1]].by = "operator" THEN @ \cup {f} ELSE @]
           /\ UNCHANGED <<facts, row, art, locked, agent, marker, tree, pass, retry, copy, budget>>
  BY LogoUploadsEffect
<1>2. CASE Done(f) /\ UNCHANGED <<logo, keys, ghost>>
  <2>1. RunTypeOK' /\ ghost' \in History
    BY <1>0, <1>2, RunWithout DEF History
  <2> QED
    BY <1>1, <1>2, <2>1 DEF ArtTypeOK
<1>3. CASE /\ keys' = keys + 1
           /\ logo' = [logo EXCEPT ![f[1]] = [by |-> "service", key |-> keys + 1]]
           /\ run' = [run EXCEPT !.key = keys + 1]
           /\ ghost' = [Wrote(f) EXCEPT !.trampled =
                           IF logo[f[1]].by = "operator" THEN @ \cup {f} ELSE @]
  <2>1. /\ keys' \in Nat
        /\ logo' \in [Items -> [by : {"nobody", "service", "operator"}, key : 0..keys']]
    BY <1>1, <1>3, NewLogo
  <2>2. RunTypeOK'
    <3>1. /\ run' \in ModeRuns
          /\ run'.mode = run.mode /\ run'.plan = run.plan /\ run'.key = keys'
      BY <1>0, <1>3 DEF RunTypeOK, ModeRuns
    <3> QED
      BY <1>0, <1>1, <2>1, <3>1 DEF RunTypeOK, Modes
  <2>3. ghost' \in History
    <3>1. f \in Field
      BY <1>0, NextFieldTyped
    <3>2. PICK g : g = Wrote(f)
      OBVIOUS
    <3> QED
      BY <1>0, <1>3, <3>1, <3>2, WroteTypes DEF History, Field
  <2>4. marker' \in [Items -> 0..keys']
    <3>1. 0..keys \subseteq 0..keys'
      BY <1>0, <1>3
    <3>2. marker' = marker
      BY <1>1
    <3> QED
      BY <1>0, <3>1, <3>2
  <2> QED
    BY <1>1, <2>1, <2>2, <2>3, <2>4 DEF ArtTypeOK
<1> QED
  BY <1>1, <1>2, <1>3

LEMMA LogoMarksTypes ==
  ASSUME ArtTypeOK, LogoMarks
  PROVE  ArtTypeOK'
<1>0. RunTypeOK /\ ghost \in History /\ keys \in Nat
  BY DEF ArtTypeOK
<1>1. PICK f \in NextFields : \/ RecordMarker(f) /\ ghost' = ghost
                              \/ /\ UNCHANGED marker
                                 /\ run' = [run EXCEPT !.plan = @ \ {f}, !.key = 0]
                                 /\ ghost' = [ghost EXCEPT !.excuses = @ + 1]
  BY DEF LogoMarks
<1>2. run' = [run EXCEPT !.plan = @ \ {f}, !.key = 0] /\ keys' = keys
  BY <1>1 DEF RecordMarker, LogoMarks
<1>3. RunTypeOK'
  <2>1. /\ run' \in ModeRuns
        /\ run'.mode = run.mode /\ run'.plan \subseteq run.plan /\ run'.key = 0 /\ run'.pc = run.pc
    BY <1>0, <1>2 DEF RunTypeOK, ModeRuns
  <2> QED
    BY <1>0, <1>2, <2>1 DEF RunTypeOK
<1>4. ghost' \in History
  BY <1>0, <1>1 DEF History
<1>5. marker' \in [Items -> 0..keys]
  <2>1. f[1] \in Items
    BY <1>0, NextFieldTyped
  <2>2. logo[f[1]].key \in 0..keys /\ marker \in [Items -> 0..keys]
    BY <2>1 DEF ArtTypeOK
  <2> QED
    BY <1>1, <2>2 DEF RecordMarker, Recorded
<1>6. UNCHANGED <<facts, row, art, locked, agent, logo, tree, pass, retry, copy, budget, keys>>
  BY DEF LogoMarks
<1> QED
  BY <1>3, <1>4, <1>5, <1>6 DEF ArtTypeOK

LEMMA LogoClearsTypes ==
  ASSUME ArtTypeOK, LogoClears
  PROVE  ArtTypeOK'
<1>0. RunTypeOK /\ ghost \in History
  BY DEF ArtTypeOK
<1>1. PICK f \in NextFields :
          \/ Done(f) /\ UNCHANGED logo /\ ghost' = ghost
          \/ /\ logo' = [logo EXCEPT ![f[1]] = NoLogo]
             /\ run' = [run EXCEPT !.plan = @ \ {f}, !.unsaved = @ \cup {f[1]}]
             /\ ghost' = [Wrote(f) EXCEPT !.removed =
                             IF logo[f[1]].by = "operator" THEN @ \cup {f} ELSE @]
  BY DEF LogoClears
<1>2. f \in Field /\ f[1] \in Items
  BY <1>0, NextFieldTyped
<1>3. UNCHANGED <<facts, row, art, locked, agent, marker, tree, pass, retry, copy, budget, keys>>
  BY DEF LogoClears
<1>4. CASE Done(f) /\ UNCHANGED logo /\ ghost' = ghost
  <2>1. RunTypeOK' /\ ghost' \in History
    BY <1>0, <1>3, <1>4, RunWithout DEF History
  <2> QED
    BY <1>3, <1>4, <2>1 DEF ArtTypeOK
<1>5. CASE /\ logo' = [logo EXCEPT ![f[1]] = NoLogo]
           /\ run' = [run EXCEPT !.plan = @ \ {f}, !.unsaved = @ \cup {f[1]}]
           /\ ghost' = [Wrote(f) EXCEPT !.removed =
                           IF logo[f[1]].by = "operator" THEN @ \cup {f} ELSE @]
  <2>1. RunTypeOK'
    <3>1. /\ run' \in ModeRuns
          /\ run'.mode = run.mode /\ run'.plan \subseteq run.plan /\ run'.key = run.key /\ run'.pc = run.pc
      BY <1>0, <1>2, <1>5 DEF RunTypeOK, ModeRuns
    <3> QED
      BY <1>0, <1>3, <3>1 DEF RunTypeOK
  <2>2. ghost' \in History
    <3>1. PICK g : g = Wrote(f)
      OBVIOUS
    <3> QED
      BY <1>0, <1>2, <1>5, <3>1, WroteTypes DEF History, Field
  <2>3. logo' \in [Items -> [by : {"nobody", "service", "operator"}, key : 0..keys]]
    BY <1>2, <1>5 DEF ArtTypeOK, NoLogo
  <2> QED
    BY <1>3, <2>1, <2>2, <2>3 DEF ArtTypeOK
<1> QED
  BY <1>1, <1>4, <1>5

LEMMA OutsideTypes ==
  ASSUME ArtTypeOK,
         \/ \E i \in Items : OperatorSetsLogo(i) \/ FactsMove(i)
         \/ \E f \in Fields : OperatorSetsArt(f) \/ AgentRefresh(f)
         \/ Crash
  PROVE  ArtTypeOK'
<1>0. RunTypeOK /\ ghost \in History /\ keys \in Nat /\ marker \in [Items -> 0..keys]
  BY DEF ArtTypeOK
<1>1. Spend => budget' \in Nat
  BY DEF ArtTypeOK, Spend
<1>2. CASE \E i \in Items : OperatorSetsLogo(i)
  <2>1. PICK i \in Items : OperatorSetsLogo(i)
    BY <1>2
  <2>2. /\ Spend /\ keys' = keys + 1
        /\ logo' = [logo EXCEPT ![i] = [by |-> "operator", key |-> keys + 1]]
        /\ UNCHANGED <<facts, row, art, locked, agent, marker, tree, pass, retry, copy, run, ghost>>
    BY <2>1 DEF OperatorSetsLogo
  <2>3. /\ keys' \in Nat
        /\ logo' \in [Items -> [by : {"nobody", "service", "operator"}, key : 0..keys']]
    BY <2>2, NewLogo
  <2>4. 0..keys \subseteq 0..keys' /\ RunTypeOK' /\ ghost' \in History
    BY <1>0, <2>2 DEF RunTypeOK, ModeRuns, History
  <2>5. marker' \in [Items -> 0..keys']
    BY <1>0, <2>2, <2>4
  <2> QED
    BY <1>1, <2>2, <2>3, <2>4, <2>5 DEF ArtTypeOK
<1>3. CASE \E i \in Items : FactsMove(i)
  <2>1. PICK i \in Items : FactsMove(i)
    BY <1>3
  <2>2. facts' \in [Items -> Versions] /\ Spend
    BY <2>1 DEF FactsMove, ArtTypeOK
  <2>3. RunTypeOK' /\ ghost' \in History
    BY <1>0, <2>1 DEF FactsMove, RunTypeOK, History
  <2> QED
    BY <1>1, <2>1, <2>2, <2>3 DEF ArtTypeOK, FactsMove
<1>4. CASE \E f \in Fields : OperatorSetsArt(f) \/ AgentRefresh(f)
  <2>1. PICK f \in Fields : OperatorSetsArt(f) \/ AgentRefresh(f)
    BY <1>4
  <2>2. PICK p \in Pictures : art' = [art EXCEPT ![f[1]][f[2]] = p]
    BY <2>1, PicturesDrawn DEF OperatorSetsArt, AgentRefresh, Shown
  <2>3. art' \in [Items -> [Slot -> Pictures]]
    BY <2>2, FieldsOfItems DEF ArtTypeOK
  <2>4. Spend /\ locked' \subseteq Fields
    BY <2>1 DEF OperatorSetsArt, AgentRefresh, ArtTypeOK
  <2>5. RunTypeOK'
    BY <1>0, <2>1 DEF OperatorSetsArt, AgentRefresh, RunTypeOK
  <2>6. ghost' \in History
    <3>1. f[1] \in Items
      BY FieldsOfItems
    <3>2. ghost' = [ghost EXCEPT !.foreign = @ \cup {f[1]}, !.settled = @ \ {f[1]}]
      BY <2>1 DEF OperatorSetsArt, AgentRefresh
    <3> QED
      BY <1>0, <3>1, <3>2 DEF History
  <2>7. UNCHANGED <<facts, row, agent, logo, marker, tree, pass, retry, copy, run, keys>>
    BY <2>1 DEF OperatorSetsArt, AgentRefresh
  <2> QED
    BY <1>1, <2>3, <2>4, <2>5, <2>6, <2>7 DEF ArtTypeOK
<1>5. CASE Crash
  <2>1. RunTypeOK'
    BY <1>0, <1>5 DEF Crash, RunTypeOK, NoRun, ModeRuns
  <2>2. Idle \in Deliveries /\ Busy(Idle)
    BY DEF Idle, Deliveries, Busy
  <2>3. {t.item : t \in {x \in {pass, retry} : x.pc = "record"}} \subseteq Items
    BY DEF ArtTypeOK, Busy
  <2>4. ghost' \in History
    <3>1. PICK T \in SUBSET Items, n \in Nat : ghost' = [ghost EXCEPT !.torn = @ \cup T, !.excuses = n]
      <4>1. ghost.excuses \in Nat
        BY <1>0 DEF History
      <4>2. (IF run.key # 0 THEN ghost.excuses + 1 ELSE ghost.excuses) \in Nat
        BY <4>1
      <4> QED
        BY <1>5, <2>3, <4>2 DEF Crash
    <3> QED
      BY <1>0, <3>1 DEF History
  <2> QED
    BY <1>1, <1>5, <2>1, <2>2, <2>4 DEF ArtTypeOK, Crash
<1> QED
  BY <1>2, <1>3, <1>4, <1>5

\* Every row, stamp, marker, plan and delivery in flight keeps its type.
THEOREM PicturesAreTyped == ArtSpec => []ArtTypeOK
<1>1. ASSUME ArtTypeOK, ArtNext PROVE ArtTypeOK'
  BY <1>1, PassStartsTypes, DeliverTypes, RetryTypes, BackupTypes, ModeTypes, PicturesWritten,
     LogoUploadsTypes, LogoMarksTypes, LogoClearsTypes, OutsideTypes DEF ArtNext
<1>2. ASSUME ArtTypeOK, UNCHANGED artVars PROVE ArtTypeOK'
  BY <1>2 DEF artVars, ArtTypeOK, RunTypeOK, History
<1> QED
  BY ArtInitTypes, <1>1, <1>2, PTL DEF ArtSpec

-----------------------------------------------------------------------------
(* The cap: a run has changed nothing before it applies, and then what it   *)
(* has changed and what it still plans to fit under the cap together.       *)
CapHolds ==
    /\ run.pc \in {"drain", "probe"} => ghost.changed = {}
    /\ run.pc = "apply" => run.apply /\ Cardinality(ghost.changed \cup Planned(run.plan)) <= Cap

\* The fence: a writing run that has drained finds the badge stage idle.
FenceHolds == run.apply /\ run.pc \in {"probe", "apply"} => pass.pc = "idle"

IdleHolds == (pass.pc = "idle" => pass.item = 0) /\ (retry.pc = "idle" => retry.item = 0)

\* What a mode settled is recorded as delivered, is current and is in nobody's hands.
SettledHolds ==
    \A i \in ghost.settled :
        row[i].status = "uploaded" /\ row[i].badge = facts[i] /\ pass.item # i /\ retry.item # i

(* Without a person at work while a mode runs, nothing on a reset's or a    *)
(* logo run's plan is a person's, and no marker names a person's logo.      *)
ChoicesHold ==
    /\ OperatorChoicesStand
    /\ run.pc = "idle" => run.plan = {}
    /\ run.mode = "reset" => \A f \in run.plan : art[f[1]][f[2]].by # "operator"
    /\ run.mode \in {"logo", "logo_revert"} => \A f \in run.plan : logo[f[1]].by # "operator"
    /\ \A i \in Items : marker[i] # 0 /\ logo[i].key = marker[i] => logo[i].by # "operator"

(* The logo a run has uploaded and not yet marked is the next of its plan;  *)
(* every other logo without a marker has an interruption to its name.       *)
Current == IF run.key # 0 THEN {f[1] : f \in NextFields} ELSE {}

MarkersHold ==
    /\ run.key # 0 => run.pc = "apply" /\ run.mode = "logo"
    /\ run.unsaved # {} => run.mode = "logo_revert"
    /\ \A i \in run.unsaved : logo[i].by # "service"
    /\ Cardinality(Unclaimed \ Current) <= ghost.excuses

(* Truth of a delivery row, while its delivery is between upload and record *)
(* as well.                                                                 *)
Recording(d, i) == d.pc = "record" /\ d.item = i

TruthHolds ==
    /\ \A i \in Items : pass.item = i /\ retry.item = i => i \in ghost.torn
    /\ \A i \in Items \ (ghost.torn \cup ghost.foreign) :
          /\ row[i].status = "uploaded" /\ ~Recording(pass, i) /\ ~Recording(retry, i)
                => art[i]["poster"].stamp = row[i].print
          /\ Recording(pass, i) /\ pass.ok => art[i]["poster"].stamp = pass.data
          /\ Recording(retry, i) /\ retry.ok => art[i]["poster"].stamp = retry.data

-----------------------------------------------------------------------------
(* What the steps leave alone, in four groups: deliveries, the outside and   *)
(* the backup; a mode before it writes and when it ends; its picture writes; *)
(* its logo writes.                                                          *)

Served ==
    \/ \E i \in Items : PassStarts(i) \/ RetryStarts(i) \/ OperatorSetsLogo(i) \/ FactsMove(i)
    \/ DeliverUpload \/ DeliverRecord \/ RetryUpload \/ RetryRecord
    \/ BackupStarts \/ BackupCopies
    \/ \E f \in Fields : OperatorSetsArt(f) \/ AgentRefresh(f)

LEMMA ServedLeavesTheRun ==
  ASSUME ArtTypeOK, Served
  PROVE  /\ UNCHANGED <<run, marker>>
         /\ ghost'.changed = ghost.changed /\ ghost'.trampled = ghost.trampled
         /\ ghost'.removed = ghost.removed /\ ghost'.excuses = ghost.excuses
<1>0. ghost \in History
  BY DEF ArtTypeOK
<1>1. UNCHANGED <<run, marker>>
  BY DEF Served, PassStarts, RetryStarts, OperatorSetsLogo, FactsMove, DeliverUpload, DeliverRecord,
         RetryUpload, RetryRecord, BackupStarts, BackupCopies, OperatorSetsArt, AgentRefresh
<1>2. CASE DeliverUpload
  BY <1>0, <1>2, DeliveredTypes DEF DeliverUpload, ArtTypeOK, Busy
<1>3. CASE RetryUpload
  BY <1>0, <1>3, DeliveredTypes DEF RetryUpload, ArtTypeOK, Busy
<1>4. ASSUME NEW i \in Items, PassStarts(i)
      PROVE  \E S, T : ghost' = [ghost EXCEPT !.torn = S, !.settled = T]
  BY <1>4 DEF PassStarts
<1>5. ASSUME NEW i \in Items, RetryStarts(i)
      PROVE  \E S : ghost' = [ghost EXCEPT !.torn = S]
  BY <1>5 DEF RetryStarts
<1>6. CASE DeliverRecord \/ RetryRecord \/ \E i \in Items : FactsMove(i)
  <2>1. \E S : ghost' = [ghost EXCEPT !.settled = S]
    BY <1>6 DEF DeliverRecord, RetryRecord, FactsMove
  <2> QED
    BY <1>0, <1>1, <2>1 DEF History
<1>7. CASE \E f \in Fields : OperatorSetsArt(f) \/ AgentRefresh(f)
  <2>1. \E S, T : ghost' = [ghost EXCEPT !.foreign = S, !.settled = T]
    BY <1>7 DEF OperatorSetsArt, AgentRefresh
  <2> QED
    BY <1>0, <1>1, <2>1 DEF History
<1>8. CASE BackupStarts \/ BackupCopies \/ \E i \in Items : OperatorSetsLogo(i)
  BY <1>1, <1>8 DEF BackupStarts, BackupCopies, OperatorSetsLogo
<1>9. CASE \E i \in Items : PassStarts(i) \/ RetryStarts(i)
  BY <1>0, <1>1, <1>4, <1>5, <1>9 DEF History
<1> QED
  BY <1>1, <1>2, <1>3, <1>6, <1>7, <1>8, <1>9 DEF Served

\* A mode before it writes, and a process that dies.
Looked ==
    \/ \E m \in Modes, apply \in BOOLEAN : ModeStarts(m, apply)
    \/ Drains \/ Probes \/ ProbeEnds

LEMMA LookedLeavesTheServer ==
  ASSUME ArtTypeOK, Looked
  PROVE  /\ UNCHANGED <<facts, row, art, locked, agent, logo, marker, tree, pass, retry, copy, keys>>
         /\ ghost'.trampled = ghost.trampled /\ ghost'.removed = ghost.removed
         /\ ghost'.settled = ghost.settled /\ ghost'.undone = ghost.undone
         /\ ghost'.torn = ghost.torn /\ ghost'.foreign = ghost.foreign
         /\ ghost'.excuses = ghost.excuses
<1>1. UNCHANGED <<facts, row, art, locked, agent, logo, marker, tree, pass, retry, copy, keys>>
  BY DEF Looked, ModeStarts, Drains, Probes, ProbeEnds
<1>2. ghost' = ghost \/ ghost' = [ghost EXCEPT !.changed = {}]
  BY DEF Looked, ModeStarts, Drains, Probes, ProbeEnds
<1> QED
  BY <1>1, <1>2 DEF ArtTypeOK, History

Pushed == Restores \/ Reverts \/ Resets

LEMMA PushedEffect ==
  ASSUME ArtTypeOK, Pushed
  PROVE  \E f \in NextFields :
            /\ run.mode \in {"restore", "revert", "reset"} /\ run.pc = "apply"
            /\ f \in run.plan /\ f[1] \in Items /\ f[2] \in Slot
            /\ run' = [run EXCEPT !.plan = run.plan \ {f}] /\ run'.plan = run.plan \ {f}
            /\ run'.mode = run.mode /\ run'.pc = run.pc /\ run'.apply = run.apply
            /\ run'.key = run.key /\ run'.unsaved = run.unsaved
            /\ \A j \in Items \ {f[1]} : art'[j] = art[j]
            /\ run.mode = "reset" => art' = art \/ art' = [art EXCEPT ![f[1]][f[2]] = AgentArt]
            /\ ghost'.removed = ghost.removed /\ ghost'.undone = ghost.undone
            /\ ghost'.torn = ghost.torn /\ ghost'.excuses = ghost.excuses
            /\ ghost'.changed = IF art' # art THEN ghost.changed \cup {f[1]} ELSE ghost.changed
            /\ ghost'.foreign = IF art' # art THEN ghost.foreign \cup {f[1]} ELSE ghost.foreign
            /\ ghost'.settled = IF art' # art /\ f[2] = "poster" /\ row[f[1]].status = "uploaded"
                                     /\ row[f[1]].badge = facts[f[1]] /\ retry.item # f[1]
                                  THEN ghost.settled \cup {f[1]} ELSE ghost.settled
            /\ ghost'.trampled = IF run.mode = "reset" /\ art' # art /\ art[f[1]][f[2]].by = "operator"
                                 THEN ghost.trampled \cup {f} ELSE ghost.trampled
            /\ UNCHANGED <<facts, row, agent, logo, marker, tree, pass, retry, copy, budget, keys>>
<1>0. RunTypeOK /\ ghost \in History
  BY DEF ArtTypeOK
<1>1. ASSUME NEW f \in NextFields, run.mode \in {"restore", "revert", "reset"}
      PROVE  f \in run.plan /\ f \in Field /\ f[1] \in Items /\ f[2] \in Slot
  BY <1>0, <1>1, NextFieldTyped, ServerArtAssumption DEF Slot
<1>2. CASE Restores \/ Reverts
  <2>1. PICK f \in NextFields :
            /\ run.mode \in {"restore", "revert"} /\ run.pc = "apply"
            /\ Done(f) /\ logo' = logo /\ ghost' = Wrote(f)
            /\ \A j \in Items \ {f[1]} : art'[j] = art[j]
            /\ UNCHANGED <<facts, row, agent, marker, tree, pass, retry, copy, budget, keys>>
    BY <1>2, PushEffect
  <2>2. f \in run.plan /\ f \in Field /\ f[1] \in Items /\ f[2] \in Slot
    BY <1>1, <2>1
  <2>3. /\ run' = [run EXCEPT !.plan = run.plan \ {f}] /\ run'.plan = run.plan \ {f}
        /\ run'.mode = run.mode /\ run'.pc = run.pc /\ run'.apply = run.apply
        /\ run'.key = run.key /\ run'.unsaved = run.unsaved
    BY <1>0, <2>1, RunWithout
  <2> QED
    BY <1>0, <2>1, <2>2, <2>3, WroteTypes
<1>3. CASE Resets
  <2>1. PICK f \in NextFields :
            /\ run.mode = "reset" /\ run.pc = "apply"
            /\ Done(f) /\ logo' = logo
            /\ ghost' = [Wrote(f) EXCEPT !.trampled =
                            IF art' # art /\ art[f[1]][f[2]].by = "operator" THEN @ \cup {f} ELSE @]
            /\ \A j \in Items \ {f[1]} : art'[j] = art[j]
            /\ art' # art => art' = [art EXCEPT ![f[1]][f[2]] = AgentArt]
            /\ UNCHANGED <<facts, row, agent, marker, tree, pass, retry, copy, budget, keys>>
    BY <1>3, ResetEffect
  <2>2. f \in run.plan /\ f \in Field /\ f[1] \in Items /\ f[2] \in Slot
    BY <1>1, <2>1
  <2>3. /\ run' = [run EXCEPT !.plan = run.plan \ {f}] /\ run'.plan = run.plan \ {f}
        /\ run'.mode = run.mode /\ run'.pc = run.pc /\ run'.apply = run.apply
        /\ run'.key = run.key /\ run'.unsaved = run.unsaved
    BY <1>0, <2>1, RunWithout
  <2>4. PICK T : T = IF art' # art /\ art[f[1]][f[2]].by = "operator" THEN ghost.trampled \cup {f} ELSE ghost.trampled
    OBVIOUS
  <2>5. Wrote(f) \in History /\ Wrote(f).trampled = ghost.trampled
    BY <1>0, <2>2, WroteTypes
  <2>6. ghost' = [Wrote(f) EXCEPT !.trampled = T] /\ T \in SUBSET Field
    BY <1>0, <2>1, <2>2, <2>4, <2>5 DEF History, Field
  <2>7. /\ ghost'.trampled = T /\ ghost'.removed = Wrote(f).removed /\ ghost'.undone = Wrote(f).undone
        /\ ghost'.torn = Wrote(f).torn /\ ghost'.excuses = Wrote(f).excuses
        /\ ghost'.changed = Wrote(f).changed /\ ghost'.foreign = Wrote(f).foreign
        /\ ghost'.settled = Wrote(f).settled
    BY <2>5, <2>6, NotedTypes
  <2>8. /\ ghost'.removed = ghost.removed /\ ghost'.undone = ghost.undone
        /\ ghost'.torn = ghost.torn /\ ghost'.excuses = ghost.excuses
        /\ ghost'.changed = IF art' # art THEN ghost.changed \cup {f[1]} ELSE ghost.changed
        /\ ghost'.foreign = IF art' # art THEN ghost.foreign \cup {f[1]} ELSE ghost.foreign
        /\ ghost'.settled = IF art' # art /\ f[2] = "poster" /\ row[f[1]].status = "uploaded"
                                     /\ row[f[1]].badge = facts[f[1]] /\ retry.item # f[1]
                                  THEN ghost.settled \cup {f[1]} ELSE ghost.settled
    BY <1>0, <2>1, <2>2, <2>7, WroteTypes
  <2> QED
    BY <2>1, <2>2, <2>3, <2>4, <2>7, <2>8
<1> QED
  BY <1>2, <1>3 DEF Pushed

Logged == LogoUploads \/ LogoMarks \/ LogoClears

LEMMA LogoUploadsShows ==
  ASSUME ArtTypeOK, NEW f \in NextFields, f[1] \in Items, run.mode = "logo", run.key = 0,
         keys' = keys + 1,
         logo' = [logo EXCEPT ![f[1]] = [by |-> "service", key |-> keys + 1]],
         run' = [run EXCEPT !.key = keys + 1],
         ghost' = [Wrote(f) EXCEPT !.trampled =
                      IF logo[f[1]].by = "operator" THEN @ \cup {f} ELSE @],
         art' = art
  PROVE  /\ run'.mode = run.mode /\ run'.pc = run.pc /\ run'.apply = run.apply
         /\ run'.plan = run.plan /\ run'.key = keys + 1 /\ run'.key # 0 /\ run'.unsaved = run.unsaved
         /\ ghost'.changed \subseteq ghost.changed \cup {f[1]}
         /\ ghost'.trampled = IF logo[f[1]].by = "operator" THEN ghost.trampled \cup {f} ELSE ghost.trampled
         /\ ghost'.removed = ghost.removed /\ ghost'.settled = ghost.settled
         /\ ghost'.undone = ghost.undone /\ ghost'.torn = ghost.torn
         /\ ghost'.foreign = ghost.foreign /\ ghost'.excuses = ghost.excuses
<1>0. RunTypeOK /\ ghost \in History /\ keys \in Nat
  BY DEF ArtTypeOK
<1>1. f \in Field
  BY <1>0, NextFieldTyped
<1>2. PICK T : T = IF logo[f[1]].by = "operator" THEN ghost.trampled \cup {f} ELSE ghost.trampled
  OBVIOUS
<1>3. Wrote(f) \in History /\ Wrote(f).trampled = ghost.trampled
  BY <1>0, <1>1, WroteTypes
<1>4. ghost' = [Wrote(f) EXCEPT !.trampled = T] /\ T \in SUBSET Field
  BY <1>0, <1>1, <1>2, <1>3 DEF History, Field
<1>5. /\ ghost'.trampled = T /\ ghost'.removed = Wrote(f).removed /\ ghost'.undone = Wrote(f).undone
      /\ ghost'.torn = Wrote(f).torn /\ ghost'.excuses = Wrote(f).excuses
      /\ ghost'.changed = Wrote(f).changed /\ ghost'.foreign = Wrote(f).foreign
      /\ ghost'.settled = Wrote(f).settled
  <2>1. PICK g \in History : g = Wrote(f)
    BY <1>3
  <2>2. PICK h : h = [g EXCEPT !.trampled = T]
    OBVIOUS
  <2>3. /\ h.trampled = T /\ h.removed = g.removed /\ h.undone = g.undone
        /\ h.torn = g.torn /\ h.excuses = g.excuses
        /\ h.changed = g.changed /\ h.foreign = g.foreign /\ h.settled = g.settled
    BY <1>4, <2>2, NotedTypes
  <2> QED
    BY <1>4, <2>1, <2>2, <2>3
<1>6. /\ Wrote(f).removed = ghost.removed /\ Wrote(f).undone = ghost.undone
      /\ Wrote(f).torn = ghost.torn /\ Wrote(f).excuses = ghost.excuses
      /\ Wrote(f).changed \subseteq ghost.changed \cup {f[1]} /\ Wrote(f).foreign = ghost.foreign
      /\ Wrote(f).settled = ghost.settled
  BY <1>0, <1>1, WroteTypes
<1>7. /\ run'.mode = run.mode /\ run'.pc = run.pc /\ run'.apply = run.apply
      /\ run'.plan = run.plan /\ run'.key = keys + 1 /\ run'.key # 0 /\ run'.unsaved = run.unsaved
  BY <1>0 DEF RunTypeOK, ModeRuns
<1> QED
  BY <1>2, <1>5, <1>6, <1>7

LEMMA LogoMarksShows ==
  ASSUME ArtTypeOK, LogoMarks
  PROVE  \E f \in NextFields :
           /\ run.mode = "logo" /\ run.key # 0 /\ run.pc = "apply" /\ f[1] \in Items
           /\ run'.mode = run.mode /\ run'.pc = run.pc /\ run'.apply = run.apply
           /\ run'.plan = run.plan \ {f} /\ run'.key = 0 /\ run'.unsaved = run.unsaved
           /\ \/ marker' = [marker EXCEPT ![f[1]] = logo[f[1]].key] /\ ghost'.excuses = ghost.excuses
              \/ marker' = marker /\ ghost'.excuses = ghost.excuses + 1
           /\ ghost'.changed = ghost.changed /\ ghost'.trampled = ghost.trampled
           /\ ghost'.removed = ghost.removed /\ ghost'.settled = ghost.settled
           /\ ghost'.undone = ghost.undone /\ ghost'.torn = ghost.torn
           /\ ghost'.foreign = ghost.foreign
           /\ UNCHANGED <<facts, row, art, locked, agent, logo, tree, pass, retry, copy, budget, keys>>
<1>0. run \in ModeRuns /\ RunTypeOK /\ ghost \in History
  BY DEF ArtTypeOK, RunTypeOK
<1>1. PICK f \in NextFields : \/ RecordMarker(f) /\ ghost' = ghost
                              \/ /\ UNCHANGED marker
                                 /\ run' = [run EXCEPT !.plan = @ \ {f}, !.key = 0]
                                 /\ ghost' = [ghost EXCEPT !.excuses = @ + 1]
  BY DEF LogoMarks
<1>2. f[1] \in Items
  BY <1>0, NextFieldTyped
<1>3. run' = [run EXCEPT !.plan = @ \ {f}, !.key = 0]
  BY <1>1 DEF RecordMarker
<1>4. /\ run'.mode = run.mode /\ run'.pc = run.pc /\ run'.apply = run.apply
      /\ run'.plan = run.plan \ {f} /\ run'.key = 0 /\ run'.unsaved = run.unsaved
  BY <1>0, <1>3 DEF ModeRuns
<1>5. /\ \/ marker' = [marker EXCEPT ![f[1]] = logo[f[1]].key] /\ ghost'.excuses = ghost.excuses
         \/ marker' = marker /\ ghost'.excuses = ghost.excuses + 1
      /\ ghost'.changed = ghost.changed /\ ghost'.trampled = ghost.trampled
      /\ ghost'.removed = ghost.removed /\ ghost'.settled = ghost.settled
      /\ ghost'.undone = ghost.undone /\ ghost'.torn = ghost.torn
      /\ ghost'.foreign = ghost.foreign
  BY <1>0, <1>1 DEF History, RecordMarker, Recorded
<1>6. /\ run.mode = "logo" /\ run.key # 0 /\ run.pc = "apply"
      /\ UNCHANGED <<facts, row, art, locked, agent, logo, tree, pass, retry, copy, budget, keys>>
  BY DEF LogoMarks, Applying
<1> QED
  BY <1>2, <1>4, <1>5, <1>6

LEMMA LogoClearsShows ==
  ASSUME ArtTypeOK, LogoClears
  PROVE  \E f \in NextFields :
           /\ run.mode = "logo_revert" /\ run.pc = "apply" /\ f[1] \in Items
           /\ run'.mode = run.mode /\ run'.pc = run.pc /\ run'.apply = run.apply
           /\ run'.plan = run.plan \ {f} /\ run'.key = run.key
           /\ \/ logo' = logo /\ run'.unsaved = run.unsaved
              \/ logo' = [logo EXCEPT ![f[1]] = NoLogo] /\ run'.unsaved = run.unsaved \cup {f[1]}
           /\ ghost'.changed \subseteq ghost.changed \cup {f[1]} /\ ghost'.trampled = ghost.trampled
           /\ logo[f[1]].by # "operator" => ghost'.removed = ghost.removed
           /\ ghost'.settled = ghost.settled /\ ghost'.excuses = ghost.excuses
           /\ ghost'.undone = ghost.undone /\ ghost'.torn = ghost.torn
           /\ ghost'.foreign = ghost.foreign
           /\ UNCHANGED <<facts, row, art, locked, agent, marker, tree, pass, retry, copy, budget, keys>>
<1>0. run \in ModeRuns /\ RunTypeOK /\ ghost \in History
  BY DEF ArtTypeOK, RunTypeOK
<1>1. PICK f \in NextFields :
          \/ Done(f) /\ UNCHANGED logo /\ ghost' = ghost
          \/ /\ logo' = [logo EXCEPT ![f[1]] = NoLogo]
             /\ run' = [run EXCEPT !.plan = @ \ {f}, !.unsaved = @ \cup {f[1]}]
             /\ ghost' = [Wrote(f) EXCEPT !.removed =
                             IF logo[f[1]].by = "operator" THEN @ \cup {f} ELSE @]
  BY DEF LogoClears
<1>2. /\ run.mode = "logo_revert" /\ run.pc = "apply"
      /\ UNCHANGED <<facts, row, art, locked, agent, marker, tree, pass, retry, copy, budget, keys>>
  BY DEF LogoClears, Applying
<1>3. f[1] \in Items /\ f \in Field
  BY <1>0, NextFieldTyped
<1>4. CASE Done(f) /\ UNCHANGED logo /\ ghost' = ghost
  BY <1>0, <1>2, <1>3, <1>4 DEF Done, ModeRuns
<1>5. CASE /\ logo' = [logo EXCEPT ![f[1]] = NoLogo]
           /\ run' = [run EXCEPT !.plan = @ \ {f}, !.unsaved = @ \cup {f[1]}]
           /\ ghost' = [Wrote(f) EXCEPT !.removed =
                           IF logo[f[1]].by = "operator" THEN @ \cup {f} ELSE @]
  <2>1. /\ run'.mode = run.mode /\ run'.pc = run.pc /\ run'.apply = run.apply
        /\ run'.plan = run.plan \ {f} /\ run'.key = run.key
        /\ run'.unsaved = run.unsaved \cup {f[1]}
    BY <1>0, <1>5 DEF ModeRuns
  <2>2. PICK T : T = IF logo[f[1]].by = "operator" THEN ghost.removed \cup {f} ELSE ghost.removed
    OBVIOUS
  <2>3. Wrote(f) \in History /\ Wrote(f).removed = ghost.removed
    BY <1>0, <1>3, WroteTypes
  <2>4. ghost' = [Wrote(f) EXCEPT !.removed = T] /\ T \in SUBSET Field
    BY <1>0, <1>3, <1>5, <2>2, <2>3 DEF History, Field
  <2>5. /\ ghost'.trampled = Wrote(f).trampled /\ ghost'.removed = T /\ ghost'.undone = Wrote(f).undone
        /\ ghost'.torn = Wrote(f).torn /\ ghost'.excuses = Wrote(f).excuses
        /\ ghost'.changed = Wrote(f).changed /\ ghost'.foreign = Wrote(f).foreign
        /\ ghost'.settled = Wrote(f).settled
    BY <2>3, <2>4, NotedTypes
  <2>6. /\ Wrote(f).trampled = ghost.trampled /\ Wrote(f).undone = ghost.undone
        /\ Wrote(f).torn = ghost.torn /\ Wrote(f).excuses = ghost.excuses
        /\ Wrote(f).changed \subseteq ghost.changed \cup {f[1]} /\ Wrote(f).foreign = ghost.foreign
        /\ Wrote(f).settled = ghost.settled
    BY <1>0, <1>2, <1>3, WroteTypes
  <2> QED
    BY <1>2, <1>3, <1>5, <2>1, <2>2, <2>5, <2>6
<1> QED
  BY <1>1, <1>4, <1>5

LEMMA LoggedLeavesThePictures ==
  ASSUME ArtTypeOK, Logged
  PROVE  /\ UNCHANGED <<facts, row, art, locked, agent, tree, pass, retry, copy, budget>>
         /\ ghost'.settled = ghost.settled /\ ghost'.undone = ghost.undone
         /\ ghost'.torn = ghost.torn /\ ghost'.foreign = ghost.foreign
         /\ run'.mode = run.mode /\ run'.pc = run.pc /\ run'.apply = run.apply
         /\ run.pc = "apply" /\ run.mode \in {"logo", "logo_revert"}
         /\ run'.plan \subseteq run.plan
         /\ \E f \in run.plan : ghost'.changed \subseteq ghost.changed \cup {f[1]}
<1>1. CASE LogoMarks
  BY <1>1, LogoMarksShows DEF NextFields
<1>2. CASE LogoClears
  BY <1>2, LogoClearsShows DEF NextFields
<1>3. CASE LogoUploads
  <2>1. PICK f \in NextFields :
           /\ run.pc = "apply" /\ run.mode = "logo" /\ run.key = 0 /\ f[1] \in Items
           /\ \/ /\ Done(f)
                 /\ UNCHANGED <<logo, keys, ghost>>
              \/ /\ keys' = keys + 1
                 /\ logo' = [logo EXCEPT ![f[1]] = [by |-> "service", key |-> keys + 1]]
                 /\ run' = [run EXCEPT !.key = keys + 1]
                 /\ ghost' = [Wrote(f) EXCEPT !.trampled =
                                 IF logo[f[1]].by = "operator" THEN @ \cup {f} ELSE @]
           /\ UNCHANGED <<facts, row, art, locked, agent, marker, tree, pass, retry, copy, budget>>
    BY <1>3, LogoUploadsEffect
  <2>2. f \in run.plan
    BY DEF NextFields
  <2>3. CASE Done(f) /\ UNCHANGED <<logo, keys, ghost>>
    <3>1. RunTypeOK
      BY DEF ArtTypeOK
    <3> QED
      BY <2>1, <2>2, <2>3, <3>1, RunWithout
  <2>4. CASE /\ keys' = keys + 1
             /\ logo' = [logo EXCEPT ![f[1]] = [by |-> "service", key |-> keys + 1]]
             /\ run' = [run EXCEPT !.key = keys + 1]
             /\ ghost' = [Wrote(f) EXCEPT !.trampled =
                             IF logo[f[1]].by = "operator" THEN @ \cup {f} ELSE @]
    BY <2>1, <2>2, <2>4, LogoUploadsShows
  <2> QED
    BY <2>1, <2>3, <2>4
<1> QED
  BY <1>1, <1>2, <1>3 DEF Logged

LEMMA NextIsCovered ==
  ArtNext => Served \/ Looked \/ Pushed \/ Logged \/ ModeEnds \/ Crash
BY DEF ArtNext, Served, Looked, Pushed, Logged

-----------------------------------------------------------------------------
\* Fewer items cost no more of the cap.
LEMMA FewerItems ==
  ASSUME NEW S \in SUBSET Items, NEW T \in SUBSET S
  PROVE  IsFiniteSet(S) /\ Cardinality(T) <= Cardinality(S) /\ Cardinality(S) \in Nat /\ Cardinality(T) \in Nat
<1>1. IsFiniteSet(S)
  BY ServerArtAssumption, FS_Subset
<1>2. IsFiniteSet(T) /\ Cardinality(T) <= Cardinality(S)
  BY <1>1, FS_Subset
<1> QED
  BY <1>1, <1>2, FS_CardinalityType

LEMMA PlannedAreItems ==
  ASSUME ArtTypeOK
  PROVE  ghost.changed \subseteq Items /\ Planned(run.plan) \subseteq Items
  BY DEF ArtTypeOK, RunTypeOK, ModeRuns, History, Planned

\* What a run writes next was already counted against the cap.
LEMMA WritesStayInThePlan ==
  ASSUME ArtTypeOK, CapHolds, run.pc = "apply", run'.pc = "apply", run'.apply = run.apply,
         run'.plan \subseteq run.plan,
         NEW f \in run.plan, ghost'.changed \subseteq ghost.changed \cup {f[1]}
  PROVE  CapHolds'
<1>1. ghost'.changed \cup Planned(run'.plan) \subseteq ghost.changed \cup Planned(run.plan)
  BY DEF Planned
<1>2. ghost.changed \cup Planned(run.plan) \subseteq Items
  BY PlannedAreItems
<1>3. /\ Cardinality(ghost'.changed \cup Planned(run'.plan)) <= Cardinality(ghost.changed \cup Planned(run.plan))
      /\ Cardinality(ghost'.changed \cup Planned(run'.plan)) \in Nat
      /\ Cardinality(ghost.changed \cup Planned(run.plan)) \in Nat
  BY <1>1, <1>2, FewerItems
<1>4. run.apply /\ Cardinality(ghost.changed \cup Planned(run.plan)) <= Cap
  BY DEF CapHolds
<1>5. Cardinality(ghost'.changed \cup Planned(run'.plan)) <= Cap
  BY <1>3, <1>4, ServerArtAssumption
<1> QED
  BY <1>4, <1>5 DEF CapHolds

LEMMA CapKept ==
  ASSUME ArtTypeOK, CapHolds, [ArtNext]_artVars
  PROVE  CapHolds'
<1>0. ghost \in History /\ run \in ModeRuns
  BY DEF ArtTypeOK, RunTypeOK
<1>1. CASE Served
  <2>1. run' = run /\ ghost'.changed = ghost.changed
    BY <1>1, ServedLeavesTheRun
  <2> QED
    BY <2>1 DEF CapHolds, Planned
<1>2. CASE Looked
  <2>1. CASE \E m \in Modes, apply \in BOOLEAN : ModeStarts(m, apply)
    <3>1. run'.pc = "drain"
      BY <2>1 DEF ModeStarts, NoRun
    <3>2. ghost'.changed = {}
      BY <1>0, <2>1 DEF ModeStarts, History
    <3> QED
      BY <3>1, <3>2 DEF CapHolds
  <2>2. CASE Drains \/ Probes
    <3>1. run.pc \in {"drain", "probe"} /\ ghost' = ghost
      BY <2>2 DEF Drains, Probes
    <3>2. run'.pc = "probe"
      BY <1>0, <2>2 DEF Drains, Probes, ModeRuns
    <3> QED
      BY <3>1, <3>2 DEF CapHolds
  <2>3. CASE ProbeEnds
    <3>1. run.pc = "probe" /\ ghost' = ghost /\ ghost.changed = {}
      BY <2>3 DEF ProbeEnds, CapHolds
    <3>2. CASE run' = NoRun
      BY <3>2 DEF NoRun, CapHolds
    <3>3. CASE run' # NoRun
      <4>1. run' = [run EXCEPT !.pc = "apply", !.at = 1] /\ ~RefuseIfImplausible(run.plan) /\ run.apply
        BY <2>3, <3>3 DEF ProbeEnds
      <4>2. run'.pc = "apply" /\ run'.plan = run.plan /\ run'.apply
        BY <1>0, <4>1 DEF ModeRuns
      <4>3. ghost'.changed \cup Planned(run'.plan) = Planned(run.plan)
        BY <3>1, <4>2
      <4>4. Cardinality(Planned(run.plan)) \in Nat
        BY PlannedAreItems, FewerItems
      <4>5. Cardinality(Planned(run.plan)) <= Cap
        BY <4>1, <4>4, ServerArtAssumption DEF RefuseIfImplausible
      <4> QED
        BY <4>2, <4>3, <4>5 DEF CapHolds
    <3> QED
      BY <3>2, <3>3
  <2> QED
    BY <1>2, <2>1, <2>2, <2>3 DEF Looked
<1>3. CASE Pushed
  <2>1. PICK f \in NextFields :
            /\ run.pc = "apply" /\ f \in run.plan /\ run'.plan = run.plan \ {f}
            /\ run'.pc = run.pc /\ run'.apply = run.apply
            /\ ghost'.changed = IF art' # art THEN ghost.changed \cup {f[1]} ELSE ghost.changed
    BY <1>3, PushedEffect
  <2> QED
    BY <2>1, WritesStayInThePlan
<1>4. CASE Logged
  <2>1. /\ run'.pc = run.pc /\ run'.apply = run.apply /\ run.pc = "apply"
        /\ run'.plan \subseteq run.plan
    BY <1>4, LoggedLeavesThePictures
  <2>2. PICK f \in run.plan : ghost'.changed \subseteq ghost.changed \cup {f[1]}
    BY <1>4, LoggedLeavesThePictures
  <2> QED
    BY <2>1, <2>2, WritesStayInThePlan
<1>5. CASE ModeEnds \/ Crash
  BY <1>5 DEF ModeEnds, Crash, NoRun, CapHolds
<1>6. CASE UNCHANGED artVars
  BY <1>6 DEF artVars, CapHolds, Planned
<1> QED
  BY <1>1, <1>2, <1>3, <1>4, <1>5, <1>6, NextIsCovered

LEMMA CapIsEnough ==
  ASSUME ArtTypeOK, CapHolds
  PROVE  PlanBoundsTheRun
<1>1. CASE run.pc \in {"drain", "probe"}
  <2>1. Cardinality(ghost.changed) = 0
    BY <1>1, FS_EmptySet DEF CapHolds
  <2>2. 0 <= (IF run.apply THEN Cap ELSE 0)
    BY ServerArtAssumption
  <2> QED
    BY <2>1, <2>2 DEF PlanBoundsTheRun
<1>2. CASE run.pc = "apply"
  <2>1. ghost.changed \cup Planned(run.plan) \in SUBSET Items
    BY PlannedAreItems
  <2>2. /\ Cardinality(ghost.changed) <= Cardinality(ghost.changed \cup Planned(run.plan))
        /\ Cardinality(ghost.changed) \in Nat
        /\ Cardinality(ghost.changed \cup Planned(run.plan)) \in Nat
    BY <2>1, FewerItems
  <2>3. run.apply /\ Cardinality(ghost.changed \cup Planned(run.plan)) <= Cap
    BY <1>2 DEF CapHolds
  <2> QED
    BY <2>2, <2>3, ServerArtAssumption DEF PlanBoundsTheRun
<1> QED
  BY <1>1, <1>2 DEF ArtTypeOK, RunTypeOK, ModeRuns, PlanBoundsTheRun

-----------------------------------------------------------------------------
LEMMA FenceKept ==
  ASSUME ArtTypeOK, FenceHolds, [ArtNext]_artVars
  PROVE  FenceHolds'
<1>0. run \in ModeRuns
  BY DEF ArtTypeOK, RunTypeOK
<1>1. CASE Served
  <2>1. run' = run
    BY <1>1, ServedLeavesTheRun
  <2>2. pass'.pc # "idle" => pass.pc # "idle" \/ ~Paused
    BY <1>1 DEF Served, PassStarts, RetryStarts, OperatorSetsLogo, FactsMove, DeliverUpload,
       DeliverRecord, RetryUpload, RetryRecord, BackupStarts, BackupCopies, OperatorSetsArt, AgentRefresh, Idle
  <2>3. run.pc \in {"probe", "apply"} /\ run.apply => Paused
    BY DEF Paused
  <2> QED
    BY <2>1, <2>2, <2>3 DEF FenceHolds
<1>2. CASE Looked
  <2>1. pass' = pass
    BY <1>2, LookedLeavesTheServer
  <2>2. CASE \E m \in Modes, apply \in BOOLEAN : ModeStarts(m, apply)
    <3>1. run'.pc = "drain"
      BY <2>2 DEF ModeStarts, NoRun
    <3> QED
      BY <3>1 DEF FenceHolds
  <2>3. CASE Drains
    <3>1. (run.apply => pass.pc = "idle") /\ run'.apply = run.apply
      BY <1>0, <2>3 DEF Drains, ModeRuns
    <3> QED
      BY <2>1, <3>1 DEF FenceHolds
  <2>4. CASE Probes
    <3>1. run'.apply = run.apply /\ run.pc = "probe"
      BY <1>0, <2>4 DEF Probes, ModeRuns
    <3> QED
      BY <2>1, <3>1 DEF FenceHolds
  <2>5. CASE ProbeEnds
    <3>1. CASE run' = NoRun
      <4>1. run'.pc = "idle"
        BY <3>1 DEF NoRun
      <4> QED
        BY <4>1 DEF FenceHolds
    <3>2. CASE run' # NoRun
      <4>1. run'.apply = run.apply /\ run.pc = "probe"
        BY <1>0, <2>5, <3>2 DEF ProbeEnds, ModeRuns
      <4> QED
        BY <2>1, <4>1 DEF FenceHolds
    <3> QED
      BY <3>1, <3>2
  <2> QED
    BY <1>2, <2>2, <2>3, <2>4, <2>5 DEF Looked
<1>3. CASE Pushed
  <2>1. run'.pc = run.pc /\ run'.apply = run.apply /\ pass' = pass
    BY <1>3, PushedEffect
  <2> QED
    BY <2>1 DEF FenceHolds
<1>4. CASE Logged
  <2>1. run'.pc = run.pc /\ run'.apply = run.apply /\ pass' = pass
    BY <1>4, LoggedLeavesThePictures
  <2> QED
    BY <2>1 DEF FenceHolds
<1>5. CASE ModeEnds \/ Crash
  BY <1>5 DEF ModeEnds, Crash, NoRun, FenceHolds
<1>6. CASE UNCHANGED artVars
  BY <1>6 DEF artVars, FenceHolds
<1> QED
  BY <1>1, <1>2, <1>3, <1>4, <1>5, <1>6, NextIsCovered

LEMMA IdleKept ==
  ASSUME ArtTypeOK, IdleHolds, [ArtNext]_artVars
  PROVE  IdleHolds'
<1>0. pass \in Deliveries /\ retry \in Deliveries
  BY DEF ArtTypeOK
<1>1. CASE UNCHANGED <<pass, retry>>
  BY <1>1 DEF IdleHolds
<1>2. CASE \E i \in Items : PassStarts(i) \/ RetryStarts(i)
  BY <1>2 DEF PassStarts, ComposeBadged, RetryStarts, IdleHolds, Idle
<1>3. CASE DeliverUpload \/ RetryUpload
  BY <1>0, <1>3 DEF DeliverUpload, RetryUpload, IdleHolds, Deliveries
<1>4. CASE DeliverRecord \/ RetryRecord \/ Crash
  BY <1>4 DEF DeliverRecord, RetryRecord, Crash, IdleHolds, Idle
<1>5. CASE Looked \/ Pushed \/ Logged \/ ModeEnds
  <2>1. UNCHANGED <<pass, retry>>
    BY <1>5, LookedLeavesTheServer, PushedEffect, LoggedLeavesThePictures DEF ModeEnds
  <2> QED
    BY <1>1, <2>1
<1>6. CASE BackupStarts \/ BackupCopies \/ (\E i \in Items : OperatorSetsLogo(i) \/ FactsMove(i))
           \/ (\E f \in Fields : OperatorSetsArt(f) \/ AgentRefresh(f))
  BY <1>1, <1>6 DEF BackupStarts, BackupCopies, OperatorSetsLogo, FactsMove, OperatorSetsArt, AgentRefresh
<1>7. CASE UNCHANGED artVars
  BY <1>1, <1>7 DEF artVars
<1> QED
  BY <1>2, <1>3, <1>4, <1>5, <1>6, <1>7, NextIsCovered DEF Served

-----------------------------------------------------------------------------
LEMMA SettledServed ==
  ASSUME ArtTypeOK, SettledHolds, IdleHolds, ModeArtSticks, Served
  PROVE  SettledHolds' /\ ModeArtSticks'
<1>0. ghost \in History /\ facts \in [Items -> Versions] /\ row \in [Items -> DeliveryRow]
      /\ pass \in Deliveries /\ retry \in Deliveries /\ ghost.settled \subseteq Items
  BY DEF ArtTypeOK, History
<1>1. ASSUME NEW i \in Items, PassStarts(i)
      PROVE  SettledHolds' /\ ModeArtSticks'
  <2>1. /\ ghost'.undone = ghost.undone
        /\ ghost'.settled = IF row'[i] # row[i] THEN ghost.settled \ {i} ELSE ghost.settled
    BY <1>0, <1>1 DEF PassStarts, History
  <2>2. UNCHANGED <<facts, retry>>
    BY <1>1 DEF PassStarts
  <2>3. /\ \A j \in Items \ {i} : row'[j] = row[j]
        /\ pass' = pass \/ (pass'.item = i /\ facts[i] # row[i].badge)
    <3>1. pass' = pass \/ (pass'.item = i /\ facts[i] # row[i].badge)
      <4>1. pass' = pass \/ (pass' = [Idle EXCEPT !.pc = "upload", !.item = i, !.data = facts[i]] /\ facts[i] # row[i].badge)
        <5>1. ComposeBadged(i)
          BY <1>1 DEF PassStarts
        <5> QED
          BY <5>1 DEF ComposeBadged
      <4>2. [Idle EXCEPT !.pc = "upload", !.item = i, !.data = facts[i]].item = i
        BY DEF Idle
      <4> QED
        BY <4>1, <4>2
    <3>2. row' = row \/ \E r : row' = [row EXCEPT ![i] = r]
      BY <1>1 DEF PassStarts, ComposeBadged
    <3> QED
      BY <1>0, <3>1, <3>2
  <2>4. ASSUME NEW j \in ghost'.settled
        PROVE  row'[j].status = "uploaded" /\ row'[j].badge = facts'[j] /\ pass'.item # j /\ retry'.item # j
    <3>1. j \in ghost.settled /\ j \in Items /\ row'[j] = row[j]
      BY <1>0, <2>1, <2>3
    <3> QED
      BY <2>2, <2>3, <3>1 DEF SettledHolds
  <2> QED
    BY <2>1, <2>4 DEF SettledHolds, ModeArtSticks
<1>2. ASSUME NEW i \in Items, RetryStarts(i)
      PROVE  SettledHolds' /\ ModeArtSticks'
  <2>1. ghost'.undone = ghost.undone /\ ghost'.settled = ghost.settled
    BY <1>0, <1>2 DEF RetryStarts, History
  <2>2. /\ UNCHANGED <<facts, row, pass>> /\ retry'.item = i
        /\ row[i].status = "pending"
    BY <1>2 DEF RetryStarts, Idle
  <2> QED
    BY <2>1, <2>2 DEF SettledHolds, ModeArtSticks
<1>3. CASE DeliverUpload \/ RetryUpload
  <2>1. PICK i \in Items : /\ \E v : ghost' = Delivered(i, v)
                           /\ i \in {pass.item, retry.item}
    BY <1>3 DEF DeliverUpload, RetryUpload, ArtTypeOK, Busy
  <2>2. i \notin ghost.settled
    BY <2>1 DEF SettledHolds
  <2>3. ghost'.undone = ghost.undone /\ ghost'.settled = ghost.settled
    BY <1>0, <2>1, <2>2, DeliveredTypes
  <2>4. UNCHANGED <<facts, row>> /\ pass'.item = pass.item /\ retry'.item = retry.item
    BY <1>0, <1>3 DEF DeliverUpload, RetryUpload, Deliveries
  <2> QED
    BY <2>3, <2>4 DEF SettledHolds, ModeArtSticks
<1>4. CASE DeliverRecord
  <2>1. ghost'.undone = ghost.undone /\ ghost'.settled = ghost.settled \ {pass.item}
    BY <1>0, <1>4 DEF DeliverRecord, History
  <2>2. \A j \in Items \ {pass.item} : row'[j] = row[j]
    BY <1>0, <1>4 DEF DeliverRecord
  <2>3. UNCHANGED <<facts, retry>> /\ pass'.item = 0
    BY <1>4 DEF DeliverRecord, Idle
  <2> QED
    BY <1>0, <2>1, <2>2, <2>3, ZeroIsNoItem DEF SettledHolds, ModeArtSticks
<1>5. CASE RetryRecord
  <2>1. ghost'.undone = ghost.undone /\ ghost'.settled = ghost.settled \ {retry.item}
    BY <1>0, <1>5 DEF RetryRecord, History
  <2>2. \A j \in Items \ {retry.item} : row'[j] = row[j]
    BY <1>0, <1>5 DEF RetryRecord
  <2>3. UNCHANGED <<facts, pass>> /\ retry'.item = 0
    BY <1>5 DEF RetryRecord, Idle
  <2> QED
    BY <1>0, <2>1, <2>2, <2>3, ZeroIsNoItem DEF SettledHolds, ModeArtSticks
<1>6. CASE BackupStarts \/ BackupCopies \/ \E i \in Items : OperatorSetsLogo(i)
  BY <1>6 DEF BackupStarts, BackupCopies, OperatorSetsLogo, SettledHolds, ModeArtSticks
<1>7. CASE \E f \in Fields : OperatorSetsArt(f) \/ AgentRefresh(f)
  <2>1. PICK f \in Fields : OperatorSetsArt(f) \/ AgentRefresh(f)
    BY <1>7
  <2>2. ghost'.undone = ghost.undone /\ ghost'.settled \subseteq ghost.settled
    BY <1>0, <2>1 DEF OperatorSetsArt, AgentRefresh, History
  <2>3. UNCHANGED <<facts, row, pass, retry>>
    BY <2>1 DEF OperatorSetsArt, AgentRefresh
  <2> QED
    BY <2>2, <2>3 DEF SettledHolds, ModeArtSticks
<1>8. ASSUME NEW i \in Items, FactsMove(i)
      PROVE  SettledHolds' /\ ModeArtSticks'
  <2>1. ghost'.undone = ghost.undone /\ ghost'.settled = ghost.settled \ {i}
    BY <1>0, <1>8 DEF FactsMove, History
  <2>2. UNCHANGED <<row, pass, retry>> /\ \A j \in Items \ {i} : facts'[j] = facts[j]
    BY <1>0, <1>8 DEF FactsMove
  <2> QED
    BY <1>0, <2>1, <2>2 DEF SettledHolds, ModeArtSticks
<1> QED
  BY <1>1, <1>2, <1>3, <1>4, <1>5, <1>6, <1>7, <1>8 DEF Served

LEMMA SettledKept ==
  ASSUME ArtTypeOK, SettledHolds, IdleHolds, FenceHolds, CapHolds, ModeArtSticks, [ArtNext]_artVars
  PROVE  SettledHolds' /\ ModeArtSticks'
<1>0. ghost \in History /\ ghost.settled \subseteq Items
  BY DEF ArtTypeOK, History
<1>1. CASE Looked
  BY <1>1, LookedLeavesTheServer DEF SettledHolds, ModeArtSticks
<1>2. CASE Pushed
  <2>1. PICK f \in NextFields :
            /\ run.pc = "apply" /\ f[1] \in Items
            /\ ghost'.undone = ghost.undone
            /\ ghost'.settled = IF art' # art /\ f[2] = "poster" /\ row[f[1]].status = "uploaded"
                                     /\ row[f[1]].badge = facts[f[1]] /\ retry.item # f[1]
                                  THEN ghost.settled \cup {f[1]} ELSE ghost.settled
            /\ UNCHANGED <<facts, row, pass, retry>>
    BY <1>2, PushedEffect
  <2>2. pass.item = 0
    BY <2>1 DEF CapHolds, FenceHolds, IdleHolds
  <2>3. f[1] # pass.item
    BY <2>1, <2>2, ZeroIsNoItem
  <2> QED
    BY <2>1, <2>3 DEF SettledHolds, ModeArtSticks
<1>3. CASE Logged
  BY <1>3, LoggedLeavesThePictures DEF SettledHolds, ModeArtSticks
<1>4. CASE ModeEnds \/ UNCHANGED artVars
  BY <1>4 DEF ModeEnds, artVars, SettledHolds, ModeArtSticks
<1>5. CASE Crash
  <2>1. \E T, n : ghost' = [ghost EXCEPT !.torn = T, !.excuses = n]
    BY <1>5 DEF Crash
  <2>2. ghost'.undone = ghost.undone /\ ghost'.settled = ghost.settled
    BY <1>0, <2>1 DEF History
  <2>3. UNCHANGED <<facts, row>> /\ pass'.item = 0 /\ retry'.item = 0
    BY <1>5 DEF Crash, Idle
  <2> QED
    BY <1>0, <2>2, <2>3, ZeroIsNoItem DEF SettledHolds, ModeArtSticks
<1> QED
  BY <1>1, <1>2, <1>3, <1>4, <1>5, SettledServed, NextIsCovered

-----------------------------------------------------------------------------
\* With nobody choosing artwork while a mode runs.
LEMMA ChoicesServed ==
  ASSUME ~OperatorDuringRuns, ArtTypeOK, ChoicesHold, Served
  PROVE  ChoicesHold'
<1>0. /\ run \in ModeRuns /\ RunTypeOK /\ keys \in Nat
      /\ logo \in [Items -> [by : {"nobody", "service", "operator"}, key : 0..keys]]
      /\ marker \in [Items -> 0..keys] /\ art \in [Items -> [Slot -> Pictures]]
  BY DEF ArtTypeOK, RunTypeOK
<1>1. /\ UNCHANGED <<run, marker>>
      /\ ghost'.trampled = ghost.trampled /\ ghost'.removed = ghost.removed
  BY ServedLeavesTheRun
<1>2. OperatorChoicesStand'
  BY <1>1 DEF ChoicesHold, OperatorChoicesStand
<1>3. logo' = logo \/ \E i \in Items : OperatorSetsLogo(i)
  BY DEF Served, PassStarts, RetryStarts, FactsMove, DeliverUpload, DeliverRecord,
     RetryUpload, RetryRecord, BackupStarts, BackupCopies, OperatorSetsArt, AgentRefresh
<1>4. CASE \E i \in Items : OperatorSetsLogo(i)
  <2>1. PICK i \in Items : OperatorSetsLogo(i)
    BY <1>4
  <2>2. /\ run.pc = "idle" /\ art' = art /\ keys' = keys + 1
        /\ logo' = [logo EXCEPT ![i] = [by |-> "operator", key |-> keys + 1]]
    BY <2>1 DEF OperatorSetsLogo, PersonMay
  <2>3. run'.plan = {}
    BY <1>1, <2>2 DEF ChoicesHold
  <2>4. logo'[i].key = keys + 1 /\ \A j \in Items \ {i} : logo'[j] = logo[j]
    BY <2>2, NewLogo
  <2>5. marker[i] # keys + 1
    BY <1>0
  <2>6. \A j \in Items : marker'[j] # 0 /\ logo'[j].key = marker'[j] => logo'[j].by # "operator"
    BY <1>1, <2>4, <2>5 DEF ChoicesHold
  <2> QED
    BY <1>1, <1>2, <2>3, <2>6 DEF ChoicesHold
<1>5. CASE logo' = logo
  <2>1. ASSUME run.mode = "reset", NEW f \in run.plan
        PROVE  art'[f[1]][f[2]].by # "operator"
    <3>1. run.pc # "idle" /\ art[f[1]][f[2]].by # "operator" /\ f[1] \in Items /\ f[2] \in Slot
      BY <1>0, <2>1, FieldsOfItems DEF ChoicesHold, RunTypeOK
    <3>2. art' = art \/ \E i \in Items, s \in Slot, p \in Pictures : p.by # "operator" /\ art' = [art EXCEPT ![i][s] = p]
      <4>1. CASE DeliverUpload
        <5>1. pass.item \in Items /\ "poster" \in Slot /\ Badged(pass.data) \in Pictures /\ Badged(pass.data).by # "operator"
          BY <4>1, PicturesDrawn DEF DeliverUpload, ArtTypeOK, Busy, Slot, Badged
        <5> QED
          BY <4>1, <5>1 DEF DeliverUpload, UploadArtwork, Shown
      <4>2. CASE RetryUpload
        <5>1. retry.item \in Items /\ "poster" \in Slot /\ Badged(retry.data) \in Pictures /\ Badged(retry.data).by # "operator"
          BY <4>2, PicturesDrawn DEF RetryUpload, ArtTypeOK, Busy, Slot, Badged
        <5> QED
          BY <4>2, <5>1 DEF RetryUpload, UploadArtwork, Shown
      <4>3. CASE \E g \in Fields : AgentRefresh(g)
        <5>1. PICK g \in Fields : art' = [art EXCEPT ![g[1]][g[2]] = AgentArt]
          BY <4>3 DEF AgentRefresh, Shown
        <5>2. g[1] \in Items /\ g[2] \in Slot /\ AgentArt \in Pictures /\ AgentArt.by # "operator"
          BY FieldsOfItems, PicturesDrawn DEF AgentArt
        <5> QED
          BY <5>1, <5>2
      <4>4. CASE \E g \in Fields : OperatorSetsArt(g)
        BY <3>1, <4>4 DEF OperatorSetsArt, PersonMay
      <4> QED
        BY <4>1, <4>2, <4>3, <4>4 DEF Served, PassStarts, RetryStarts, FactsMove, DeliverRecord,
           RetryRecord, BackupStarts, BackupCopies, OperatorSetsLogo
    <3>3. CASE art' = art
      BY <3>1, <3>3
    <3>4. ASSUME NEW i \in Items, NEW s \in Slot, NEW p \in Pictures, p.by # "operator",
                 art' = [art EXCEPT ![i][s] = p]
          PROVE  art'[f[1]][f[2]].by # "operator"
      <4>1. art[i] \in [Slot -> Pictures] /\ art[f[1]] \in [Slot -> Pictures]
        BY <1>0, <3>1
      <4>2. art'[f[1]][f[2]] = IF f[1] = i /\ f[2] = s THEN p ELSE art[f[1]][f[2]]
        BY <1>0, <3>1, <3>4, <4>1
      <4> QED
        BY <3>1, <3>4, <4>2
    <3> QED
      BY <3>2, <3>3, <3>4
  <2> QED
    BY <1>1, <1>2, <1>5, <2>1 DEF ChoicesHold
<1> QED
  BY <1>3, <1>4, <1>5

\* What a probe puts on a reset's or a logo run's plan is nobody's choice.
LEMMA ProbesSpareChoices ==
  ASSUME ArtTypeOK, ChoicesHold, NEW i \in Items, NEW f \in Probed(i)
  PROVE  /\ run.mode = "reset" => art[f[1]][f[2]].by # "operator"
         /\ run.mode \in {"logo", "logo_revert"} => logo[f[1]].by # "operator"
<1>1. PICK s \in Plan(run.mode, i) : f = <<i, s>>
  BY DEF Probed
<1>2. ASSUME run.mode = "reset" PROVE art[f[1]][f[2]].by # "operator"
  <2>1. s \in Slots[i] /\ art[i][s].stamp # 0
    BY <1>1, <1>2 DEF Plan, ResetPlan
  <2>2. art[i][s] \in Pictures
    BY <2>1, ServerArtAssumption DEF ArtTypeOK, Slot
  <2> QED
    BY <1>1, <2>1, <2>2, PicturesDrawn
<1>3. ASSUME run.mode = "logo" PROVE logo[f[1]].by # "operator"
  <2>1. logo[i] = NoLogo
    BY <1>1, <1>3 DEF Plan, LogoPlan
  <2> QED
    BY <1>1, <2>1 DEF NoLogo
<1>4. ASSUME run.mode = "logo_revert" PROVE logo[f[1]].by # "operator"
  <2>1. marker[i] # 0 /\ logo[i].key = marker[i]
    BY <1>1, <1>4 DEF Plan, LogoRevertPlan
  <2> QED
    BY <1>1, <2>1 DEF ChoicesHold
<1> QED
  BY <1>2, <1>3, <1>4

LEMMA ChoicesLooked ==
  ASSUME ArtTypeOK, ChoicesHold, Looked
  PROVE  ChoicesHold'
<1>0. run \in ModeRuns
  BY DEF ArtTypeOK, RunTypeOK
<1>1. /\ UNCHANGED <<art, logo, marker>>
      /\ ghost'.trampled = ghost.trampled /\ ghost'.removed = ghost.removed
  BY LookedLeavesTheServer
<1>2. OperatorChoicesStand'
  BY <1>1 DEF ChoicesHold, OperatorChoicesStand
<1>3. CASE run'.plan = {}
  BY <1>1, <1>2, <1>3 DEF ChoicesHold
<1>4. CASE run'.mode = run.mode /\ run'.plan = run.plan /\ run'.pc # "idle"
  BY <1>1, <1>2, <1>4 DEF ChoicesHold
<1>5. CASE Probes
  <2>1. run.at \in Items /\ run'.pc = "probe" /\ run'.mode = run.mode
    BY <1>0, <1>5 DEF Probes, ModeRuns
  <2>2. run'.plan \subseteq run.plan \cup Probed(run.at)
    BY <1>0, <1>5 DEF Probes, ModeRuns
  <2>3. ASSUME NEW f \in run'.plan
        PROVE  /\ run.mode = "reset" => art[f[1]][f[2]].by # "operator"
               /\ run.mode \in {"logo", "logo_revert"} => logo[f[1]].by # "operator"
    <3>1. CASE f \in run.plan
      BY <3>1 DEF ChoicesHold
    <3>2. CASE f \in Probed(run.at)
      BY <2>1, <3>2, ProbesSpareChoices
    <3> QED
      BY <2>2, <3>1, <3>2
  <2> QED
    BY <1>1, <1>2, <2>1, <2>3 DEF ChoicesHold
<1>6. CASE \E m \in Modes, apply \in BOOLEAN : ModeStarts(m, apply)
  BY <1>3, <1>6 DEF ModeStarts, NoRun
<1>7. CASE Drains
  <2>1. run'.mode = run.mode /\ run'.plan = run.plan /\ run'.pc # "idle"
    BY <1>0, <1>7 DEF Drains, ModeRuns
  <2> QED
    BY <1>4, <2>1
<1>8. CASE ProbeEnds
  <2>1. run'.plan = {} \/ (run'.mode = run.mode /\ run'.plan = run.plan /\ run'.pc # "idle")
    <3>1. run' = NoRun \/ run' = [run EXCEPT !.pc = "apply", !.at = 1]
      BY <1>8 DEF ProbeEnds
    <3>2. NoRun.plan = {}
      BY DEF NoRun
    <3>3. CASE run' = [run EXCEPT !.pc = "apply", !.at = 1]
      BY <1>0, <3>3 DEF ModeRuns
    <3>4. CASE run' = NoRun
      BY <3>2, <3>4
    <3> QED
      BY <3>1, <3>3, <3>4
  <2> QED
    BY <1>3, <1>4, <2>1
<1> QED
  BY <1>5, <1>6, <1>7, <1>8 DEF Looked

LEMMA ChoicesPushed ==
  ASSUME ArtTypeOK, ChoicesHold, Pushed
  PROVE  ChoicesHold'
<1>0. art \in [Items -> [Slot -> Pictures]] /\ RunTypeOK
  BY DEF ArtTypeOK
<1>1. PICK f \in NextFields :
            /\ run.mode \in {"restore", "revert", "reset"} /\ run.pc = "apply"
            /\ f \in run.plan /\ f[1] \in Items /\ f[2] \in Slot
            /\ run'.plan = run.plan \ {f} /\ run'.mode = run.mode /\ run'.pc = run.pc
            /\ run.mode = "reset" => art' = art \/ art' = [art EXCEPT ![f[1]][f[2]] = AgentArt]
            /\ ghost'.removed = ghost.removed
            /\ ghost'.trampled = IF run.mode = "reset" /\ art' # art /\ art[f[1]][f[2]].by = "operator"
                                 THEN ghost.trampled \cup {f} ELSE ghost.trampled
            /\ UNCHANGED <<logo, marker>>
  BY PushedEffect
<1>2. ghost'.trampled = ghost.trampled
  BY <1>1 DEF ChoicesHold
<1>3. OperatorChoicesStand'
  BY <1>1, <1>2 DEF ChoicesHold, OperatorChoicesStand
<1>4. ASSUME run.mode = "reset", NEW g \in run'.plan
      PROVE  art'[g[1]][g[2]].by # "operator"
  <2>1. g \in run.plan /\ g[1] \in Items /\ g[2] \in Slot /\ art[g[1]][g[2]].by # "operator"
    BY <1>0, <1>1, <1>4, FieldsOfItems DEF RunTypeOK, ChoicesHold
  <2>2. art[f[1]] \in [Slot -> Pictures] /\ art[g[1]] \in [Slot -> Pictures]
    BY <1>0, <1>1, <2>1
  <2>3. CASE art' = [art EXCEPT ![f[1]][f[2]] = AgentArt]
    <3>1. art'[g[1]][g[2]] = IF g[1] = f[1] /\ g[2] = f[2] THEN AgentArt ELSE art[g[1]][g[2]]
      BY <1>0, <1>1, <2>1, <2>2, <2>3
    <3> QED
      BY <2>1, <3>1 DEF AgentArt
  <2> QED
    BY <1>1, <1>4, <2>1, <2>3
<1> QED
  BY <1>1, <1>3, <1>4 DEF ChoicesHold

LEMMA ChoicesLogged ==
  ASSUME ArtTypeOK, ChoicesHold, Logged
  PROVE  ChoicesHold'
<1>0. /\ RunTypeOK /\ run \in ModeRuns /\ keys \in Nat
      /\ logo \in [Items -> [by : {"nobody", "service", "operator"}, key : 0..keys]]
      /\ marker \in [Items -> 0..keys]
  BY DEF ArtTypeOK, RunTypeOK
<1>1. /\ art' = art /\ run'.mode = run.mode /\ run'.pc = run.pc /\ run.pc = "apply"
      /\ run.mode \in {"logo", "logo_revert"} /\ run'.plan \subseteq run.plan
  BY LoggedLeavesThePictures
<1>2. \A f \in run.plan : f[1] \in Items /\ logo[f[1]].by # "operator"
  BY <1>0, <1>1 DEF ChoicesHold, ModeRuns
<1>3. CASE LogoMarks
  <2>1. PICK f \in NextFields :
           /\ f[1] \in Items
           /\ \/ marker' = [marker EXCEPT ![f[1]] = logo[f[1]].key]
              \/ marker' = marker
           /\ ghost'.trampled = ghost.trampled /\ ghost'.removed = ghost.removed
           /\ logo' = logo
    BY <1>3, LogoMarksShows
  <2>2. f \in run.plan
    BY DEF NextFields
  <2>3. \A i \in Items : marker'[i] # 0 /\ logo'[i].key = marker'[i] => logo'[i].by # "operator"
    BY <1>0, <1>2, <2>1, <2>2 DEF ChoicesHold
  <2> QED
    BY <1>1, <1>2, <2>1, <2>3 DEF ChoicesHold, OperatorChoicesStand
<1>4. CASE LogoClears
  <2>1. PICK f \in NextFields :
           /\ f[1] \in Items
           /\ \/ logo' = logo
              \/ logo' = [logo EXCEPT ![f[1]] = NoLogo]
           /\ ghost'.trampled = ghost.trampled
           /\ logo[f[1]].by # "operator" => ghost'.removed = ghost.removed
           /\ marker' = marker
    BY <1>4, LogoClearsShows
  <2>2. f \in run.plan
    BY DEF NextFields
  <2>3. \A i \in Items : logo'[i] = logo[i] \/ logo'[i] = NoLogo
    BY <1>0, <2>1
  <2>4. NoLogo.by # "operator"
    BY DEF NoLogo
  <2>5. \A i \in Items : marker'[i] # 0 /\ logo'[i].key = marker'[i] => logo'[i].by # "operator"
    BY <2>1, <2>3, <2>4 DEF ChoicesHold
  <2>6. \A g \in run'.plan : logo'[g[1]].by # "operator"
    BY <1>1, <1>2, <2>3, <2>4
  <2>7. OperatorChoicesStand'
    BY <1>2, <2>1, <2>2 DEF ChoicesHold, OperatorChoicesStand
  <2> QED
    BY <1>1, <2>5, <2>6, <2>7 DEF ChoicesHold
<1>5. CASE LogoUploads
  <2>1. PICK f \in NextFields :
           /\ run.pc = "apply" /\ run.mode = "logo" /\ run.key = 0 /\ f[1] \in Items
           /\ \/ /\ Done(f)
                 /\ UNCHANGED <<logo, keys, ghost>>
              \/ /\ keys' = keys + 1
                 /\ logo' = [logo EXCEPT ![f[1]] = [by |-> "service", key |-> keys + 1]]
                 /\ run' = [run EXCEPT !.key = keys + 1]
                 /\ ghost' = [Wrote(f) EXCEPT !.trampled =
                                 IF logo[f[1]].by = "operator" THEN @ \cup {f} ELSE @]
           /\ UNCHANGED <<facts, row, art, locked, agent, marker, tree, pass, retry, copy, budget>>
    BY <1>5, LogoUploadsEffect
  <2>2. f \in run.plan
    BY DEF NextFields
  <2>3. ghost'.trampled = ghost.trampled /\ ghost'.removed = ghost.removed
    <3>1. CASE UNCHANGED ghost
      BY <3>1
    <3>2. CASE ~UNCHANGED ghost
      BY <1>2, <2>1, <2>2, <3>2, LogoUploadsShows
    <3> QED
      BY <3>1, <3>2
  <2>4. \A i \in Items : logo'[i] = logo[i] \/ logo'[i].by = "service"
    BY <1>0, <2>1
  <2>5. \A i \in Items : marker'[i] # 0 /\ logo'[i].key = marker'[i] => logo'[i].by # "operator"
    BY <2>1, <2>4 DEF ChoicesHold
  <2>6. \A g \in run'.plan : logo'[g[1]].by # "operator"
    BY <1>1, <1>2, <2>4
  <2> QED
    BY <1>1, <2>3, <2>5, <2>6 DEF ChoicesHold, OperatorChoicesStand
<1> QED
  BY <1>3, <1>4, <1>5 DEF Logged

LEMMA ChoicesKept ==
  ASSUME ~OperatorDuringRuns, ArtTypeOK, ChoicesHold, [ArtNext]_artVars
  PROVE  ChoicesHold'
<1>0. ghost \in History /\ marker \in [Items -> 0..keys]
  BY DEF ArtTypeOK
<1>1. CASE ModeEnds
  <2>1. /\ run' = NoRun /\ UNCHANGED <<art, logo, ghost>>
        /\ \A i \in Items : marker'[i] = 0 \/ marker'[i] = marker[i]
    BY <1>1 DEF ModeEnds
  <2>2. run'.plan = {}
    BY <2>1 DEF NoRun
  <2> QED
    BY <2>1, <2>2 DEF ChoicesHold, OperatorChoicesStand
<1>2. CASE Crash
  <2>1. run' = NoRun /\ UNCHANGED <<art, logo, marker>>
    BY <1>2 DEF Crash
  <2>2. \E T, n : ghost' = [ghost EXCEPT !.torn = T, !.excuses = n]
    BY <1>2 DEF Crash
  <2>3. ghost'.trampled = ghost.trampled /\ ghost'.removed = ghost.removed
    BY <1>0, <2>2 DEF History
  <2>4. run'.plan = {}
    BY <2>1 DEF NoRun
  <2> QED
    BY <2>1, <2>3, <2>4 DEF ChoicesHold, OperatorChoicesStand
<1>3. CASE UNCHANGED artVars
  BY <1>3 DEF artVars, ChoicesHold, OperatorChoicesStand
<1> QED
  BY <1>1, <1>2, <1>3, ChoicesServed, ChoicesLooked, ChoicesPushed, ChoicesLogged, NextIsCovered

-----------------------------------------------------------------------------
LEMMA CurrentIsOne ==
  ASSUME ArtTypeOK
  PROVE  /\ \A f \in NextFields : Current \subseteq {f[1]}
         /\ \E x : Current \subseteq {x}
<1>1. \A f \in NextFields : f \in run.plan /\ f[1] \in Nat
  BY NextFieldTyped, ServerArtAssumption DEF ArtTypeOK
<1>2. \A f, g \in NextFields : f[1] <= g[1] /\ g[1] <= f[1]
  BY <1>1 DEF NextFields
<1>3. \A f, g \in NextFields : f[1] = g[1]
  BY <1>1, <1>2
<1>4. \A f \in NextFields : Current \subseteq {f[1]}
  BY <1>3 DEF Current
<1>5. CASE NextFields = {}
  BY <1>5 DEF Current
<1>6. CASE NextFields # {}
  BY <1>4, <1>6
<1> QED
  BY <1>4, <1>5, <1>6

LEMMA UnclaimedAreItems == Unclaimed \in SUBSET Items
  BY DEF Unclaimed

\* A step that strands no further logo keeps the count.
LEMMA NoneStranded ==
  ASSUME ArtTypeOK, MarkersHold, ghost'.excuses = ghost.excuses,
         Unclaimed' \ Current' \subseteq Unclaimed \ Current
  PROVE  Cardinality(Unclaimed' \ Current') <= ghost'.excuses
<1>1. ghost.excuses \in Nat
  BY DEF ArtTypeOK, History
<1>2. Unclaimed \ Current \in SUBSET Items
  BY UnclaimedAreItems
<1>3. /\ Cardinality(Unclaimed' \ Current') <= Cardinality(Unclaimed \ Current)
      /\ Cardinality(Unclaimed' \ Current') \in Nat /\ Cardinality(Unclaimed \ Current) \in Nat
  BY <1>2, FewerItems
<1> QED
  BY <1>1, <1>3 DEF MarkersHold

\* The logo in hand may be the one more that an interruption strands.
LEMMA OneStranded ==
  ASSUME ArtTypeOK, MarkersHold
  PROVE  /\ Cardinality(Unclaimed) <= ghost.excuses + 1
         /\ run.key = 0 => Cardinality(Unclaimed) <= ghost.excuses
<1>1. ghost.excuses \in Nat
  BY DEF ArtTypeOK, History
<1>2. PICK x : Current \subseteq {x}
  BY CurrentIsOne
<1>3. IsFiniteSet(Unclaimed \ Current) /\ IsFiniteSet(Unclaimed)
  BY UnclaimedAreItems, FewerItems
<1>4. PICK S : S = Unclaimed \ Current
  OBVIOUS
<1>5. /\ IsFiniteSet(S \cup {x}) /\ Cardinality(S) \in Nat
      /\ Cardinality(S \cup {x}) = IF x \in S THEN Cardinality(S) ELSE Cardinality(S) + 1
  BY <1>3, <1>4, FS_AddElement, FS_CardinalityType
<1>6. Unclaimed \in SUBSET (S \cup {x})
  BY <1>2, <1>4
<1>7. Cardinality(Unclaimed) <= Cardinality(S \cup {x}) /\ Cardinality(Unclaimed) \in Nat
  BY <1>3, <1>5, <1>6, FS_Subset, FS_CardinalityType
<1>8. Cardinality(S) <= ghost.excuses
  BY <1>4 DEF MarkersHold
<1>9. run.key = 0 => Unclaimed = S
  BY <1>4 DEF Current
<1> QED
  BY <1>1, <1>5, <1>7, <1>8, <1>9

LEMMA MarkersLooked ==
  ASSUME ArtTypeOK, MarkersHold, Looked
  PROVE  MarkersHold'
<1>0. run \in ModeRuns
  BY DEF ArtTypeOK, RunTypeOK
<1>1. UNCHANGED <<logo, marker>> /\ ghost'.excuses = ghost.excuses
  BY LookedLeavesTheServer
<1>2. /\ run.key = 0 /\ run'.key = 0
      /\ run'.unsaved = {} \/ (run'.unsaved = run.unsaved /\ run'.mode = run.mode)
  <2>1. CASE \E m \in Modes, apply \in BOOLEAN : ModeStarts(m, apply)
    BY <2>1 DEF ModeStarts, NoRun, MarkersHold
  <2>2. CASE Drains
    BY <1>0, <2>2 DEF Drains, ModeRuns, MarkersHold
  <2>3. CASE Probes
    BY <1>0, <2>3 DEF Probes, ModeRuns, MarkersHold
  <2>4. CASE ProbeEnds
    <3>1. run.key = 0
      BY <2>4 DEF ProbeEnds, MarkersHold
    <3>2. CASE run' = NoRun
      BY <3>1, <3>2 DEF NoRun
    <3>3. CASE run' = [run EXCEPT !.pc = "apply", !.at = 1]
      BY <1>0, <3>1, <3>3 DEF ModeRuns
    <3> QED
      BY <2>4, <3>2, <3>3 DEF ProbeEnds
  <2> QED
    BY <2>1, <2>2, <2>3, <2>4 DEF Looked
<1>3. Unclaimed' \ Current' \subseteq Unclaimed \ Current
  BY <1>1, <1>2 DEF Unclaimed, Current
<1> QED
  BY <1>1, <1>2, <1>3, NoneStranded DEF MarkersHold

LEMMA MarkersLogged ==
  ASSUME ArtTypeOK, MarkersHold, Logged
  PROVE  MarkersHold'
<1>0. /\ RunTypeOK /\ keys \in Nat /\ ghost.excuses \in Nat
      /\ logo \in [Items -> [by : {"nobody", "service", "operator"}, key : 0..keys]]
      /\ marker \in [Items -> 0..keys]
  BY DEF ArtTypeOK, History
<1>1. CASE LogoMarks
  <2>1. PICK f \in NextFields :
           /\ run.mode = "logo" /\ run.key # 0 /\ run.pc = "apply" /\ f[1] \in Items
           /\ run'.mode = run.mode /\ run'.key = 0 /\ run'.unsaved = run.unsaved
           /\ \/ marker' = [marker EXCEPT ![f[1]] = logo[f[1]].key] /\ ghost'.excuses = ghost.excuses
              \/ marker' = marker /\ ghost'.excuses = ghost.excuses + 1
           /\ logo' = logo
    BY <1>1, LogoMarksShows
  <2>2. Current = {f[1]} /\ Current' = {}
    BY <2>1, CurrentIsOne DEF Current
  <2>3. CASE marker' = [marker EXCEPT ![f[1]] = logo[f[1]].key] /\ ghost'.excuses = ghost.excuses
    <3>1. Unclaimed' \ Current' \subseteq Unclaimed \ Current
      BY <1>0, <2>1, <2>2, <2>3 DEF Unclaimed
    <3> QED
      BY <2>1, <2>3, <3>1, NoneStranded DEF MarkersHold
  <2>4. CASE marker' = marker /\ ghost'.excuses = ghost.excuses + 1
    <3>1. Unclaimed' \ Current' = Unclaimed
      BY <2>1, <2>2, <2>4 DEF Unclaimed
    <3>2. Cardinality(Unclaimed' \ Current') <= ghost'.excuses
      BY <2>4, <3>1, OneStranded
    <3> QED
      BY <2>1, <3>2 DEF MarkersHold
  <2> QED
    BY <2>1, <2>3, <2>4
<1>2. CASE LogoClears
  <2>1. PICK f \in NextFields :
           /\ run.mode = "logo_revert" /\ f[1] \in Items
           /\ run'.mode = run.mode /\ run'.key = run.key
           /\ \/ logo' = logo /\ run'.unsaved = run.unsaved
              \/ logo' = [logo EXCEPT ![f[1]] = NoLogo] /\ run'.unsaved = run.unsaved \cup {f[1]}
           /\ ghost'.excuses = ghost.excuses /\ marker' = marker
    BY <1>2, LogoClearsShows
  <2>2. run.key = 0 /\ run'.key = 0
    BY <2>1 DEF MarkersHold
  <2>3. \A i \in Items : logo'[i] = logo[i] \/ logo'[i] = NoLogo
    BY <1>0, <2>1
  <2>4. Unclaimed' \ Current' \subseteq Unclaimed \ Current
    BY <2>1, <2>2, <2>3 DEF Unclaimed, Current, NoLogo
  <2>5. \A i \in run'.unsaved : logo'[i].by # "service"
    <3>1. run.unsaved \subseteq Items
      BY <1>0 DEF RunTypeOK, ModeRuns
    <3>2. logo' = [logo EXCEPT ![f[1]] = NoLogo] => logo'[f[1]] = NoLogo
      BY <1>0, <2>1
    <3> QED
      BY <2>1, <2>3, <3>1, <3>2 DEF MarkersHold, NoLogo
  <2> QED
    BY <2>1, <2>2, <2>4, <2>5, NoneStranded DEF MarkersHold
<1>3. CASE LogoUploads
  <2>1. PICK f \in NextFields :
           /\ run.pc = "apply" /\ run.mode = "logo" /\ run.key = 0 /\ f[1] \in Items
           /\ \/ /\ Done(f)
                 /\ UNCHANGED <<logo, keys, ghost>>
              \/ /\ keys' = keys + 1
                 /\ logo' = [logo EXCEPT ![f[1]] = [by |-> "service", key |-> keys + 1]]
                 /\ run' = [run EXCEPT !.key = keys + 1]
                 /\ ghost' = [Wrote(f) EXCEPT !.trampled =
                                 IF logo[f[1]].by = "operator" THEN @ \cup {f} ELSE @]
           /\ UNCHANGED <<facts, row, art, locked, agent, marker, tree, pass, retry, copy, budget>>
    BY <1>3, LogoUploadsEffect
  <2>2. run.unsaved = {}
    BY <2>1 DEF MarkersHold
  <2>3. CASE Done(f) /\ UNCHANGED <<logo, keys, ghost>>
    <3>1. run'.key = 0 /\ run'.unsaved = {}
      BY <1>0, <2>1, <2>2, <2>3, RunWithout
    <3>2. Unclaimed' \ Current' \subseteq Unclaimed \ Current
      BY <2>1, <2>3, <3>1 DEF Unclaimed, Current
    <3> QED
      BY <2>3, <3>1, <3>2, NoneStranded DEF MarkersHold
  <2>4. CASE /\ keys' = keys + 1
             /\ logo' = [logo EXCEPT ![f[1]] = [by |-> "service", key |-> keys + 1]]
             /\ run' = [run EXCEPT !.key = keys + 1]
             /\ ghost' = [Wrote(f) EXCEPT !.trampled =
                             IF logo[f[1]].by = "operator" THEN @ \cup {f} ELSE @]
    <3>1. /\ run'.mode = run.mode /\ run'.pc = run.pc
          /\ run'.plan = run.plan /\ run'.key # 0 /\ run'.unsaved = run.unsaved
          /\ ghost'.excuses = ghost.excuses
      BY <2>1, <2>4, LogoUploadsShows
    <3>2. f[1] \in Current' /\ Current = {}
      BY <2>1, <3>1 DEF Current, NextFields
    <3>3. Unclaimed' \ Current' \subseteq Unclaimed \ Current
      BY <1>0, <2>1, <2>4, <3>2 DEF Unclaimed
    <3> QED
      BY <2>1, <2>2, <3>1, <3>3, NoneStranded DEF MarkersHold
  <2> QED
    BY <2>1, <2>3, <2>4
<1> QED
  BY <1>1, <1>2, <1>3 DEF Logged

LEMMA MarkersKept ==
  ASSUME ArtTypeOK, MarkersHold, [ArtNext]_artVars
  PROVE  MarkersHold'
<1>0. /\ run \in ModeRuns /\ ghost \in History
      /\ logo \in [Items -> [by : {"nobody", "service", "operator"}, key : 0..keys]]
      /\ marker \in [Items -> 0..keys]
  BY DEF ArtTypeOK, RunTypeOK
<1>1. CASE Served
  <2>1. UNCHANGED <<run, marker>> /\ ghost'.excuses = ghost.excuses
    BY <1>1, ServedLeavesTheRun
  <2>2. \A i \in Items : logo'[i] = logo[i] \/ logo'[i].by = "operator"
    <3>1. logo' = logo \/ \E i \in Items : OperatorSetsLogo(i)
      BY <1>1 DEF Served, PassStarts, RetryStarts, FactsMove, DeliverUpload, DeliverRecord,
         RetryUpload, RetryRecord, BackupStarts, BackupCopies, OperatorSetsArt, AgentRefresh
    <3>2. ASSUME NEW i \in Items, OperatorSetsLogo(i)
          PROVE  logo'[i].by = "operator" /\ \A j \in Items \ {i} : logo'[j] = logo[j]
      BY <3>2, NewLogo DEF OperatorSetsLogo
    <3> QED
      BY <3>1, <3>2
  <2>3. Unclaimed' \ Current' \subseteq Unclaimed \ Current
    BY <2>1, <2>2 DEF Unclaimed, Current, NextFields
  <2>4. \A i \in run.unsaved : logo'[i].by # "service"
    <3>1. run.unsaved \subseteq Items
      BY <1>0 DEF ModeRuns
    <3> QED
      BY <2>2, <3>1 DEF MarkersHold
  <2> QED
    BY <2>1, <2>3, <2>4, NoneStranded DEF MarkersHold
<1>2. CASE Pushed
  <2>1. /\ run'.mode = run.mode /\ run'.key = run.key /\ run'.unsaved = run.unsaved
        /\ run.mode \in {"restore", "revert", "reset"}
        /\ UNCHANGED <<logo, marker>> /\ ghost'.excuses = ghost.excuses
    BY <1>2, PushedEffect
  <2>2. run.key = 0
    BY <2>1 DEF MarkersHold
  <2>3. Unclaimed' \ Current' \subseteq Unclaimed \ Current
    BY <2>1, <2>2 DEF Unclaimed, Current
  <2> QED
    BY <2>1, <2>2, <2>3, NoneStranded DEF MarkersHold
<1>3. CASE ModeEnds
  <2>1. /\ run' = NoRun /\ UNCHANGED <<logo, ghost>> /\ run.plan = {}
        /\ \A i \in Items : marker'[i] = IF i \in run.unsaved THEN 0 ELSE marker[i]
    BY <1>3 DEF ModeEnds
  <2>2. Current = {} /\ Current' = {} /\ run'.key = 0 /\ run'.unsaved = {}
    BY <2>1 DEF Current, NextFields, NoRun
  <2>3. Unclaimed' \ Current' \subseteq Unclaimed \ Current
    BY <2>1, <2>2 DEF Unclaimed, MarkersHold
  <2> QED
    BY <2>1, <2>2, <2>3, NoneStranded DEF MarkersHold
<1>4. CASE Crash
  <2>1. run' = NoRun /\ UNCHANGED <<logo, marker>>
    BY <1>4 DEF Crash
  <2>2. run'.key = 0 /\ run'.unsaved = {}
    BY <2>1 DEF NoRun
  <2>3. ghost'.excuses = IF run.key # 0 THEN ghost.excuses + 1 ELSE ghost.excuses
    <3>1. PICK T : ghost' = [ghost EXCEPT !.torn = T, !.excuses = IF run.key # 0 THEN @ + 1 ELSE @]
      BY <1>4 DEF Crash
    <3> QED
      BY <1>0, <3>1 DEF History
  <2>4. Unclaimed' \ Current' = Unclaimed
    BY <2>1, <2>2 DEF Unclaimed, Current
  <2>5. Cardinality(Unclaimed' \ Current') <= ghost'.excuses
    BY <2>3, <2>4, OneStranded
  <2> QED
    BY <2>2, <2>5 DEF MarkersHold
<1>5. CASE UNCHANGED artVars
  <2>1. UNCHANGED <<run, logo, marker, ghost>>
    BY <1>5 DEF artVars
  <2>2. Unclaimed' \ Current' = Unclaimed \ Current
    BY <2>1 DEF Unclaimed, Current, NextFields
  <2> QED
    BY <2>1, <2>2 DEF MarkersHold
<1> QED
  BY <1>1, <1>2, <1>3, <1>4, <1>5, MarkersLooked, MarkersLogged, NextIsCovered

-----------------------------------------------------------------------------
\* The rows of an item no delivery touches stay true.
LEMMA TruthPassStarts ==
  ASSUME ArtTypeOK, TruthHolds, NEW i \in Items, PassStarts(i)
  PROVE  TruthHolds'
<1>0. ghost \in History /\ row \in [Items -> DeliveryRow] /\ pass.pc = "idle"
  BY DEF ArtTypeOK, PassStarts
<1>1. /\ ghost'.foreign = ghost.foreign
      /\ ghost'.torn = IF retry.item = i /\ pass'.pc # "idle" THEN ghost.torn \cup {i} ELSE ghost.torn
      /\ UNCHANGED <<art, retry>>
  BY <1>0 DEF PassStarts, History
<1>2. \/ row' = [row EXCEPT ![i].status = IF @ \in {"none", "pending", "failed"} THEN "pending" ELSE @] /\ pass' = pass
      \/ row' = [row EXCEPT ![i] = [badge |-> facts[i], status |-> "uploaded", print |-> facts[i]]]
         /\ AlreadyDelivered(i, facts[i]) /\ pass' = pass
      \/ row' = row /\ pass' = [Idle EXCEPT !.pc = "upload", !.item = i, !.data = facts[i]]
  BY DEF PassStarts, ComposeBadged
<1>3. /\ ~Recording(pass, i) /\ \A j \in Items : ~Recording(pass', j)
      /\ pass' = pass \/ (pass'.item = i /\ pass'.pc # "idle")
  BY <1>0, <1>2 DEF Recording, Idle
<1>4. ASSUME NEW j \in Items
      PROVE  row'[j].status = "uploaded" => \/ row[j].status = "uploaded" /\ row'[j].print = row[j].print
                                            \/ art[j]["poster"].stamp = row'[j].print
  <2>1. CASE row' = [row EXCEPT ![i].status = IF @ \in {"none", "pending", "failed"} THEN "pending" ELSE @]
    BY <1>0, <2>1 DEF DeliveryRow
  <2>2. CASE /\ row' = [row EXCEPT ![i] = [badge |-> facts[i], status |-> "uploaded", print |-> facts[i]]]
             /\ AlreadyDelivered(i, facts[i])
    BY <1>0, <2>2 DEF AlreadyDelivered
  <2> QED
    BY <1>2, <2>1, <2>2
<1>5. \A j \in Items : pass'.item = j /\ retry'.item = j => j \in ghost'.torn
  BY <1>1, <1>3 DEF TruthHolds
<1> QED
  BY <1>0, <1>1, <1>3, <1>4, <1>5 DEF TruthHolds, Recording

LEMMA TruthRetryStarts ==
  ASSUME ArtTypeOK, TruthHolds, NEW i \in Items, RetryStarts(i)
  PROVE  TruthHolds'
<1>0. ghost \in History
  BY DEF ArtTypeOK
<1>1. /\ ghost'.foreign = ghost.foreign
      /\ ghost'.torn = IF pass.item = i THEN ghost.torn \cup {i} ELSE ghost.torn
  BY <1>0 DEF RetryStarts, History
<1>2. UNCHANGED <<art, row, pass>> /\ retry.pc = "idle" /\ retry'.pc = "upload" /\ retry'.item = i
  BY DEF RetryStarts, Idle
<1> QED
  BY <1>1, <1>2 DEF TruthHolds, Recording

\* Both uploads: the delivery, its item and its stamp.
LEMMA TruthUpload ==
  ASSUME ArtTypeOK, TruthHolds, DeliverUpload \/ RetryUpload
  PROVE  TruthHolds'
<1>0. /\ ghost \in History /\ pass \in Deliveries /\ retry \in Deliveries
      /\ art \in [Items -> [Slot -> Pictures]] /\ locked \subseteq Fields
  BY DEF ArtTypeOK
<1>1. CASE DeliverUpload
  <2>1. pass.item \in Items /\ pass.data \in Versions /\ "poster" \in Slots[pass.item]
        /\ Badged(pass.data) \in Pictures
    BY <1>1, PicturesDrawn, ServerArtAssumption DEF ArtTypeOK, Busy, DeliverUpload
  <2>2. PICK ok \in BOOLEAN : /\ UploadArtwork(pass.item, "poster", Badged(pass.data), ok)
                              /\ pass' = [pass EXCEPT !.pc = "record", !.ok = ok]
    BY <1>1 DEF DeliverUpload
  <2>3. /\ \A j \in Items \ {pass.item} : art'[j] = art[j]
        /\ ok => art'[pass.item]["poster"] = Badged(pass.data)
    BY <1>0, <2>1, <2>2, UploadEffect
  <2>4. /\ ghost'.torn = ghost.torn
        /\ ghost'.foreign = IF art' # art THEN ghost.foreign \ {pass.item} ELSE ghost.foreign
        /\ UNCHANGED <<row, retry>>
    BY <1>0, <1>1, <2>1, DeliveredTypes DEF DeliverUpload
  <2>5. pass'.pc = "record" /\ pass'.item = pass.item /\ pass'.data = pass.data /\ pass'.ok = ok
    BY <1>0, <2>2 DEF Deliveries
  <2>6. ASSUME NEW j \in Items \ (ghost'.torn \cup ghost'.foreign)
        PROVE  /\ row'[j].status = "uploaded" /\ ~Recording(pass', j) /\ ~Recording(retry', j)
                     => art'[j]["poster"].stamp = row'[j].print
               /\ Recording(pass', j) /\ pass'.ok => art'[j]["poster"].stamp = pass'.data
               /\ Recording(retry', j) /\ retry'.ok => art'[j]["poster"].stamp = retry'.data
    <3>1. CASE j = pass.item
      <4>1. Recording(pass', j) /\ ~Recording(retry', j)
        BY <2>4, <2>5, <3>1 DEF Recording, TruthHolds
      <4>2. pass'.ok => art'[j]["poster"].stamp = pass'.data
        BY <2>3, <2>5, <3>1 DEF Badged
      <4> QED
        BY <4>1, <4>2
    <3>2. CASE j # pass.item
      <4>1. art'[j] = art[j] /\ j \in Items \ (ghost.torn \cup ghost.foreign)
        BY <2>3, <2>4, <3>2
      <4>2. ~Recording(pass', j) /\ ~Recording(pass, j)
        BY <2>5, <3>2 DEF Recording
      <4> QED
        BY <2>4, <4>1, <4>2 DEF TruthHolds
    <3> QED
      BY <3>1, <3>2
  <2>7. \A j \in Items : pass'.item = j /\ retry'.item = j => j \in ghost'.torn
    BY <2>4, <2>5 DEF TruthHolds
  <2> QED
    BY <2>6, <2>7 DEF TruthHolds
<1>2. CASE RetryUpload
  <2>1. retry.item \in Items /\ retry.data \in Versions /\ "poster" \in Slots[retry.item]
        /\ Badged(retry.data) \in Pictures
    BY <1>2, PicturesDrawn, ServerArtAssumption DEF ArtTypeOK, Busy, RetryUpload
  <2>2. PICK ok \in BOOLEAN : /\ UploadArtwork(retry.item, "poster", Badged(retry.data), ok)
                              /\ retry' = [retry EXCEPT !.pc = "record", !.ok = ok]
    BY <1>2 DEF RetryUpload
  <2>3. /\ \A j \in Items \ {retry.item} : art'[j] = art[j]
        /\ ok => art'[retry.item]["poster"] = Badged(retry.data)
    BY <1>0, <2>1, <2>2, UploadEffect
  <2>4. /\ ghost'.torn = ghost.torn
        /\ ghost'.foreign = IF art' # art THEN ghost.foreign \ {retry.item} ELSE ghost.foreign
        /\ UNCHANGED <<row, pass>>
    BY <1>0, <1>2, <2>1, DeliveredTypes DEF RetryUpload
  <2>5. retry'.pc = "record" /\ retry'.item = retry.item /\ retry'.data = retry.data /\ retry'.ok = ok
    BY <1>0, <2>2 DEF Deliveries
  <2>6. ASSUME NEW j \in Items \ (ghost'.torn \cup ghost'.foreign)
        PROVE  /\ row'[j].status = "uploaded" /\ ~Recording(pass', j) /\ ~Recording(retry', j)
                     => art'[j]["poster"].stamp = row'[j].print
               /\ Recording(pass', j) /\ pass'.ok => art'[j]["poster"].stamp = pass'.data
               /\ Recording(retry', j) /\ retry'.ok => art'[j]["poster"].stamp = retry'.data
    <3>1. CASE j = retry.item
      <4>1. Recording(retry', j) /\ ~Recording(pass', j)
        BY <2>4, <2>5, <3>1 DEF Recording, TruthHolds
      <4>2. retry'.ok => art'[j]["poster"].stamp = retry'.data
        BY <2>3, <2>5, <3>1 DEF Badged
      <4> QED
        BY <4>1, <4>2
    <3>2. CASE j # retry.item
      <4>1. art'[j] = art[j] /\ j \in Items \ (ghost.torn \cup ghost.foreign)
        BY <2>3, <2>4, <3>2
      <4>2. ~Recording(retry', j) /\ ~Recording(retry, j)
        BY <2>5, <3>2 DEF Recording
      <4> QED
        BY <2>4, <4>1, <4>2 DEF TruthHolds
    <3> QED
      BY <3>1, <3>2
  <2>7. \A j \in Items : pass'.item = j /\ retry'.item = j => j \in ghost'.torn
    BY <2>4, <2>5 DEF TruthHolds
  <2> QED
    BY <2>6, <2>7 DEF TruthHolds
<1> QED
  BY <1>1, <1>2

LEMMA TruthRecord ==
  ASSUME ArtTypeOK, TruthHolds, DeliverRecord \/ RetryRecord
  PROVE  TruthHolds'
<1>0. /\ ghost \in History /\ pass \in Deliveries /\ retry \in Deliveries
      /\ row \in [Items -> DeliveryRow]
  BY DEF ArtTypeOK
<1>1. ghost'.torn = ghost.torn /\ ghost'.foreign = ghost.foreign /\ art' = art
  BY <1>0 DEF DeliverRecord, RetryRecord, History
<1>2. CASE DeliverRecord
  <2>1. /\ pass.pc = "record" /\ pass.item \in Items /\ pass'.pc = "idle" /\ pass'.item = 0 /\ retry' = retry
    BY <1>2 DEF DeliverRecord, ArtTypeOK, Busy, Idle
  <2>2. /\ \A j \in Items \ {pass.item} : row'[j] = row[j]
        /\ row'[pass.item].status = "uploaded" => pass.ok /\ row'[pass.item].print = pass.data
    BY <1>0, <1>2, <2>1 DEF DeliverRecord, DeliveryRow
  <2>3. Recording(pass, pass.item) /\ \A j \in Items : ~Recording(pass', j) /\ (j # pass.item => ~Recording(pass, j))
    BY <2>1 DEF Recording
  <2>4. \A j \in Items : ~(pass'.item = j)
    BY <2>1, ZeroIsNoItem
  <2> QED
    BY <1>1, <2>1, <2>2, <2>3, <2>4 DEF TruthHolds
<1>3. CASE RetryRecord
  <2>1. /\ retry.pc = "record" /\ retry.item \in Items /\ retry'.pc = "idle" /\ retry'.item = 0 /\ pass' = pass
    BY <1>3 DEF RetryRecord, ArtTypeOK, Busy, Idle
  <2>2. /\ \A j \in Items \ {retry.item} : row'[j] = row[j]
        /\ row'[retry.item].status = "uploaded" => retry.ok /\ row'[retry.item].print = retry.data
    BY <1>0, <1>3, <2>1 DEF RetryRecord, ComposedPrint, DeliveryRow
  <2>3. Recording(retry, retry.item) /\ \A j \in Items : ~Recording(retry', j) /\ (j # retry.item => ~Recording(retry, j))
    BY <2>1 DEF Recording
  <2>4. \A j \in Items : ~(retry'.item = j)
    BY <2>1, ZeroIsNoItem
  <2> QED
    BY <1>1, <2>1, <2>2, <2>3, <2>4 DEF TruthHolds
<1> QED
  BY <1>2, <1>3

LEMMA TruthKept ==
  ASSUME ArtTypeOK, TruthHolds, IdleHolds, [ArtNext]_artVars
  PROVE  TruthHolds'
<1>0. ghost \in History /\ pass \in Deliveries /\ retry \in Deliveries /\ art \in [Items -> [Slot -> Pictures]]
  BY DEF ArtTypeOK
<1>1. CASE /\ UNCHANGED <<row, art, pass, retry>>
           /\ ghost'.torn = ghost.torn /\ ghost'.foreign = ghost.foreign
  BY <1>1 DEF TruthHolds
<1>2. CASE Looked
  BY <1>1, <1>2, LookedLeavesTheServer
<1>3. CASE Logged
  BY <1>1, <1>3, LoggedLeavesThePictures
<1>4. CASE ModeEnds \/ UNCHANGED artVars \/ BackupStarts \/ BackupCopies \/ \E i \in Items : OperatorSetsLogo(i)
  BY <1>1, <1>4 DEF ModeEnds, artVars, BackupStarts, BackupCopies, OperatorSetsLogo
<1>5. CASE \E i \in Items : FactsMove(i)
  BY <1>0, <1>1, <1>5 DEF FactsMove, History
<1>6. CASE Pushed
  <2>1. PICK f \in NextFields :
            /\ \A j \in Items \ {f[1]} : art'[j] = art[j]
            /\ ghost'.torn = ghost.torn
            /\ ghost'.foreign = IF art' # art THEN ghost.foreign \cup {f[1]} ELSE ghost.foreign
            /\ UNCHANGED <<row, pass, retry>>
    BY <1>6, PushedEffect
  <2>2. \A j \in Items \ (ghost'.torn \cup ghost'.foreign) : art'[j] = art[j] /\ j \notin ghost.foreign
    BY <2>1
  <2> QED
    BY <2>1, <2>2 DEF TruthHolds
<1>7. CASE \E f \in Fields : OperatorSetsArt(f) \/ AgentRefresh(f)
  <2>1. PICK f \in Fields : OperatorSetsArt(f) \/ AgentRefresh(f)
    BY <1>7
  <2>2. /\ UNCHANGED <<row, pass, retry>>
        /\ \E p : art' = [art EXCEPT ![f[1]][f[2]] = p]
        /\ ghost' = [ghost EXCEPT !.foreign = @ \cup {f[1]}, !.settled = @ \ {f[1]}]
    BY <2>1 DEF OperatorSetsArt, AgentRefresh, Shown
  <2>3. ghost'.torn = ghost.torn /\ ghost'.foreign = ghost.foreign \cup {f[1]}
    BY <1>0, <2>2 DEF History
  <2>4. \A j \in Items \ (ghost'.torn \cup ghost'.foreign) : art'[j] = art[j] /\ j \notin ghost.foreign
    BY <1>0, <2>2, <2>3
  <2> QED
    BY <2>2, <2>3, <2>4 DEF TruthHolds
<1>8. CASE Crash
  <2>1. PICK n : ghost' = [ghost EXCEPT
                    !.torn = @ \cup {t.item : t \in {x \in {pass, retry} : x.pc = "record"}}, !.excuses = n]
    BY <1>8 DEF Crash
  <2>2. /\ ghost'.torn = ghost.torn \cup {t.item : t \in {x \in {pass, retry} : x.pc = "record"}}
        /\ ghost'.foreign = ghost.foreign
    BY <1>0, <2>1 DEF History
  <2>3. UNCHANGED <<row, art>> /\ pass' = Idle /\ retry' = Idle
    BY <1>8 DEF Crash
  <2>4. \A j \in Items : ~Recording(pass', j) /\ ~Recording(retry', j) /\ pass'.item # j
    BY <2>3, ZeroIsNoItem DEF Recording, Idle
  <2>5. \A j \in Items : Recording(pass, j) \/ Recording(retry, j) => j \in ghost'.torn
    BY <2>2 DEF Recording
  <2> QED
    BY <2>2, <2>3, <2>4, <2>5 DEF TruthHolds
<1> QED
  BY <1>2, <1>3, <1>4, <1>5, <1>6, <1>7, <1>8, TruthPassStarts, TruthRetryStarts, TruthUpload, TruthRecord,
     NextIsCovered DEF Served

LEMMA TruthIsEnough ==
  ASSUME ArtTypeOK, TruthHolds, IdleHolds
  PROVE  RowsTellTheTruth
BY DEF TruthHolds, RowsTellTheTruth, InFlight, Recording

-----------------------------------------------------------------------------
ArtInv == ArtTypeOK /\ CapHolds /\ FenceHolds /\ IdleHolds /\ SettledHolds /\ ModeArtSticks /\ MarkersHold /\ TruthHolds

LEMMA ArtInitInv == ArtInit => ArtInv /\ ChoicesHold
<1> SUFFICES ASSUME ArtInit PROVE ArtInv /\ ChoicesHold
  OBVIOUS
<1>1. ArtTypeOK
  BY ArtInitTypes
<1>2. /\ run.pc = "idle" /\ run.key = 0 /\ run.plan = {} /\ run.unsaved = {}
      /\ pass.pc = "idle" /\ pass.item = 0 /\ retry.pc = "idle" /\ retry.item = 0
      /\ ghost.settled = {} /\ ghost.undone = {} /\ ghost.trampled = {} /\ ghost.removed = {} /\ ghost.excuses = 0
      /\ \A i \in Items : row[i].status = "none" /\ logo[i].by = "nobody" /\ marker[i] = 0
  BY DEF ArtInit, NoRun, Idle, NoneYet, NoLogo
<1>3. Unclaimed \ Current = {}
  BY <1>2 DEF Unclaimed
<1>4. MarkersHold
  <2>1. Cardinality(Unclaimed \ Current) = 0
    BY <1>3, FS_EmptySet
  <2> QED
    BY <1>2, <2>1 DEF MarkersHold
<1>5. TruthHolds
  BY <1>2, ZeroIsNoItem DEF TruthHolds, Recording
<1>6. ChoicesHold
  BY <1>2 DEF ChoicesHold, OperatorChoicesStand
<1>7. CapHolds /\ FenceHolds /\ IdleHolds /\ SettledHolds /\ ModeArtSticks
  BY <1>2 DEF CapHolds, FenceHolds, IdleHolds, SettledHolds, ModeArtSticks
<1> QED
  BY <1>1, <1>4, <1>5, <1>6, <1>7 DEF ArtInv

\* The inductive invariant of everything that writes artwork to Plex.
THEOREM ArtInvariant == ArtSpec => []ArtInv
<1>1. ArtInit => ArtInv
  BY ArtInitInv
<1>2. ArtInv /\ ArtTypeOK' /\ [ArtNext]_artVars => ArtInv'
  BY CapKept, FenceKept, IdleKept, SettledKept, MarkersKept, TruthKept DEF ArtInv
<1> QED
  BY <1>1, <1>2, PicturesAreTyped, PTL DEF ArtSpec

(* Modes stay under the cap, what they put on Plex stays, an interrupted    *)
(* logo run strands at most one logo per interruption, and delivery rows    *)
(* tell the truth, whoever is at work meanwhile.                            *)
THEOREM ModesKeepTheirPromises ==
  ArtSpec => [](PlanBoundsTheRun /\ ModeArtSticks /\ OneLogoPerInterruption /\ RowsTellTheTruth)
<1>1. ArtInv => PlanBoundsTheRun /\ ModeArtSticks /\ RowsTellTheTruth
  BY CapIsEnough, TruthIsEnough DEF ArtInv
<1>2. ArtInv => OneLogoPerInterruption
  <2> SUFFICES ASSUME ArtInv PROVE OneLogoPerInterruption
    OBVIOUS
  <2>1. ghost.excuses \in Nat
    BY DEF ArtInv, ArtTypeOK, History
  <2>2. /\ Cardinality(Unclaimed) <= ghost.excuses + 1
        /\ run.key = 0 => Cardinality(Unclaimed) <= ghost.excuses
    BY OneStranded DEF ArtInv
  <2>3. CASE run.key = 0
    BY <2>1, <2>2, <2>3 DEF OneLogoPerInterruption
  <2>4. CASE run.key # 0
    BY <2>1, <2>2, <2>4 DEF OneLogoPerInterruption
  <2> QED
    BY <2>3, <2>4
<1> QED
  BY <1>1, <1>2, ArtInvariant, PTL

(* With nobody choosing artwork while a mode runs, no mode takes away what  *)
(* a person chose; and with the rest, this is what the run checks.          *)
THEOREM PicturesAreSafe ==
  ASSUME ~OperatorDuringRuns
  PROVE  ArtSpec => []ServerArtSafety
<1>1. ArtInit => ChoicesHold
  BY ArtInitInv
<1>2. ArtTypeOK /\ ChoicesHold /\ [ArtNext]_artVars => ChoicesHold'
  BY ChoicesKept
<1>3. ArtSpec => []ChoicesHold
  BY <1>1, <1>2, PicturesAreTyped, PTL DEF ArtSpec
<1>4. ChoicesHold => OperatorChoicesStand
  BY DEF ChoicesHold
<1>5. /\ ArtTypeOK /\ OperatorChoicesStand
      /\ PlanBoundsTheRun /\ ModeArtSticks /\ OneLogoPerInterruption /\ RowsTellTheTruth
      => ServerArtSafety
  BY DEF ServerArtSafety
<1> QED
  BY <1>3, <1>4, <1>5, ModesKeepTheirPromises, PicturesAreTyped, PTL

-----------------------------------------------------------------------------
(* The worker pause.                                                        *)

Counted ==
    /\ active = Cardinality(Handling)
    /\ idle <=> active = 0

Behind == InMode \cup {"armed"}

Locking == \A r \in Requests : request[r] \in Behind <=> lock = r

Fenced == fence <=> \E r \in Requests : request[r] \in InMode

Quiet == \A r \in Requests : request[r] \in {"woken", "writing"} => active = 0

Inv == TypeOK /\ Counted /\ Locking /\ Fenced /\ Quiet /\ RefusalTellsTheTruth

USE DEF WorkerAt, RequestAt, InMode, Behind

-----------------------------------------------------------------------------
LEMMA HandlingFinite == IsFiniteSet(Handling)
  BY WorkersAssumption, FS_Subset DEF Handling

\* The count is zero exactly when nobody is inside a handler.
LEMMA NobodyHandling == Counted => (active = 0 <=> Handling = {})
  BY HandlingFinite, FS_EmptySet DEF Counted

\* A step that moves no worker into or out of a handler leaves the count right.
LEMMA CountKept ==
  ASSUME Counted, UNCHANGED <<active, idle>>, Handling' = Handling
  PROVE  Counted'
  BY DEF Counted

LEMMA InitInv == Init => Inv
<1> SUFFICES ASSUME Init PROVE Inv
  OBVIOUS
<1>1. Handling = {}
  BY DEF Init, Handling
<1>2. Counted
  BY <1>1, FS_EmptySet DEF Init, Counted
<1> QED
  BY <1>2, RequestsAssumption DEF Init, Inv, TypeOK, Locking, Fenced, Quiet, RefusalTellsTheTruth

\* Steps of a worker outside a handler.
LEMMA OutsideSteps ==
  ASSUME Inv, NEW w \in Workers,
         PassGate(w) \/ ClaimNothing(w) \/ HandBack(w) \/ HandedBack(w)
  PROVE  Inv'
<1>1. /\ UNCHANGED <<request, fence, active, idle, lock, restarting>>
      /\ worker' \in [Workers -> WorkerAt]
      /\ worker[w] /= "handling" /\ worker'[w] /= "handling"
      /\ \A v \in Workers \ {w} : worker'[v] = worker[v]
  BY DEF PassGate, ClaimNothing, HandBack, HandedBack, Inv, TypeOK
<1>2. Handling' = Handling
  BY <1>1 DEF Handling
<1>3. Counted'
  BY <1>1, <1>2, CountKept DEF Inv
<1> QED
  BY <1>1, <1>3 DEF Inv, TypeOK, Locking, Fenced, Quiet, RefusalTellsTheTruth

LEMMA EnterStep ==
  ASSUME Inv, NEW w \in Workers, RunClaimed(w)
  PROVE  Inv'
<1>1. /\ UNCHANGED <<request, fence, lock, restarting>>
      /\ ~fence
      /\ active' = active + 1 /\ idle' = FALSE
      /\ worker[w] = "claiming"
      /\ worker' = [worker EXCEPT ![w] = "handling"]
  BY DEF RunClaimed, Enter
<1>2. Handling' = Handling \cup {w} /\ w \notin Handling
  BY <1>1 DEF Handling, Inv, TypeOK
<1>3. Cardinality(Handling') = Cardinality(Handling) + 1
  BY <1>2, HandlingFinite, FS_AddElement
<1>4. Counted'
  <2>1. active' = Cardinality(Handling') /\ active' /= 0
    BY <1>1, <1>3 DEF Counted, Inv, TypeOK
  <2> QED
    BY <1>1, <2>1 DEF Counted
<1>5. TypeOK'
  <2>1. active' \in Nat /\ worker' \in [Workers -> WorkerAt]
    BY <1>1 DEF Inv, TypeOK
  <2> QED
    BY <1>1, <2>1 DEF Inv, TypeOK
<1>6. Quiet'
  BY <1>1 DEF Inv, Quiet, Fenced
<1> QED
  BY <1>1, <1>4, <1>5, <1>6 DEF Inv, Locking, Fenced, RefusalTellsTheTruth

LEMMA LeaveStep ==
  ASSUME Inv, NEW w \in Workers, Leave(w)
  PROVE  Inv'
<1>1. /\ UNCHANGED <<fence, lock, restarting>>
      /\ active' = active - 1 /\ idle' = (active = 1)
      /\ worker[w] = "handling"
      /\ worker' = [worker EXCEPT ![w] = "gate"]
      /\ request' = IF active = 1 THEN Wake ELSE request
  BY DEF Leave
<1>2. Handling' = Handling \ {w} /\ w \in Handling
  BY <1>1 DEF Handling, Inv, TypeOK
<1>3. Cardinality(Handling') = Cardinality(Handling) - 1
  BY <1>2, HandlingFinite, FS_RemoveElement
<1>4. active \in Nat /\ active /= 0
  BY <1>2, NobodyHandling DEF Inv, TypeOK
<1>5. Counted'
  <2>1. active' = Cardinality(Handling')
    BY <1>1, <1>3 DEF Counted, Inv
  <2>2. active = 1 <=> active' = 0
    BY <1>1, <1>4
  <2> QED
    BY <1>1, <2>1, <2>2 DEF Counted
<1>6. /\ request' \in [Requests -> RequestAt]
      /\ \A r \in Requests : request'[r] \in InMode <=> request[r] \in InMode
      /\ \A r \in Requests : request'[r] = "armed" <=> request[r] = "armed"
  BY <1>1 DEF Wake, Inv, TypeOK
<1>7. TypeOK'
  BY <1>1, <1>4, <1>6 DEF Inv, TypeOK
<1>8. Quiet'
  <2> SUFFICES ASSUME NEW r \in Requests, request'[r] \in {"woken", "writing"}
               PROVE  active' = 0
    BY DEF Quiet
  <2>1. request[r] \notin {"woken", "writing"}
    BY <1>4 DEF Inv, Quiet
  <2>2. active = 1
    BY <1>1, <2>1
  <2> QED
    BY <1>1, <2>2
<1>9. Locking' /\ Fenced' /\ RefusalTellsTheTruth'
  BY <1>1, <1>6 DEF Inv, Locking, Fenced, RefusalTellsTheTruth
<1> QED
  BY <1>5, <1>7, <1>8, <1>9 DEF Inv

\* A request takes the free lock, gives it back, or moves on behind it.
LEMMA ModeSteps ==
  ASSUME Inv, NEW r \in Requests, ApplyMode(r) \/ Drained(r) \/ EndMode(r)
  PROVE  Inv'
<1>1. UNCHANGED <<worker, active, idle, restarting>>
  BY DEF ApplyMode, Drained, EndMode
<1>2. Counted'
  <2>1. Handling' = Handling
    BY <1>1 DEF Handling
  <2> QED
    BY <1>1, <2>1, CountKept DEF Inv
<1>3. CASE ApplyMode(r)
  <2>1. /\ lock = Nobody /\ lock' = r /\ fence' = TRUE
        /\ request' = [request EXCEPT ![r] = IF idle THEN "writing" ELSE "waiting"]
    BY <1>3 DEF ApplyMode
  <2>2. \A q \in Requests : request[q] \notin Behind
    BY <2>1, RequestsAssumption DEF Inv, Locking
  <2>3. TypeOK' /\ Locking' /\ Fenced'
    BY <1>1, <2>1, <2>2, RequestsAssumption DEF Inv, TypeOK, Locking, Fenced
  <2>4. Quiet'
    BY <1>1, <2>1, <2>2 DEF Inv, TypeOK, Quiet, Counted
  <2>5. RefusalTellsTheTruth'
    BY <1>1, <2>1, <2>2 DEF Inv, TypeOK, RefusalTellsTheTruth
  <2> QED
    BY <1>2, <2>3, <2>4, <2>5 DEF Inv
<1>4. CASE Drained(r)
  <2>1. /\ UNCHANGED <<lock, fence>> /\ request[r] = "woken"
        /\ request' = [request EXCEPT ![r] = "writing"]
    BY <1>4 DEF Drained
  <2>2. TypeOK' /\ Locking' /\ Fenced' /\ RefusalTellsTheTruth'
    BY <1>1, <2>1 DEF Inv, TypeOK, Locking, Fenced, RefusalTellsTheTruth
  <2>3. Quiet'
    BY <1>1, <2>1 DEF Inv, TypeOK, Quiet
  <2> QED
    BY <1>2, <2>2, <2>3 DEF Inv
<1>5. CASE EndMode(r)
  <2>1. /\ lock' = Nobody /\ fence' = FALSE /\ request[r] = "writing"
        /\ request' = [request EXCEPT ![r] = "none"]
    BY <1>5 DEF EndMode
  <2>2. \A q \in Requests \ {r} : request[q] \notin Behind
    BY <2>1 DEF Inv, Locking
  <2>3. TypeOK' /\ Locking' /\ Fenced' /\ Quiet'
    BY <1>1, <2>1, <2>2, RequestsAssumption DEF Inv, TypeOK, Locking, Fenced, Quiet
  <2>4. RefusalTellsTheTruth'
    BY <1>1, <2>1, <2>2, RequestsAssumption DEF Inv, TypeOK, Locking, RefusalTellsTheTruth
  <2> QED
    BY <1>2, <2>3, <2>4 DEF Inv
<1> QED
  BY <1>3, <1>4, <1>5

LEMMA RestartSteps ==
  ASSUME Inv, NEW r \in Requests,
         CheckRuns(r) \/ RefuseRestart(r) \/ ArmRestart(r) \/ ExecFailed(r)
  PROVE  Inv'
<1>1. UNCHANGED <<worker, fence, active, idle>>
  BY DEF CheckRuns, RefuseRestart, ArmRestart, ExecFailed
<1>2. Counted'
  <2>1. Handling' = Handling
    BY <1>1 DEF Handling
  <2> QED
    BY <1>1, <2>1, CountKept DEF Inv
<1>3. \E s \in {"none", "checked", "armed"} : request' = [request EXCEPT ![r] = s]
  BY DEF CheckRuns, RefuseRestart, ArmRestart, ExecFailed
<1>4. request[r] \in {"none", "checked", "armed"}
  BY DEF CheckRuns, RefuseRestart, ArmRestart, ExecFailed
<1>5. TypeOK'
  BY <1>1, <1>3 DEF CheckRuns, RefuseRestart, ArmRestart, ExecFailed, Inv, TypeOK
<1>6. Fenced' /\ Quiet'
  BY <1>1, <1>3, <1>4 DEF Inv, TypeOK, Fenced, Quiet
<1>7. CASE CheckRuns(r) \/ RefuseRestart(r)
  <2>1. /\ UNCHANGED <<lock, restarting>>
        /\ request[r] \notin Behind /\ request'[r] \notin Behind
        /\ \A q \in Requests \ {r} : request'[q] = request[q]
    BY <1>7 DEF CheckRuns, RefuseRestart, Inv, TypeOK
  <2>2. Locking' /\ RefusalTellsTheTruth'
    BY <2>1 DEF Inv, TypeOK, Locking, RefusalTellsTheTruth
  <2> QED
    BY <1>2, <1>5, <1>6, <2>2 DEF Inv
<1>8. CASE ArmRestart(r)
  <2>1. /\ lock = Nobody /\ lock' = r /\ restarting' = TRUE
        /\ request' = [request EXCEPT ![r] = "armed"]
    BY <1>8 DEF ArmRestart
  <2>2. Locking' /\ RefusalTellsTheTruth'
    BY <2>1, RequestsAssumption DEF Inv, TypeOK, Locking, RefusalTellsTheTruth
  <2> QED
    BY <1>2, <1>5, <1>6, <2>2 DEF Inv
<1>9. CASE ExecFailed(r)
  <2>1. /\ request[r] = "armed" /\ lock' = Nobody /\ restarting' = FALSE
        /\ request' = [request EXCEPT ![r] = "none"]
    BY <1>9 DEF ExecFailed
  <2>2. Locking' /\ RefusalTellsTheTruth'
    BY <2>1, RequestsAssumption DEF Inv, TypeOK, Locking, RefusalTellsTheTruth
  <2> QED
    BY <1>2, <1>5, <1>6, <2>2 DEF Inv
<1> QED
  BY <1>7, <1>8, <1>9

\* A new process image starts where the first one did.
LEMMA ExecStep ==
  ASSUME NEW r \in Requests, Exec(r)
  PROVE  Inv'
<1>1. Handling' = {}
  BY DEF Exec, Handling
<1>2. Counted'
  BY <1>1, FS_EmptySet DEF Exec, Counted
<1> QED
  BY <1>2, RequestsAssumption DEF Exec, Inv, TypeOK, Locking, Fenced, Quiet, RefusalTellsTheTruth

\* The inductive invariant of the fence.
THEOREM FenceInvariant == Spec => []Inv
<1>1. Inv /\ [Next]_vars => Inv'
  <2> SUFFICES ASSUME Inv, [Next]_vars PROVE Inv'
    OBVIOUS
  <2>1. CASE \E w \in Workers : WorkerStep(w)
    BY <2>1, OutsideSteps, EnterStep, LeaveStep DEF WorkerStep
  <2>2. CASE \E r \in Requests : RequestStep(r)
    BY <2>2, ModeSteps, RestartSteps, ExecStep DEF RequestStep
  <2>3. CASE UNCHANGED vars
    <3>1. Handling' = Handling
      BY <2>3 DEF vars, Handling
    <3>2. Counted'
      BY <2>3, <3>1, CountKept DEF vars, Inv
    <3> QED
      BY <2>3, <3>2 DEF vars, Inv, TypeOK, Locking, Fenced, Quiet, RefusalTellsTheTruth
  <2> QED
    BY <2>1, <2>2, <2>3 DEF Next
<1> QED
  BY <1>1, InitInv, PTL DEF Spec

\* WorkerPause: no worker is inside a handler while a mode writes artwork.
THEOREM WritesAreFenced == Spec => []FencedWrites
<1>1. Inv => FencedWrites
  BY NobodyHandling DEF Inv, Quiet, FencedWrites
<1> QED
  BY <1>1, FenceInvariant, PTL

\* mode_lock: modes and the restart's exec never overlap.
THEOREM LockIsExclusive == Spec => []OneBehindTheLock
<1>1. Inv => OneBehindTheLock
  BY DEF Inv, Locking, OneBehindTheLock
<1> QED
  BY <1>1, FenceInvariant, PTL

\* restart_in_flight is set exactly while the lock is a restart's.
THEOREM RefusalsAreTrue == Spec => []RefusalTellsTheTruth
<1>1. Inv => RefusalTellsTheTruth
  BY DEF Inv
<1> QED
  BY <1>1, FenceInvariant, PTL

\* Everything the runs check of the fence, for every pool and any number of requests.
THEOREM PausesAreSafe == Spec => []PauseSafety
<1>1. Inv => TypeOK
  BY DEF Inv
<1>2. TypeOK /\ FencedWrites /\ OneBehindTheLock /\ RefusalTellsTheTruth => PauseSafety
  BY DEF PauseSafety
<1> QED
  BY <1>1, <1>2, FenceInvariant, WritesAreFenced, LockIsExclusive, RefusalsAreTrue, PTL

-----------------------------------------------------------------------------
(* The metadata half.                                                       *)

Marks == {"none", "off", "on"}
Outs == {"none", "written", "pending", "skipped"}
Readings == Answers \cup {0}
Cell == [val : Values, lock : Marks]

\* What a server can show: Jellyfin marks no field it has no lock for.
Cells(s) == {x \in [MetaFields -> Cell] : s = "jellyfin" => \A f \in MetaFields \ Lockable : x[f].lock = "none"}

Edit == [val : Values \cup {KeepValue}, lock : {"keep", "off", "on"}]

WorkShape ==
    work \in [pc : {"idle", "load", "write", "send"}, cfg : Configs, facts : [MetaFields -> Readings],
              ovs : [MetaFields -> {0, Wish}], sort : Values \cup {KeepValue}, on : SUBSET Servers,
              todo : SUBSET Servers, at : Servers, view : [MetaFields -> Cell], out : [Servers -> Outs],
              clean : SUBSET Pairs]

RedoShape ==
    redo \in [pc : {"idle", "read", "send"}, cfg : Configs, at : Servers, facts : [MetaFields -> Readings],
              ovs : [MetaFields -> {0, Wish}], view : [MetaFields -> Cell], clean : SUBSET Pairs]

GhostShape ==
    metaGhost \in [dirty : SUBSET Pairs, outage : BOOLEAN, last : [MetaFields -> Readings], alone : BOOLEAN]

WorldShape ==
    /\ shown \in [Servers -> [MetaFields -> Cell]]
    /\ \A s \in Servers : shown[s] \in Cells(s)
    /\ provider \in [MetaFields -> Readings]
    /\ \A f \in MetaFields \ Sourced : provider[f] = 0
    /\ stored \in [MetaFields -> Readings]
    /\ ov \in [MetaFields -> {0, Wish}]
    /\ pos \in [st : {"none", "held", "released"}, def : Defs]
    /\ cfg \in Configs
    /\ exempt \in BOOLEAN

RowsShape ==
    rows \in [Servers -> [status : {"none", "pending", "written", "skipped", "failed"}, attempts : 0..MaxAttempts]]

ViewsShape == work.view \in Cells(work.at) /\ redo.view \in Cells(redo.at)

OpShape == op.pc = "drop" => op.field \in MetaFields

MetaShape ==
    /\ WorldShape
    /\ RowsShape
    /\ WorkShape
    /\ RedoShape
    /\ GhostShape
    /\ ViewsShape
    /\ OpShape
    /\ work.todo \subseteq work.on

\* A field the retry has nothing to say about: it carries no sort position.
Inert(f) == f = "sort" /\ ov[f] = 0 /\ cfg.verb[f] = "none"

\* What a pass knows of a pair nothing has disturbed since it read it.
PassPair(s, f) ==
    /\ work.cfg = cfg
    /\ work.facts[f] = provider[f]
    /\ work.pc \in {"write", "send"} => work.ovs[f] = ov[f] /\ (f = "sort" => work.sort = WithSortPosition)
    /\ work.pc = "send" /\ work.at = s => work.view[f] = shown[s][f] \/ Holds(s, f)
    /\ work.out[s] = "written" => Holds(s, f)

PassKnows == \A s \in Servers, f \in MetaFields : <<s, f>> \in work.clean => PassPair(s, f)

\* What the retry knows of one.
RetryPair(s, f) ==
    /\ redo.cfg = cfg
    /\ redo.ovs[f] = ov[f]
    /\ redo.facts[f] \in {0, provider[f]}
    /\ redo.pc = "send" /\ redo.at = s => Inert(f) \/ redo.view[f] = shown[s][f] \/ Holds(s, f)

RetryKnows == \A s \in Servers, f \in MetaFields : <<s, f>> \in redo.clean => RetryPair(s, f)

\* A server the pass is done with has an answer.
Answered == \A s \in work.on \ work.todo : work.out[s] # "none"

MetaInv ==
    /\ MetaShape
    /\ WrittenMeansShown
    /\ PassKnows
    /\ RetryKnows
    /\ Answered
    /\ ServersStandAlone
    /\ OutageStripsNothing
    /\ FactsRemember

-----------------------------------------------------------------------------
LEMMA ValuesNotKept ==
  /\ KeepValue \notin Values
  /\ 0 \in Values /\ Agent \in Values /\ Wish \in Values /\ Hand \in Values
  /\ Readings \subseteq Values
  /\ \A d \in Defs : Place[d] \in Values
  BY AnswersAssumption DEF Values, KeepValue, Agent, Wish, Hand, Readings

LEMMA EditShape ==
  ASSUME NEW view \in [MetaFields -> Cell], NEW reading \in [MetaFields -> Readings],
         NEW sort \in Values \cup {KeepValue}, NEW ovs \in [MetaFields -> {0, Wish}], NEW c \in Configs
  PROVE  PlanEdits(view, reading, sort, ovs, c) \in [MetaFields -> Edit]
<1>1. \A v \in Values : Put(v) \in Edit
  BY DEF Put, Edit
<1>2. Nothing \in Edit
  BY DEF Nothing, Edit
<1>3. \A cur \in Cell : EnsureLocked(cur) \in Edit
  BY <1>2 DEF EnsureLocked, Edit
<1>4. \A cur \in Cell, f \in MetaFields, v \in Readings : FactEdit(cur, f, v) \in Edit
  BY <1>1, <1>2, <1>3, ValuesNotKept DEF FactEdit
<1>5. \A cur \in Cell : SortEdit(cur, sort, c) \in Edit
  <2>1. [val |-> 0, lock |-> "off"] \in Edit
    BY ValuesNotKept DEF Edit
  <2> QED
    BY <1>1, <1>2, <2>1 DEF SortEdit
<1>6. \A cur \in Cell, f \in MetaFields, verb \in Verbs : VerbEdit(cur, f, verb) \in Edit
  <2>1. [val |-> KeepValue, lock |-> "on"] \in Edit /\ [val |-> KeepValue, lock |-> "off"] \in Edit
    BY DEF Edit
  <2> QED
    BY <1>1, <1>2, <1>3, <2>1, ValuesNotKept DEF VerbEdit
<1>7. \A cur \in Cell, v \in {0, Wish} : OverrideEdit(cur, v) \in Edit
  BY <1>1, <1>3, ValuesNotKept DEF OverrideEdit
<1>8. c.verb \in [MetaFields -> Verbs]
  BY OperationsAssumption
<1> QED
  BY <1>4, <1>5, <1>6, <1>7, <1>8 DEF PlanEdits

LEMMA SentShape ==
  ASSUME WorldShape, NEW s \in Servers, NEW view \in [MetaFields -> Cell], view \in Cells(s),
         NEW edits \in [MetaFields -> Edit]
  PROVE  Sent(s, view, edits) \in [MetaFields -> Cell] /\ Sent(s, view, edits) \in Cells(s)
<1>1. ASSUME NEW base \in [MetaFields -> Cell], base \in Cells(s)
      PROVE  Edited(s, base, edits) \in [MetaFields -> Cell] /\ Edited(s, base, edits) \in Cells(s)
  <2>1. \A f \in MetaFields : Locked(s, f, base[f], edits[f]) \in Marks
    BY DEF Locked, Edit, Cell, Marks
  <2>2. Edited(s, base, edits) \in [MetaFields -> Cell]
    BY <2>1 DEF Edited, Edit, Cell
  <2>3. s = "jellyfin" => \A f \in MetaFields \ Lockable : Locked(s, f, base[f], edits[f]) = "none"
    BY <1>1 DEF Locked, Cells
  <2> QED
    BY <2>2, <2>3 DEF Edited, Cells
<1>2. shown[s] \in [MetaFields -> Cell] /\ shown[s] \in Cells(s)
  BY DEF WorldShape
<1> QED
  BY <1>1, <1>2 DEF Sent

\* A cell after an edit, and what it means that a pair is not left unsure: the edit lands
\* on what the server shows.
Landed(s, f, x, e) == [val |-> IF e.val = KeepValue THEN x.val ELSE e.val, lock |-> Locked(s, f, x, e)]

LEMMA SureFieldsAreEdited ==
  ASSUME WorldShape, NEW s \in Servers, NEW view \in [MetaFields -> Cell], NEW edits \in [MetaFields -> Edit],
         NEW clean, NEW f \in MetaFields, <<s, f>> \notin Unsure(s, view, clean)
  PROVE  /\ <<s, f>> \in clean
         /\ Sent(s, view, edits)[f] = Landed(s, f, shown[s][f], edits[f])
<1>1. <<s, f>> \in clean
  BY DEF Unsure
<1>2. s = "jellyfin" => view[f] = shown[s][f]
  BY DEF Unsure, Overwritten
<1>3. s = "plex" \/ s = "jellyfin"
  BY DEF Servers
<1>4. Sent(s, view, edits)[f] = Edited(s, shown[s], edits)[f] \/ (s = "jellyfin" /\ Sent(s, view, edits)[f] = Edited(s, view, edits)[f])
  BY <1>3 DEF Sent
<1>5. \A base : Edited(s, base, edits)[f] = Landed(s, f, base[f], edits[f])
  BY DEF Edited, Landed
<1> QED
  BY <1>1, <1>2, <1>4, <1>5

\* What a field's wish asks of a cell, all its inputs given.
Granted(s, f, x, o, verb, sortApply, held, place, answer) ==
    IF o # 0 THEN x.val = o /\ (s = "plex" \/ f \in Lockable => x.lock = "on")
    ELSE IF verb = "lock" THEN s = "plex" \/ f \in Lockable => x.lock = "on"
    ELSE IF verb = "unlock" THEN x.lock # "on"
    ELSE IF verb = "remove" THEN f \in Removable => x.val = 0
    ELSE IF f = "sort" THEN (held /\ sortApply) => x.val = place
    ELSE f \in Sourced /\ answer # 0 => x.val = answer

LEMMA HoldsIsGranted ==
  \A s, f : Holds(s, f) <=> Granted(s, f, shown[s][f], ov[f], cfg.verb[f], cfg.sortApply,
                                    pos.st = "held", Place[pos.def], provider[f])
  BY DEF Holds, Granted

\* The edit of one field.
FieldEdit(f, cur, o, fact, sort, c) ==
    IF o # 0 THEN OverrideEdit(cur, o)
    ELSE IF c.verb[f] # "none" THEN VerbEdit(cur, f, c.verb[f])
    ELSE IF f = "sort" THEN SortEdit(cur, sort, c)
    ELSE FactEdit(cur, f, fact)

LEMMA NothingLandsNowhere ==
  ASSUME NEW s, NEW f, NEW x \in Cell
  PROVE  Landed(s, f, x, Nothing) = x
  BY DEF Landed, Nothing, Locked, Cell

LEMMA PutLands ==
  ASSUME NEW s \in Servers, NEW f, NEW x \in Cell, NEW v \in Values
  PROVE  /\ Landed(s, f, x, Put(v)).val = v
         /\ s = "plex" \/ f \in Lockable => Landed(s, f, x, Put(v)).lock = "on"
<1>1. Put(v).val = v /\ Put(v).lock = "on"
  BY DEF Put
<1>2. v # KeepValue
  BY ValuesNotKept
<1> QED
  BY <1>1, <1>2 DEF Landed, Locked

LEMMA EnsureLockedLands ==
  ASSUME NEW s \in Servers, NEW f, NEW x \in Cell, NEW v \in Cell
  PROVE  /\ Landed(s, f, x, EnsureLocked(v)).val = x.val
         /\ (s = "plex" \/ f \in Lockable) /\ (v = x \/ x.lock = "on") => Landed(s, f, x, EnsureLocked(v)).lock = "on"
<1>1. CASE v.lock = "on"
  <2>1. Landed(s, f, x, EnsureLocked(v)) = x
    BY <1>1, NothingLandsNowhere DEF EnsureLocked
  <2> QED
    BY <1>1, <2>1
<1>2. CASE v.lock # "on"
  <2>1. EnsureLocked(v) = [val |-> KeepValue, lock |-> "on"]
    BY <1>2 DEF EnsureLocked
  <2> QED
    BY <2>1 DEF Landed, Locked
<1> QED
  BY <1>1, <1>2

\* An edit planned for the wishes that stand, over a cell that is what was read or is
\* as wished already, leaves the cell as wished.
LEMMA PassEditGrants ==
  ASSUME NEW s \in Servers, NEW f \in MetaFields, NEW x \in Cell, NEW v \in Cell,
         s = "jellyfin" /\ f \notin Lockable => x.lock = "none",
         NEW c \in Configs, NEW o \in {0, Wish}, NEW fact \in Readings, NEW sort \in Values \cup {KeepValue},
         NEW held \in BOOLEAN, NEW place \in Values, place # 0, f = "sort" /\ held => sort = place,
         v = x \/ Granted(s, f, x, o, c.verb[f], c.sortApply, held, place, fact)
  PROVE  Granted(s, f, Landed(s, f, x, FieldEdit(f, v, o, fact, sort, c)), o, c.verb[f], c.sortApply, held, place, fact)
<1> DEFINE e == FieldEdit(f, v, o, fact, sort, c)
           y == Landed(s, f, x, e)
           verb == c.verb[f]
<1>v. verb \in Verbs
  BY OperationsAssumption
<1>s. s = "plex" \/ s = "jellyfin"
  BY DEF Servers
<1>w. Wish # 0 /\ Wish \in Values /\ 0 \in Values /\ Readings \subseteq Values
  BY ValuesNotKept DEF Wish
<1>p. \A u \in Values : /\ Landed(s, f, x, Put(u)).val = u
                        /\ s = "plex" \/ f \in Lockable => Landed(s, f, x, Put(u)).lock = "on"
  BY PutLands
<1>l. /\ Landed(s, f, x, EnsureLocked(v)).val = x.val
      /\ (s = "plex" \/ f \in Lockable) /\ (v = x \/ x.lock = "on") => Landed(s, f, x, EnsureLocked(v)).lock = "on"
  BY EnsureLockedLands
<1>1. CASE o # 0
  <2>1. e = OverrideEdit(v, o)
    BY <1>1 DEF FieldEdit
  <2>2. o \in Values
    BY <1>w
  <2>3. CASE v.val # o
    <3>1. e = Put(o)
      BY <2>1, <2>3 DEF OverrideEdit
    <3>2. y = Landed(s, f, x, Put(o))
      BY <3>1
    <3>3. y.val = o /\ (s = "plex" \/ f \in Lockable => y.lock = "on")
      BY <3>2, <2>2, <1>p
    <3> QED
      BY <3>3, <1>1 DEF Granted
  <2>4. CASE v.val = o
    <3>1. e = EnsureLocked(v)
      BY <2>1, <2>4 DEF OverrideEdit
    <3>2. x.val = o /\ (s = "plex" \/ f \in Lockable => v = x \/ x.lock = "on")
      BY <2>4, <1>1 DEF Granted
    <3> QED
      BY <3>1, <3>2, <1>1, <1>l DEF Granted
  <2> QED
    BY <2>3, <2>4
<1>2. CASE o = 0 /\ verb # "none"
  <2>1. e = VerbEdit(v, f, verb)
    BY <1>2 DEF FieldEdit
  <2>2. CASE verb = "lock"
    <3>1. e = EnsureLocked(v)
      BY <2>1, <2>2 DEF VerbEdit, EnsureLocked
    <3>2. s = "plex" \/ f \in Lockable => v = x \/ x.lock = "on"
      BY <2>2, <1>2 DEF Granted
    <3> QED
      BY <3>1, <3>2, <1>2, <2>2, <1>l DEF Granted
  <2>3. CASE verb = "unlock"
    <3>1. e = IF v.lock # "off" THEN [val |-> KeepValue, lock |-> "off"] ELSE Nothing
      BY <2>1, <2>3 DEF VerbEdit
    <3>2. CASE v.lock # "off"
      <4>1. e.lock = "off"
        BY <3>1, <3>2
      <4>2. y.lock # "on"
        BY <4>1, <1>s DEF Landed, Locked
      <4> QED
        BY <4>2, <1>2, <2>3 DEF Granted
    <3>3. CASE v.lock = "off"
      <4>1. y = x
        BY <3>1, <3>3, NothingLandsNowhere
      <4>2. x.lock # "on"
        BY <3>3, <1>2, <2>3 DEF Granted
      <4> QED
        BY <4>1, <4>2, <1>2, <2>3 DEF Granted
    <3> QED
      BY <3>2, <3>3
  <2>4. CASE verb = "remove"
    <3>1. CASE f \notin Removable
      BY <3>1, <1>2, <2>4 DEF Granted
    <3>2. CASE f \in Removable /\ v.val # 0
      <4>1. e = Put(0)
        BY <2>1, <2>4, <3>2 DEF VerbEdit
      <4>2. y = Landed(s, f, x, Put(0))
        BY <4>1
      <4>3. y.val = 0
        BY <4>2, <1>w, <1>p
      <4> QED
        BY <4>3, <1>2, <2>4 DEF Granted
    <3>3. CASE f \in Removable /\ v.val = 0
      <4>1. e \in {EnsureLocked(v), Nothing}
        BY <2>1, <2>4, <3>3 DEF VerbEdit
      <4>2. y.val = x.val
        BY <4>1, EnsureLockedLands, NothingLandsNowhere
      <4>3. x.val = 0
        BY <3>3, <1>2, <2>4 DEF Granted
      <4> QED
        BY <4>2, <4>3, <1>2, <2>4 DEF Granted
    <3> QED
      BY <3>1, <3>2, <3>3
  <2> QED
    BY <1>2, <1>v, <2>2, <2>3, <2>4 DEF Verbs
<1>3. CASE o = 0 /\ verb = "none" /\ f = "sort"
  <2>1. e = SortEdit(v, sort, c)
    BY <1>3 DEF FieldEdit
  <2>2. CASE ~(held /\ c.sortApply)
    BY <2>2, <1>3 DEF Granted
  <2>3. CASE held /\ c.sortApply
    <3>1. e = IF v.val # place THEN Put(place) ELSE Nothing
      BY <2>1, <2>3, <1>3, ValuesNotKept DEF SortEdit
    <3>2. CASE v.val # place
      <4>1. y = Landed(s, f, x, Put(place))
        BY <3>1, <3>2
      <4>2. y.val = place
        BY <4>1, <1>p
      <4> QED
        BY <4>2, <1>3 DEF Granted
    <3>3. CASE v.val = place
      <4>1. y = x
        BY <3>1, <3>3, NothingLandsNowhere
      <4>2. x.val = place
        BY <3>3, <1>3, <2>3 DEF Granted
      <4> QED
        BY <4>1, <4>2, <1>3 DEF Granted
    <3> QED
      BY <3>2, <3>3
  <2> QED
    BY <2>2, <2>3
<1>4. CASE o = 0 /\ verb = "none" /\ f # "sort"
  <2>1. e = FactEdit(v, f, fact)
    BY <1>4 DEF FieldEdit
  <2>2. CASE fact = 0 \/ f \notin Sourced
    BY <2>2, <1>4 DEF Granted
  <2>3. CASE fact # 0 /\ f \in Sourced /\ v.val # fact
    <3>1. e = Put(fact)
      BY <2>1, <2>3 DEF FactEdit
    <3>2. y = Landed(s, f, x, Put(fact)) /\ fact \in Values
      BY <3>1, <1>w
    <3>3. y.val = fact
      BY <3>2, <1>p
    <3> QED
      BY <3>3, <1>4 DEF Granted
  <2>4. CASE fact # 0 /\ f \in Sourced /\ v.val = fact
    <3>1. e \in {EnsureLocked(v), Nothing}
      BY <2>1, <2>4 DEF FactEdit
    <3>2. y.val = x.val
      BY <3>1, EnsureLockedLands, NothingLandsNowhere
    <3>3. x.val = fact
      BY <2>4, <1>4 DEF Granted
    <3> QED
      BY <3>2, <3>3, <1>4 DEF Granted
  <2> QED
    BY <2>2, <2>3, <2>4
<1> QED
  BY <1>1, <1>2, <1>3, <1>4, <1>v DEF Verbs

\* The retry's edit, planned without a sort position and from facts that may be blank,
\* does as much or nothing.
LEMMA RetryEditGrants ==
  ASSUME NEW s \in Servers, NEW f \in MetaFields, NEW x \in Cell, NEW v \in Cell,
         s = "jellyfin" /\ f \notin Lockable => x.lock = "none",
         NEW c \in Configs, NEW o \in {0, Wish}, NEW fact \in Readings, NEW answer \in Readings, fact \in {0, answer},
         NEW held \in BOOLEAN, NEW place \in Values,
         \/ f = "sort" /\ o = 0 /\ c.verb[f] = "none"
         \/ v = x
         \/ Granted(s, f, x, o, c.verb[f], c.sortApply, held, place, answer)
  PROVE  \/ Landed(s, f, x, FieldEdit(f, v, o, fact, KeepValue, c)) = x
         \/ Granted(s, f, Landed(s, f, x, FieldEdit(f, v, o, fact, KeepValue, c)),
                    o, c.verb[f], c.sortApply, held, place, answer)
<1> DEFINE y == Landed(s, f, x, FieldEdit(f, v, o, fact, KeepValue, c))
<1>1. CASE o = 0 /\ c.verb[f] = "none" /\ (f = "sort" \/ fact = 0)
  <2>1. FieldEdit(f, v, o, fact, KeepValue, c) = Nothing
    BY <1>1 DEF FieldEdit, SortEdit, FactEdit
  <2> QED
    BY <2>1, NothingLandsNowhere
<1>2. CASE ~(o = 0 /\ c.verb[f] = "none" /\ (f = "sort" \/ fact = 0))
  <2>v. c.verb[f] \in Verbs
    BY OperationsAssumption
  <2>1. \A z : Granted(s, f, z, o, c.verb[f], c.sortApply, held, place, answer)
                  <=> Granted(s, f, z, o, c.verb[f], c.sortApply, FALSE, Wish, fact)
    <3>1. CASE o # 0 \/ c.verb[f] # "none"
      BY <3>1, <2>v DEF Granted, Verbs
    <3>2. CASE o = 0 /\ c.verb[f] = "none" /\ f # "sort" /\ fact = answer
      BY <3>2 DEF Granted
    <3> QED
      BY <1>2, <3>1, <3>2
  <2>2. v = x \/ Granted(s, f, x, o, c.verb[f], c.sortApply, FALSE, Wish, fact)
    BY <2>1, <1>2
  <2>3. Wish \in Values /\ Wish # 0 /\ FALSE \in BOOLEAN /\ KeepValue \in Values \cup {KeepValue}
    BY ValuesNotKept DEF Wish
  <2>4. Granted(s, f, y, o, c.verb[f], c.sortApply, FALSE, Wish, fact)
    BY <2>2, <2>3, PassEditGrants
  <2> QED
    BY <2>1, <2>4
<1> QED
  BY <1>1, <1>2

\* Holds, of any cell.
Wished(s, f, x) == Granted(s, f, x, ov[f], cfg.verb[f], cfg.sortApply, pos.st = "held", Place[pos.def], provider[f])

LEMMA PlannedPerField ==
  ASSUME NEW view, NEW reading, NEW sort, NEW ovs, NEW c, NEW f \in MetaFields
  PROVE  PlanEdits(view, reading, sort, ovs, c)[f] = FieldEdit(f, view[f], ovs[f], reading[f], sort, c)
  BY DEF PlanEdits, FieldEdit

\* What the pass leaves on the server it writes.
LEMMA PassWrites ==
  ASSUME MetaShape, PassKnows, work.pc = "send",
         NEW edits, edits = PlanEdits(work.view, work.facts, work.sort, work.ovs, work.cfg),
         NEW f \in MetaFields, <<work.at, f>> \notin Unsure(work.at, work.view, work.clean)
  PROVE  /\ <<work.at, f>> \in work.clean
         /\ Wished(work.at, f, Sent(work.at, work.view, edits)[f])
<1> DEFINE s == work.at
           x == shown[s][f]
<1>1. /\ s \in Servers /\ work.view \in [MetaFields -> Cell] /\ work.facts \in [MetaFields -> Readings]
      /\ work.sort \in Values \cup {KeepValue} /\ work.ovs \in [MetaFields -> {0, Wish}] /\ work.cfg \in Configs
  BY DEF MetaShape, WorkShape
<1>2. edits \in [MetaFields -> Edit]
  BY <1>1, EditShape
<1>3. WorldShape
  BY DEF MetaShape
<1>4. <<s, f>> \in work.clean /\ Sent(s, work.view, edits)[f] = Landed(s, f, x, edits[f])
  BY <1>1, <1>2, <1>3, SureFieldsAreEdited
<1>5. edits[f] = FieldEdit(f, work.view[f], work.ovs[f], work.facts[f], work.sort, work.cfg)
  BY PlannedPerField
<1>6. /\ work.cfg = cfg /\ work.facts[f] = provider[f] /\ work.ovs[f] = ov[f]
      /\ f = "sort" => work.sort = WithSortPosition
      /\ work.view[f] = x \/ Wished(s, f, x)
  BY <1>1, <1>4, HoldsIsGranted DEF PassKnows, PassPair, Wished
<1>7. /\ x \in Cell /\ work.view[f] \in Cell
      /\ s = "jellyfin" /\ f \notin Lockable => x.lock = "none"
      /\ ov[f] \in {0, Wish} /\ provider[f] \in Readings /\ (pos.st = "held") \in BOOLEAN
      /\ Place[pos.def] \in Values /\ Place[pos.def] # 0
  BY <1>1, <1>3, AnswersAssumption, ValuesNotKept DEF WorldShape, Cells
<1>8. f = "sort" /\ pos.st = "held" => work.sort = Place[pos.def]
  BY <1>6 DEF WithSortPosition
<1>9. Wished(s, f, Landed(s, f, x, FieldEdit(f, work.view[f], ov[f], provider[f], work.sort, cfg)))
  <2> DEFINE held == pos.st = "held"
             place == Place[pos.def]
             v == work.view[f]
             o == ov[f]
             fact == provider[f]
             sort == work.sort
  <2>1. /\ s \in Servers /\ cfg \in Configs /\ sort \in Values \cup {KeepValue}
        /\ v = x \/ Granted(s, f, x, o, cfg.verb[f], cfg.sortApply, held, place, fact)
    BY <1>1, <1>6 DEF Wished
  <2>2. /\ x \in Cell /\ v \in Cell /\ o \in {0, Wish} /\ fact \in Readings /\ held \in BOOLEAN
        /\ place \in Values /\ place # 0 /\ (f = "sort" /\ held => sort = place)
        /\ s = "jellyfin" /\ f \notin Lockable => x.lock = "none"
    BY <1>7, <1>8
  <2> HIDE DEF s, x, held, place, v, o, fact, sort
  <2>3. Granted(s, f, Landed(s, f, x, FieldEdit(f, v, o, fact, sort, cfg)), o, cfg.verb[f], cfg.sortApply, held, place, fact)
    BY <2>1, <2>2, PassEditGrants
  <2> QED
    BY <2>3 DEF Wished, s, x, held, place, v, o, fact, sort
<1> QED
  BY <1>4, <1>5, <1>6, <1>9

\* What the retry leaves on the server it writes.
LEMMA RetryWrites ==
  ASSUME MetaShape, RetryKnows, redo.pc = "send",
         NEW edits, edits = PlanEdits(redo.view, redo.facts, KeepValue, redo.ovs, redo.cfg),
         NEW f \in MetaFields, <<redo.at, f>> \notin Unsure(redo.at, redo.view, redo.clean)
  PROVE  \/ Sent(redo.at, redo.view, edits)[f] = shown[redo.at][f]
         \/ Wished(redo.at, f, Sent(redo.at, redo.view, edits)[f])
<1> DEFINE s == redo.at
           x == shown[s][f]
<1>1. /\ s \in Servers /\ redo.view \in [MetaFields -> Cell] /\ redo.facts \in [MetaFields -> Readings]
      /\ redo.ovs \in [MetaFields -> {0, Wish}] /\ redo.cfg \in Configs /\ KeepValue \in Values \cup {KeepValue}
  BY DEF MetaShape, RedoShape
<1>2. edits \in [MetaFields -> Edit]
  BY <1>1, EditShape
<1>3. WorldShape
  BY DEF MetaShape
<1>4. <<s, f>> \in redo.clean /\ Sent(s, redo.view, edits)[f] = Landed(s, f, x, edits[f])
  BY <1>1, <1>2, <1>3, SureFieldsAreEdited
<1>5. edits[f] = FieldEdit(f, redo.view[f], redo.ovs[f], redo.facts[f], KeepValue, redo.cfg)
  BY PlannedPerField
<1>6. /\ redo.cfg = cfg /\ redo.ovs[f] = ov[f] /\ redo.facts[f] \in {0, provider[f]}
      /\ \/ f = "sort" /\ ov[f] = 0 /\ cfg.verb[f] = "none"
         \/ redo.view[f] = x
         \/ Wished(s, f, x)
  BY <1>1, <1>4, HoldsIsGranted DEF RetryKnows, RetryPair, Wished, Inert
<1>7. /\ x \in Cell /\ redo.view[f] \in Cell
      /\ s = "jellyfin" /\ f \notin Lockable => x.lock = "none"
      /\ ov[f] \in {0, Wish} /\ provider[f] \in Readings /\ redo.facts[f] \in Readings /\ (pos.st = "held") \in BOOLEAN
      /\ Place[pos.def] \in Values
  BY <1>1, <1>3, ValuesNotKept DEF WorldShape, Cells
<1>8. \/ Landed(s, f, x, FieldEdit(f, redo.view[f], ov[f], redo.facts[f], KeepValue, cfg)) = x
      \/ Wished(s, f, Landed(s, f, x, FieldEdit(f, redo.view[f], ov[f], redo.facts[f], KeepValue, cfg)))
  <2> DEFINE held == pos.st = "held"
             place == Place[pos.def]
             v == redo.view[f]
             o == ov[f]
             fact == redo.facts[f]
             answer == provider[f]
  <2>1. /\ s \in Servers /\ cfg \in Configs /\ fact \in {0, answer}
        /\ \/ f = "sort" /\ o = 0 /\ cfg.verb[f] = "none"
           \/ v = x
           \/ Granted(s, f, x, o, cfg.verb[f], cfg.sortApply, held, place, answer)
    BY <1>1, <1>6 DEF Wished
  <2>2. /\ x \in Cell /\ v \in Cell /\ o \in {0, Wish} /\ fact \in Readings /\ answer \in Readings
        /\ held \in BOOLEAN /\ place \in Values
        /\ s = "jellyfin" /\ f \notin Lockable => x.lock = "none"
    BY <1>7
  <2> HIDE DEF s, x, held, place, v, o, fact, answer
  <2>3. \/ Landed(s, f, x, FieldEdit(f, v, o, fact, KeepValue, cfg)) = x
        \/ Granted(s, f, Landed(s, f, x, FieldEdit(f, v, o, fact, KeepValue, cfg)), o, cfg.verb[f], cfg.sortApply, held, place, answer)
    BY <2>1, <2>2, RetryEditGrants
  <2> QED
    BY <2>3 DEF Wished, s, x, held, place, v, o, fact, answer
<1> QED
  BY <1>4, <1>5, <1>6, <1>8

-----------------------------------------------------------------------------
LEMMA IdleShapes ==
  /\ NoWork \in [pc : {"idle", "load", "write", "send"}, cfg : Configs, facts : [MetaFields -> Readings],
                 ovs : [MetaFields -> {0, Wish}], sort : Values \cup {KeepValue}, on : SUBSET Servers,
                 todo : SUBSET Servers, at : Servers, view : [MetaFields -> Cell], out : [Servers -> Outs],
                 clean : SUBSET Pairs]
  /\ NoRetry \in [pc : {"idle", "read", "send"}, cfg : Configs, at : Servers, facts : [MetaFields -> Readings],
                  ovs : [MetaFields -> {0, Wish}], view : [MetaFields -> Cell], clean : SUBSET Pairs]
  /\ \A s : NoView \in Cells(s)
  /\ NoWork.pc = "idle" /\ NoWork.on = {} /\ NoWork.todo = {} /\ NoWork.clean = {} /\ NoWork.view = NoView
  /\ NoRetry.pc = "idle" /\ NoRetry.clean = {} /\ NoRetry.view = NoView
  /\ Blank \in [MetaFields -> Readings] /\ Blank \in [MetaFields -> {0, Wish}]
  /\ Unplaced \in [st : {"none", "held", "released"}, def : Defs]
<1>1. /\ Blank \in [MetaFields -> Readings] /\ Blank \in [MetaFields -> {0, Wish}]
      /\ Unplaced \in [st : {"none", "held", "released"}, def : Defs]
  BY AnswersAssumption DEF Blank, Readings, Unplaced
<1>2. NoView \in [MetaFields -> Cell] /\ \A s : NoView \in Cells(s)
  BY ValuesNotKept DEF NoView, Cell, Cells, Marks
<1>3. (CHOOSE c \in Configs : TRUE) \in Configs
  BY OperationsAssumption
<1>4. "plex" \in Servers /\ [s \in Servers |-> "none"] \in [Servers -> Outs]
  BY DEF Servers, Outs
<1> QED
  BY <1>1, <1>2, <1>3, <1>4 DEF NoWork, NoRetry

LEMMA MetaShapeInit == MetadataInit => MetaShape /\ metaGhost = NoGhost
<1> SUFFICES ASSUME MetadataInit PROVE MetaShape
  BY DEF MetadataInit
<1> USE DEF MetadataInit
<1>1. WorldShape
  <2>1. [f \in MetaFields |-> [val |-> Agent, lock |-> "none"]] \in [MetaFields -> Cell]
    BY ValuesNotKept DEF Cell, Marks
  <2> QED
    BY <2>1, IdleShapes DEF WorldShape, Cells, Readings
<1>2. RowsShape
  BY AttemptsAssumption DEF RowsShape
<1>3. GhostShape
  BY IdleShapes DEF GhostShape, NoGhost, Pairs
<1>4. WorkShape /\ RedoShape /\ ViewsShape /\ OpShape /\ work.todo \subseteq work.on
  BY IdleShapes DEF WorkShape, RedoShape, ViewsShape, OpShape, NoOp
<1> QED
  BY <1>1, <1>2, <1>3, <1>4 DEF MetaShape

\* Dropping pairs from the two passes, and adding some to the ghost, keeps the shapes.
LEMMA UnsettleShapes ==
  ASSUME WorkShape, RedoShape, ViewsShape, NEW P
  PROVE  /\ Unsettle(P) => WorkShape' /\ RedoShape' /\ ViewsShape' /\ (work.todo \subseteq work.on => work'.todo \subseteq work'.on)
         /\ work' = [work EXCEPT !.clean = @ \ P] /\ UNCHANGED redo
               => WorkShape' /\ RedoShape' /\ ViewsShape' /\ (work.todo \subseteq work.on => work'.todo \subseteq work'.on)
<1>1. work' = [work EXCEPT !.clean = @ \ P]
        => WorkShape' /\ work'.view = work.view /\ work'.at = work.at /\ work'.todo = work.todo /\ work'.on = work.on
  BY DEF WorkShape
<1>2. redo' = [redo EXCEPT !.clean = @ \ P] => RedoShape' /\ redo'.view = redo.view /\ redo'.at = redo.at
  BY DEF RedoShape
<1>3. UNCHANGED redo => RedoShape' /\ redo'.view = redo.view /\ redo'.at = redo.at
  BY DEF RedoShape
<1> QED
  BY <1>1, <1>2, <1>3 DEF Unsettle, ViewsShape, Cells

LEMMA DirtyShape ==
  ASSUME GhostShape, NEW P \in SUBSET Pairs, metaGhost' = [metaGhost EXCEPT !.dirty = @ \cup P]
  PROVE  GhostShape'
  BY DEF GhostShape

LEMMA RowRecordedShape ==
  ASSUME NEW before \in [status : {"none", "pending", "written", "skipped", "failed"}, attempts : 0..MaxAttempts],
         NEW out \in Outs
  PROVE  RowRecorded(before, out) \in [status : {"none", "pending", "written", "skipped", "failed"}, attempts : 0..MaxAttempts]
<1>1. 0 \in 0..MaxAttempts /\ 1 \in 0..MaxAttempts /\ MaxAttempts \in 0..MaxAttempts
  BY AttemptsAssumption
<1>2. before.attempts < MaxAttempts => before.attempts + 1 \in 0..MaxAttempts
  BY AttemptsAssumption
<1>3. CASE out = "none"
  BY <1>3 DEF RowRecorded
<1>4. CASE out \in {"written", "skipped"}
  BY <1>1, <1>4 DEF RowRecorded
<1>5. CASE out = "pending"
  <2>1. RowRecorded(before, out) = [status |-> out, attempts |-> IF before.status = "failed" THEN 1
                       ELSE IF before.attempts < MaxAttempts THEN before.attempts + 1 ELSE MaxAttempts]
    BY <1>5 DEF RowRecorded
  <2> QED
    BY <1>1, <1>2, <1>5, <2>1
<1> QED
  BY <1>3, <1>4, <1>5 DEF Outs

LEMMA SettlesShape ==
  ASSUME RowsShape, NEW s \in Servers, NEW out \in Outs, Settles(s, out) \/ Counts(s)
  PROVE  RowsShape'
<1>1. rows[s] \in [status : {"none", "pending", "written", "skipped", "failed"}, attempts : 0..MaxAttempts]
  BY DEF RowsShape
<1>2. CASE Settles(s, out)
  BY <1>1, <1>2, RowRecordedShape DEF RowsShape, Settles
<1>3. CASE Counts(s)
  <2>1. MaxAttempts \in 0..MaxAttempts
    BY AttemptsAssumption
  <2>2. rows[s].attempts + 1 >= MaxAttempts \/ rows[s].attempts + 1 \in 0..MaxAttempts
    BY <1>1, AttemptsAssumption
  <2> QED
    BY <1>3, <2>1, <2>2 DEF RowsShape, Counts
<1> QED
  BY <1>2, <1>3

LEMMA PassShapes ==
  ASSUME MetaShape, PassGathers \/ PassLoads \/ PassReads \/ PassCommits
  PROVE  MetaShape'
<1> USE DEF MetaShape
<1>1. CASE PassGathers
  <2>a. PICK answered \in {Sourced, {}}, r \in {Servers, {"plex"}} :
          \E reading \in {[f \in MetaFields |-> IF f \in answered THEN provider[f] ELSE 0]} :
             /\ stored' = Coalesced(reading)
             /\ work' = [NoWork EXCEPT !.pc = "load", !.cfg = cfg, !.facts = reading, !.on = r, !.todo = r,
                                       !.clean = r \X (MetaFields \ (Sourced \ answered))]
             /\ metaGhost' = [metaGhost EXCEPT !.last = [f \in MetaFields |-> IF reading[f] # 0 THEN reading[f] ELSE @[f]]]
    BY <1>1 DEF PassGathers
  <2>1. PICK reading \in {[f \in MetaFields |-> IF f \in answered THEN provider[f] ELSE 0]} :
          /\ stored' = Coalesced(reading)
          /\ work' = [NoWork EXCEPT !.pc = "load", !.cfg = cfg, !.facts = reading, !.on = r, !.todo = r,
                                    !.clean = r \X (MetaFields \ (Sourced \ answered))]
          /\ metaGhost' = [metaGhost EXCEPT !.last = [f \in MetaFields |-> IF reading[f] # 0 THEN reading[f] ELSE @[f]]]
    BY <2>a
  <2>2. r \subseteq Servers
    BY DEF Servers
  <2>3. reading \in [MetaFields -> Readings]
    BY DEF WorldShape, Readings
  <2>4. stored' \in [MetaFields -> Readings]
    BY <2>1, <2>3 DEF Coalesced, WorldShape
  <2>5. WorldShape'
    BY <1>1, <2>4 DEF PassGathers, WorldShape, Cells
  <2>6. r \X (MetaFields \ (Sourced \ answered)) \in SUBSET Pairs
    BY <2>2 DEF Pairs
  <2>7. WorkShape' /\ work'.view = NoView /\ work'.todo \subseteq work'.on
    <3>1. cfg \in Configs
      BY DEF WorldShape
    <3> QED
      BY <2>1, <2>2, <2>3, <2>6, <3>1, IdleShapes DEF WorkShape
  <2>8. GhostShape'
    <3>1. [f \in MetaFields |-> IF reading[f] # 0 THEN reading[f] ELSE metaGhost.last[f]] \in [MetaFields -> Readings]
      BY <2>3 DEF GhostShape
    <3> QED
      BY <2>1, <3>1 DEF GhostShape
  <2>9. ViewsShape'
    BY <1>1, <2>7, IdleShapes DEF PassGathers, ViewsShape, Cells
  <2> QED
    BY <1>1, <2>5, <2>7, <2>8, <2>9 DEF PassGathers, RowsShape, RedoShape, OpShape
<1>2. CASE PassLoads
  <2>1. WithSortPosition \in Values \cup {KeepValue}
    BY ValuesNotKept DEF WithSortPosition, WorldShape
  <2>2. /\ WorkShape' /\ work'.view = work.view /\ work'.at = work.at
        /\ work'.todo = work.todo /\ work'.on = work.on
    BY <1>2, <2>1 DEF PassLoads, WorkShape, WorldShape
  <2> QED
    BY <1>2, <2>2 DEF PassLoads, WorldShape, RowsShape, RedoShape, GhostShape, ViewsShape, OpShape, Cells
<1>3. CASE PassReads
  <2>1. PICK s \in {NextServer} :
          work' = IF ~work.cfg.write[s] \/ exempt
                  THEN [work EXCEPT !.todo = @ \ {s}, !.out[s] = "skipped"]
                  ELSE [work EXCEPT !.pc = "send", !.at = s, !.view = shown[s]]
    BY <1>3 DEF PassReads
  <2>2. s \in Servers
    BY DEF NextServer, Servers
  <2>3. shown[s] \in [MetaFields -> Cell] /\ shown[s] \in Cells(s)
    BY <2>2 DEF WorldShape
  <2>4. CASE work' = [work EXCEPT !.todo = @ \ {s}, !.out[s] = "skipped"]
    <3>1. /\ WorkShape' /\ work'.view = work.view /\ work'.at = work.at
          /\ work'.todo = work.todo \ {s} /\ work'.on = work.on
      BY <2>2, <2>4 DEF WorkShape, Outs
    <3> QED
      BY <1>3, <3>1 DEF PassReads, WorldShape, RowsShape, RedoShape, GhostShape, ViewsShape, OpShape, Cells
  <2>5. CASE work' = [work EXCEPT !.pc = "send", !.at = s, !.view = shown[s]]
    <3>1. /\ WorkShape' /\ work'.view = shown[s] /\ work'.at = s
          /\ work'.todo = work.todo /\ work'.on = work.on
      BY <2>2, <2>3, <2>5 DEF WorkShape
    <3> QED
      BY <1>3, <2>3, <3>1 DEF PassReads, WorldShape, RowsShape, RedoShape, GhostShape, ViewsShape, OpShape, Cells
  <2> QED
    BY <2>1, <2>4, <2>5
<1>4. CASE PassCommits
  <2>1. RowsShape'
    <3>1. \A s \in Servers : rows[s] \in [status : {"none", "pending", "written", "skipped", "failed"}, attempts : 0..MaxAttempts]
                              /\ work.out[s] \in Outs
      BY DEF RowsShape, WorkShape
    <3> QED
      BY <1>4, <3>1, RowRecordedShape DEF PassCommits, RowsShape
  <2>2. WorldShape'
    BY <1>4, IdleShapes DEF PassCommits, WorldShape, Cells
  <2>3. WorkShape' /\ work'.view = NoView /\ work'.todo \subseteq work'.on
    BY <1>4, IdleShapes DEF PassCommits, WorkShape
  <2>4. GhostShape'
    <3> DEFINE dirty == (metaGhost.dirty \ {p \in work.clean : work.out[p[1]] = "written"})
                           \cup (IF DropsTombstone /\ pos.st = "held" THEN Everywhere("sort") ELSE {})
               alone == metaGhost.alone /\ \A s \in work.on : work.out[s] # "none"
    <3>1. metaGhost' = [metaGhost EXCEPT !.dirty = dirty, !.alone = alone]
      BY <1>4 DEF PassCommits
    <3>2. dirty \in SUBSET Pairs
      BY FieldsAssumption DEF GhostShape, Everywhere, Pairs
    <3>3. alone \in BOOLEAN
      OBVIOUS
    <3> HIDE DEF dirty, alone
    <3> QED
      BY <3>1, <3>2, <3>3 DEF GhostShape
  <2>5. ViewsShape'
    BY <1>4, <2>3, IdleShapes DEF PassCommits, ViewsShape, Cells
  <2> QED
    BY <1>4, <2>1, <2>2, <2>3, <2>4, <2>5 DEF PassCommits, RedoShape, OpShape
<1> QED
  BY <1>1, <1>2, <1>3, <1>4

\* A write of one server: what it leaves has the shape of what was there.
LEMMA WriteShape ==
  ASSUME WorldShape, NEW s \in Servers, NEW after \in [MetaFields -> Cell], after \in Cells(s),
         shown' \in {shown, [shown EXCEPT ![s] = after]},
         UNCHANGED <<provider, stored, ov, pos, cfg, exempt>>
  PROVE  WorldShape'
<1>1. shown' \in [Servers -> [MetaFields -> Cell]] /\ \A t \in Servers : shown'[t] \in Cells(t)
  BY DEF WorldShape
<1> QED
  BY <1>1 DEF WorldShape, Cells

LEMMA UnsureArePairs ==
  ASSUME NEW s \in Servers, NEW view, NEW clean
  PROVE  Unsure(s, view, clean) \in SUBSET Pairs /\ {s} \X MetaFields \in SUBSET Pairs
  BY DEF Unsure, Overwritten, Pairs

LEMMA SendShapes ==
  ASSUME MetaShape, PassSends \/ RetrySends
  PROVE  MetaShape'
<1> USE DEF MetaShape
<1>1. CASE PassSends
  <2> DEFINE s == work.at
             edits == PlanEdits(work.view, work.facts, work.sort, work.ovs, work.cfg)
             after == Sent(s, work.view, edits)
             unsure == Unsure(s, work.view, work.clean)
             whole == {s} \X MetaFields
  <2>1. \/ /\ shown' = [shown EXCEPT ![s] = after]
           /\ work' = [work EXCEPT !.pc = "write", !.todo = @ \ {s}, !.out[s] = "written", !.clean = @ \ unsure]
           /\ redo' = [redo EXCEPT !.clean = @ \ unsure]
           /\ metaGhost' = [metaGhost EXCEPT !.dirty = @ \cup unsure]
        \/ /\ shown' \in {shown, [shown EXCEPT ![s] = after]}
           /\ work' = [work EXCEPT !.pc = "write", !.todo = @ \ {s}, !.out[s] = "pending", !.clean = @ \ whole]
           /\ redo' = [redo EXCEPT !.clean = @ \ whole]
           /\ metaGhost' = [metaGhost EXCEPT !.dirty = @ \cup whole]
    BY <1>1 DEF PassSends, OneDown
  <2>2. /\ s \in Servers /\ work.view \in [MetaFields -> Cell] /\ work.view \in Cells(s)
        /\ work.facts \in [MetaFields -> Readings] /\ work.sort \in Values \cup {KeepValue}
        /\ work.ovs \in [MetaFields -> {0, Wish}] /\ work.cfg \in Configs
    BY DEF WorkShape, ViewsShape
  <2>3. edits \in [MetaFields -> Edit]
    BY <2>2, EditShape
  <2>4. after \in [MetaFields -> Cell] /\ after \in Cells(s)
    BY <2>2, <2>3, SentShape
  <2>5. unsure \in SUBSET Pairs /\ whole \in SUBSET Pairs
    BY <2>2, UnsureArePairs
  <2> HIDE DEF edits, after, unsure, whole
  <2>6. WorldShape'
    BY <1>1, <2>1, <2>2, <2>4, WriteShape DEF PassSends
  <2>7. /\ WorkShape' /\ work'.view = work.view /\ work'.at = work.at
        /\ work'.todo = work.todo \ {s} /\ work'.on = work.on
    <3>1. PICK o \in {"written", "pending"}, gone \in SUBSET Pairs :
            work' = [work EXCEPT !.pc = "write", !.todo = @ \ {s}, !.out[s] = o, !.clean = @ \ gone]
      BY <2>1, <2>5
    <3>2. o \in Outs
      BY DEF Outs
    <3> HIDE DEF s
    <3> QED
      BY <2>2, <3>1, <3>2 DEF WorkShape
  <2>8. RedoShape' /\ redo'.view = redo.view /\ redo'.at = redo.at
    BY <2>1 DEF RedoShape
  <2>9. GhostShape'
    BY <2>1, <2>5, DirtyShape
  <2>10. ViewsShape' /\ work'.todo \subseteq work'.on
    BY <2>7, <2>8 DEF ViewsShape, Cells
  <2> QED
    BY <1>1, <2>6, <2>7, <2>8, <2>9, <2>10 DEF PassSends, RowsShape, OpShape
<1>2. CASE RetrySends
  <2> DEFINE s == redo.at
             edits == PlanEdits(redo.view, redo.facts, KeepValue, redo.ovs, redo.cfg)
             after == Sent(s, redo.view, edits)
             unsure == Unsure(s, redo.view, redo.clean)
  <2>1. /\ \/ shown' = [shown EXCEPT ![s] = after] /\ Settles(s, "written")
           \/ shown' \in {shown, [shown EXCEPT ![s] = after]} /\ Counts(s)
        /\ work' = [work EXCEPT !.clean = @ \ unsure]
        /\ metaGhost' = [metaGhost EXCEPT !.dirty = @ \cup unsure]
        /\ redo' = NoRetry
    BY <1>2 DEF RetrySends
  <2>2. /\ s \in Servers /\ redo.view \in [MetaFields -> Cell] /\ redo.view \in Cells(s)
        /\ redo.facts \in [MetaFields -> Readings] /\ KeepValue \in Values \cup {KeepValue}
        /\ redo.ovs \in [MetaFields -> {0, Wish}] /\ redo.cfg \in Configs
    BY DEF RedoShape, ViewsShape
  <2>3. edits \in [MetaFields -> Edit]
    BY <2>2, EditShape
  <2>4. after \in [MetaFields -> Cell] /\ after \in Cells(s)
    BY <2>2, <2>3, SentShape
  <2>5. unsure \in SUBSET Pairs
    BY <2>2, UnsureArePairs
  <2> HIDE DEF edits, after, unsure
  <2>6. WorldShape'
    BY <1>2, <2>1, <2>2, <2>4, WriteShape DEF RetrySends
  <2>7. /\ WorkShape' /\ work'.view = work.view /\ work'.at = work.at
        /\ work'.todo = work.todo /\ work'.on = work.on
    BY <2>1 DEF WorkShape
  <2>8. RedoShape' /\ redo'.view = NoView
    BY <2>1, IdleShapes DEF RedoShape
  <2>9. GhostShape'
    BY <2>1, <2>5, DirtyShape
  <2>10. ViewsShape' /\ work'.todo \subseteq work'.on
    BY <2>7, <2>8, IdleShapes DEF ViewsShape, Cells
  <2>11. RowsShape'
    <3>1. "written" \in Outs
      BY DEF Outs
    <3> QED
      BY <2>1, <2>2, <3>1, SettlesShape
  <2> QED
    BY <1>2, <2>6, <2>7, <2>8, <2>9, <2>10, <2>11 DEF RetrySends, OpShape
<1> QED
  BY <1>1, <1>2

\* Whoever is wanted claims the item; nobody wanted, nobody claims it.
LEMMA WantedClaims ==
  ASSUME NEW o \in Outcomes
  PROVE  /\ Wanted(o) \subseteq Defs
         /\ Wanted(o) # {} => (CHOOSE d \in Wanted(o) : TRUE) \in Defs
         /\ Wanted(o) = {} => \A d \in Defs : ~Claims(o, d)
<1> DEFINE c == {d \in Others : Claims(o, d)}
<1>1. c # {} => (CHOOSE d \in c : TRUE) \in c
  OBVIOUS
<1>2. CASE Claims(o, First)
  <2>1. Wanted(o) = {First} /\ First \in Defs
    BY <1>2, AnswersAssumption DEF Wanted
  <2> QED
    BY <2>1
<1>3. CASE ~Claims(o, First)
  <2>1. Wanted(o) = IF c = {} THEN {} ELSE {CHOOSE d \in c : TRUE}
    BY <1>3 DEF Wanted
  <2>2. CASE c = {}
    <3>1. \A d \in Defs : ~Claims(o, d)
      BY <1>3, <2>2 DEF Others
    <3> QED
      BY <2>1, <2>2, <3>1
  <2>3. CASE c # {}
    <3>1. (CHOOSE d \in c : TRUE) \in Defs
      BY <1>1, <2>3 DEF Others
    <3> HIDE DEF c
    <3>2. Wanted(o) = {CHOOSE d \in c : TRUE}
      BY <2>1, <2>3
    <3> QED
      BY <3>1, <3>2
  <2> QED
    BY <2>2, <2>3
<1> QED
  BY <1>2, <1>3

LEMMA RetryShapes ==
  ASSUME MetaShape, RetryReads \/ \E s \in Retried : RetryPicks(s)
  PROVE  MetaShape'
<1> USE DEF MetaShape
<1>1. CASE RetryReads
  <2>1. redo.at \in Servers /\ "skipped" \in Outs
    BY DEF RedoShape, Outs
  <2>2. shown[redo.at] \in [MetaFields -> Cell] /\ shown[redo.at] \in Cells(redo.at)
    BY <2>1 DEF WorldShape
  <2>3. CASE Settles(redo.at, "skipped") /\ redo' = NoRetry
    <3>1. RowsShape'
      BY <2>1, <2>3, SettlesShape
    <3>2. RedoShape' /\ ViewsShape'
      BY <1>1, <2>3, IdleShapes DEF RetryReads, RedoShape, ViewsShape, Cells
    <3> QED
      BY <1>1, <3>1, <3>2 DEF RetryReads, WorldShape, WorkShape, GhostShape, OpShape, Cells
  <2>4. CASE redo' = [redo EXCEPT !.pc = "send", !.view = shown[redo.at]] /\ UNCHANGED rows
    <3>1. RedoShape' /\ redo'.view = shown[redo.at] /\ redo'.at = redo.at
      BY <2>2, <2>4 DEF RedoShape
    <3>2. ViewsShape'
      BY <1>1, <2>2, <3>1 DEF RetryReads, ViewsShape, Cells
    <3> QED
      BY <1>1, <2>4, <3>1, <3>2 DEF RetryReads, WorldShape, RowsShape, WorkShape, GhostShape, OpShape, Cells
  <2> QED
    BY <1>1, <2>3, <2>4 DEF RetryReads
<1>2. ASSUME NEW s \in Retried, RetryPicks(s)
      PROVE  MetaShape'
  <2>1. s \in Servers /\ "skipped" \in Outs
    BY FieldsAssumption DEF Outs
  <2>2. RowsShape'
    BY <1>2, <2>1, SettlesShape DEF RetryPicks, RowsShape
  <2>3. RedoShape' /\ ViewsShape'
    <3>1. CASE UNCHANGED redo
      BY <1>2, <3>1 DEF RetryPicks, RedoShape, ViewsShape, Cells
    <3>2. CASE redo' = [NoRetry EXCEPT !.pc = "read", !.cfg = cfg, !.at = s, !.facts = FactsFromRow, !.ovs = ov,
                                        !.clean = {s} \X {f \in MetaFields : stored[f] \in {0, provider[f]}}]
      <4>1. {s} \X {f \in MetaFields : stored[f] \in {0, provider[f]}} \in SUBSET Pairs
        BY <2>1 DEF Pairs
      <4>2. RedoShape' /\ redo'.view = NoView
        BY <2>1, <3>2, <4>1, IdleShapes DEF RedoShape, WorldShape, FactsFromRow
      <4> QED
        <5>1. UNCHANGED work
          BY <1>2 DEF RetryPicks
        <5>2. redo'.view \in Cells(redo'.at)
          BY <4>2, IdleShapes
        <5> QED
          BY <4>2, <5>1, <5>2 DEF ViewsShape, Cells
    <3> QED
      BY <1>2, <3>1, <3>2 DEF RetryPicks
  <2>4. UNCHANGED <<shown, provider, stored, ov, pos, cfg, exempt, work, op, metaGhost>>
    BY <1>2 DEF RetryPicks
  <2>5. WorldShape'
    BY <2>4 DEF WorldShape, Cells
  <2> QED
    BY <2>2, <2>3, <2>4, <2>5 DEF WorkShape, GhostShape, OpShape
<1> QED
  BY <1>1, <1>2

LEMMA CollectionsShapes ==
  ASSUME MetaShape, CollectionsPass \/ CollEnqueues
  PROVE  MetaShape'
<1> USE DEF MetaShape
<1>1. CASE CollectionsPass
  <2>1. PICK o \in Outcomes :
          /\ pos' = IF Wanted(o) # {} THEN [st |-> "held", def |-> CHOOSE d \in Wanted(o) : TRUE]
                    ELSE IF Releases(o) THEN [pos EXCEPT !.st = "released"] ELSE pos
          /\ IF Changed(o) \/ Releases(o)
             THEN /\ work' = [work EXCEPT !.clean = @ \ Everywhere("sort")]
                  /\ metaGhost' = [metaGhost EXCEPT !.dirty = @ \cup Everywhere("sort"),
                                            !.outage = @ \/ (Releases(o) /\ o[pos.def].lists)]
             ELSE UNCHANGED <<work, metaGhost>>
    BY <1>1 DEF CollectionsPass
  <2>2. pos' \in [st : {"none", "held", "released"}, def : Defs]
    BY <2>1, WantedClaims DEF WorldShape
  <2>3. WorldShape'
    BY <1>1, <2>2 DEF CollectionsPass, WorldShape, Cells
  <2>4. UNCHANGED redo
    BY <1>1 DEF CollectionsPass
  <2>5. WorkShape' /\ ViewsShape' /\ work'.todo \subseteq work'.on
    BY <2>1, <2>4, UnsettleShapes DEF WorkShape, ViewsShape, Cells
  <2>6. GhostShape'
    <3>1. Everywhere("sort") \in SUBSET Pairs
      BY FieldsAssumption DEF Everywhere, Pairs
    <3>2. CASE UNCHANGED metaGhost
      BY <3>2 DEF GhostShape
    <3>3. CASE metaGhost' = [metaGhost EXCEPT !.dirty = @ \cup Everywhere("sort"),
                                            !.outage = @ \/ (Releases(o) /\ o[pos.def].lists)]
      BY <3>1, <3>3 DEF GhostShape
    <3> QED
      BY <2>1, <3>2, <3>3
  <2> QED
    BY <1>1, <2>3, <2>4, <2>5, <2>6 DEF CollectionsPass, RowsShape, RedoShape, OpShape
<1>2. CASE CollEnqueues
  BY <1>2 DEF CollEnqueues, WorldShape, RowsShape, WorkShape, RedoShape, GhostShape, ViewsShape, OpShape, Cells
<1> QED
  BY <1>1, <1>2

LEMMA EverywhereIsPairs == \A f \in MetaFields : Everywhere(f) \in SUBSET Pairs
  BY DEF Everywhere, Pairs

\* An outside change to the world that disturbs some pairs.
LEMMA DisturbShapes ==
  ASSUME MetaShape, NEW P \in SUBSET Pairs, Unsettle(P),
         UNCHANGED metaGhost \/ metaGhost' = [metaGhost EXCEPT !.dirty = @ \cup P],
         WorldShape', UNCHANGED rows, OpShape'
  PROVE  MetaShape'
<1>1. WorkShape' /\ RedoShape' /\ ViewsShape' /\ work'.todo \subseteq work'.on
  BY UnsettleShapes DEF MetaShape
<1>2. GhostShape'
  BY DirtyShape DEF MetaShape, GhostShape
<1> QED
  BY <1>1, <1>2 DEF MetaShape, RowsShape

LEMMA OverrideShapes ==
  ASSUME MetaShape, DeleteDrops \/ \E f \in MetaFields : PutOverride(f) \/ DeleteUnlocks(f)
  PROVE  MetaShape'
<1>1. ASSUME NEW f \in MetaFields, PutOverride(f) PROVE MetaShape'
  <2>1. WorldShape'
    BY <1>1 DEF PutOverride, MetaShape, WorldShape, Cells
  <2> QED
    BY <1>1, <2>1, EverywhereIsPairs, DisturbShapes DEF PutOverride, Disturb, MetaShape, OpShape
<1>2. ASSUME NEW f \in MetaFields, DeleteUnlocks(f) PROVE MetaShape'
  <2>1. shown' \in {shown, [shown EXCEPT !["plex"][f].lock = "off"]}
    BY <1>2 DEF DeleteUnlocks
  <2>2. shown' \in [Servers -> [MetaFields -> Cell]] /\ \A s \in Servers : shown'[s] \in Cells(s)
    <3>1. CASE shown' = shown
      BY <3>1 DEF MetaShape, WorldShape, Cells
    <3>2. CASE shown' = [shown EXCEPT !["plex"][f].lock = "off"]
      <4> DEFINE cell == [shown["plex"][f] EXCEPT !.lock = "off"]
      <4>1. cell \in Cell /\ "plex" \in Servers
        BY DEF MetaShape, WorldShape, Cell, Marks, Servers
      <4>2. shown' = [shown EXCEPT !["plex"][f] = cell]
        BY <3>2
      <4> HIDE DEF cell
      <4> QED
        BY <4>1, <4>2 DEF MetaShape, WorldShape, Cells
    <3> QED
      BY <2>1, <3>1, <3>2
  <2>3. WorldShape'
    BY <1>2, <2>2 DEF DeleteUnlocks, MetaShape, WorldShape, Cells
  <2>4. OpShape'
    BY <1>2 DEF DeleteUnlocks, OpShape
  <2> QED
    BY <1>2, <2>3, <2>4, EverywhereIsPairs, DisturbShapes DEF DeleteUnlocks, Disturb
<1>3. CASE DeleteDrops
  <2>1. op.field \in MetaFields
    BY <1>3 DEF DeleteDrops, MetaShape, OpShape
  <2>2. WorldShape'
    BY <1>3, <2>1 DEF DeleteDrops, MetaShape, WorldShape, Cells
  <2>3. OpShape'
    BY <1>3 DEF DeleteDrops, NoOp, OpShape
  <2> QED
    BY <1>3, <2>1, <2>2, <2>3, EverywhereIsPairs, DisturbShapes DEF DeleteDrops, Disturb
<1> QED
  BY <1>1, <1>2, <1>3

LEMMA ServerSideShapes ==
  ASSUME MetaShape, NEW p \in Touched, AgentFills(p[1], p[2]) \/ PersonEdits(p[1], p[2])
  PROVE  MetaShape'
<1> DEFINE s == p[1]
           f == p[2]
<1>1. s \in Servers /\ f \in MetaFields
  BY FieldsAssumption
<1> HIDE DEF s, f
<1>2. {<<s, f>>} \in SUBSET Pairs
  BY <1>1 DEF Pairs
<1>3. CASE AgentFills(s, f)
  <2>1. shown' = [shown EXCEPT ![s][f].val = Agent]
    BY <1>3 DEF AgentFills
  <2>2. shown' \in [Servers -> [MetaFields -> Cell]] /\ \A t \in Servers : shown'[t] \in Cells(t)
    <3> DEFINE cell == [shown[s][f] EXCEPT !.val = Agent]
    <3>1. cell \in Cell /\ cell.lock = shown[s][f].lock
      BY <1>1, ValuesNotKept DEF MetaShape, WorldShape, Cell
    <3>2. shown' = [shown EXCEPT ![s][f] = cell]
      BY <2>1
    <3> HIDE DEF cell
    <3> QED
      BY <1>1, <3>1, <3>2 DEF MetaShape, WorldShape, Cells
  <2>3. WorldShape'
    BY <1>3, <2>2 DEF AgentFills, MetaShape, WorldShape, Cells
  <2> QED
    BY <1>2, <1>3, <2>3, DisturbShapes DEF AgentFills, Disturb, MetaShape, OpShape
<1>4. CASE PersonEdits(s, f)
  <2> DEFINE typed == [val |-> Hand, lock |-> IF s = "plex" \/ f \in Lockable THEN "on" ELSE "none"]
  <2>1. shown' = [shown EXCEPT ![s][f] = typed]
    BY <1>4 DEF PersonEdits
  <2>2. typed \in Cell /\ (s = "jellyfin" /\ f \notin Lockable => typed.lock = "none")
    BY ValuesNotKept DEF Cell, Marks
  <2> HIDE DEF typed
  <2>3. shown' \in [Servers -> [MetaFields -> Cell]] /\ \A t \in Servers : shown'[t] \in Cells(t)
    BY <1>1, <2>1, <2>2 DEF MetaShape, WorldShape, Cells
  <2>4. WorldShape'
    BY <1>4, <2>3 DEF PersonEdits, MetaShape, WorldShape, Cells
  <2> QED
    BY <1>2, <1>4, <2>4, DisturbShapes DEF PersonEdits, Disturb, MetaShape, OpShape
<1> QED
  BY <1>3, <1>4 DEF s, f

LEMMA OutsideShapes ==
  ASSUME MetaShape, ConfigMoves \/ LabelToggles \/ Requeued \/ MetadataCrash \/ \E f \in Sourced : ProviderMoves(f)
  PROVE  MetaShape'
<1> USE DEF MetaShape
<1>1. CASE ConfigMoves
  <2>1. WorldShape'
    BY <1>1 DEF ConfigMoves, WorldShape, Cells
  <2> QED
    BY <1>1, <2>1, DisturbShapes DEF ConfigMoves, Disturb, OpShape
<1>2. CASE LabelToggles \/ Requeued
  BY <1>2 DEF LabelToggles, Requeued, WorldShape, RowsShape, WorkShape, RedoShape, GhostShape, ViewsShape, OpShape, Cells
<1>3. CASE MetadataCrash
  <2>1. WorkShape' /\ RedoShape' /\ ViewsShape' /\ work'.todo \subseteq work'.on
    BY <1>3, IdleShapes DEF MetadataCrash, WorkShape, RedoShape, ViewsShape, Cells
  <2>2. GhostShape'
    BY <1>3 DEF MetadataCrash, GhostShape
  <2>3. OpShape'
    BY <1>3 DEF MetadataCrash, NoOp, OpShape
  <2> QED
    BY <1>3, <2>1, <2>2, <2>3 DEF MetadataCrash, WorldShape, RowsShape, Cells
<1>4. ASSUME NEW f \in Sourced, ProviderMoves(f) PROVE MetaShape'
  <2>1. f \in MetaFields
    BY FieldsAssumption
  <2>2. provider' \in [MetaFields -> Readings]
    BY <1>4, <2>1 DEF ProviderMoves, WorldShape, Readings
  <2>3. WorldShape'
    BY <1>4, <2>2 DEF ProviderMoves, WorldShape, Cells
  <2> QED
    BY <1>4, <2>1, <2>3, EverywhereIsPairs, DisturbShapes DEF ProviderMoves, Disturb, OpShape
<1> QED
  BY <1>1, <1>2, <1>3, <1>4

\* The shapes are kept by every step.
LEMMA MetaShapeStep == MetaShape /\ [MetadataNext]_metadataVars => MetaShape'
<1> SUFFICES ASSUME MetaShape, [MetadataNext]_metadataVars PROVE MetaShape'
  OBVIOUS
<1>1. CASE MetadataNext
  BY <1>1, PassShapes, SendShapes, RetryShapes, CollectionsShapes, OverrideShapes, ServerSideShapes, OutsideShapes
  DEF MetadataNext
<1>2. CASE UNCHANGED metadataVars
  BY <1>2 DEF metadataVars, MetaShape, WorldShape, RowsShape, WorkShape, RedoShape, GhostShape, ViewsShape, OpShape, Cells
<1> QED
  BY <1>1, <1>2

-----------------------------------------------------------------------------
(* What is known of a pair.                                                 *)

Undisturbed(s, f) ==
    /\ shown'[s][f] = shown[s][f]
    /\ cfg' = cfg /\ ov'[f] = ov[f] /\ provider'[f] = provider[f]
    /\ f = "sort" => pos' = pos

LEMMA WishesKept ==
  ASSUME NEW s, NEW f, cfg' = cfg, ov'[f] = ov[f], provider'[f] = provider[f], f = "sort" => pos' = pos
  PROVE  /\ Wished(s, f, shown'[s][f]) <=> Holds(s, f)'
         /\ Inert(f)' <=> Inert(f)
         /\ f = "sort" => WithSortPosition' = WithSortPosition
         /\ Undisturbed(s, f) => (Holds(s, f)' <=> Holds(s, f))
<1>1. Wished(s, f, shown'[s][f]) <=> Holds(s, f)'
  BY DEF Wished, Granted, Holds
<1>2. Inert(f)' <=> Inert(f)
  BY DEF Inert
<1>3. f = "sort" => WithSortPosition' = WithSortPosition
  BY DEF WithSortPosition
<1>4. Undisturbed(s, f) => (Holds(s, f)' <=> Holds(s, f))
  BY <1>1, HoldsIsGranted DEF Undisturbed, Wished
<1> QED
  BY <1>1, <1>2, <1>3, <1>4

\* What is known, all together.
Known == WrittenMeansShown /\ PassKnows /\ RetryKnows

LEMMA KnownOf ==
  Known <=> /\ \A s \in Servers, f \in MetaFields : <<s, f>> \notin metaGhost.dirty => Holds(s, f)
            /\ PassKnows
            /\ RetryKnows
<1>1. WrittenMeansShown <=> \A s \in Servers, f \in MetaFields : <<s, f>> \notin metaGhost.dirty => Holds(s, f)
  BY DEF WrittenMeansShown, Pairs
<1> QED
  BY <1>1 DEF Known

LEMMA PassUndisturbed ==
  ASSUME WorkShape, PassKnows, NEW P, work'.clean \subseteq work.clean \ P, work' = [work EXCEPT !.clean = work'.clean],
         \A s \in Servers, f \in MetaFields : <<s, f>> \notin P => Undisturbed(s, f)
  PROVE  PassKnows'
<1> SUFFICES ASSUME NEW s \in Servers, NEW f \in MetaFields, <<s, f>> \in work'.clean
             PROVE  PassPair(s, f)'
  BY DEF PassKnows
<1>1. Undisturbed(s, f) /\ <<s, f>> \in work.clean
  OBVIOUS
<1>2. /\ work'.pc = work.pc /\ work'.cfg = work.cfg /\ work'.facts = work.facts /\ work'.ovs = work.ovs
      /\ work'.sort = work.sort /\ work'.at = work.at /\ work'.view = work.view /\ work'.out = work.out
  BY DEF WorkShape
<1>3. /\ Holds(s, f)' <=> Holds(s, f)
      /\ f = "sort" => WithSortPosition' = WithSortPosition
  BY <1>1, WishesKept DEF Undisturbed
<1>4. PassPair(s, f)
  BY <1>1 DEF PassKnows
<1> QED
  BY <1>1, <1>2, <1>3, <1>4 DEF Undisturbed, PassPair

LEMMA RetryUndisturbed ==
  ASSUME RedoShape, RetryKnows, NEW P, redo'.clean \subseteq redo.clean \ P, redo' = [redo EXCEPT !.clean = redo'.clean],
         \A s \in Servers, f \in MetaFields : <<s, f>> \notin P => Undisturbed(s, f)
  PROVE  RetryKnows'
<1> SUFFICES ASSUME NEW s \in Servers, NEW f \in MetaFields, <<s, f>> \in redo'.clean
             PROVE  RetryPair(s, f)'
  BY DEF RetryKnows
<1>1. Undisturbed(s, f) /\ <<s, f>> \in redo.clean
  OBVIOUS
<1>2. /\ redo'.pc = redo.pc /\ redo'.cfg = redo.cfg /\ redo'.facts = redo.facts /\ redo'.ovs = redo.ovs
      /\ redo'.at = redo.at /\ redo'.view = redo.view
  BY DEF RedoShape
<1>3. (Holds(s, f)' <=> Holds(s, f)) /\ (Inert(f)' <=> Inert(f))
  BY <1>1, WishesKept DEF Undisturbed
<1>4. RetryPair(s, f)
  BY <1>1 DEF RetryKnows
<1> QED
  BY <1>1, <1>2, <1>3, <1>4 DEF Undisturbed, RetryPair

\* A step that disturbs some pairs, drops them from what the two passes answer for and
\* calls them dirty keeps what is known.
LEMMA KnownUndisturbed ==
  ASSUME MetaShape, Known, NEW P, metaGhost.dirty \cup P \subseteq metaGhost'.dirty,
         work'.clean \subseteq work.clean \ P, work' = [work EXCEPT !.clean = work'.clean],
         redo'.clean \subseteq redo.clean \ P, redo' = [redo EXCEPT !.clean = redo'.clean],
         \A s \in Servers, f \in MetaFields : <<s, f>> \notin P => Undisturbed(s, f)
  PROVE  Known'
<1>1. PassKnows' /\ RetryKnows'
  BY PassUndisturbed, RetryUndisturbed DEF MetaShape, Known
<1>2. ASSUME NEW s \in Servers, NEW f \in MetaFields, <<s, f>> \notin metaGhost'.dirty
      PROVE  Holds(s, f)'
  <2>1. <<s, f>> \notin metaGhost.dirty /\ Undisturbed(s, f)
    BY <1>2
  <2>2. Holds(s, f)
    BY <2>1, KnownOf
  <2> QED
    BY <2>1, <2>2, WishesKept DEF Undisturbed
<1>3. WrittenMeansShown'
  BY <1>2 DEF WrittenMeansShown, Pairs
<1> QED
  BY <1>1, <1>3 DEF Known

LEMMA EveryPairUndisturbed ==
  ASSUME UNCHANGED <<shown, cfg, ov, provider, pos>>
  PROVE  \A s \in Servers, f \in MetaFields : <<s, f>> \notin {} => Undisturbed(s, f)
  BY DEF Undisturbed

LEMMA SamePasses ==
  ASSUME MetaShape
  PROVE  /\ UNCHANGED work => work'.clean \subseteq work.clean \ {} /\ work' = [work EXCEPT !.clean = work'.clean]
         /\ UNCHANGED redo => redo'.clean \subseteq redo.clean \ {} /\ redo' = [redo EXCEPT !.clean = redo'.clean]
         /\ \A P : work' = [work EXCEPT !.clean = @ \ P]
                     => work'.clean \subseteq work.clean \ P /\ work' = [work EXCEPT !.clean = work'.clean]
         /\ \A P : redo' = [redo EXCEPT !.clean = @ \ P]
                     => redo'.clean \subseteq redo.clean \ P /\ redo' = [redo EXCEPT !.clean = redo'.clean]
         /\ \A P : metaGhost' = [metaGhost EXCEPT !.dirty = @ \cup P] => metaGhost.dirty \cup P \subseteq metaGhost'.dirty
<1>1. UNCHANGED work => work'.clean \subseteq work.clean \ {} /\ work' = [work EXCEPT !.clean = work'.clean]
  BY DEF MetaShape, WorkShape
<1>2. UNCHANGED redo => redo'.clean \subseteq redo.clean \ {} /\ redo' = [redo EXCEPT !.clean = redo'.clean]
  BY DEF MetaShape, RedoShape
<1>3. ASSUME NEW P, work' = [work EXCEPT !.clean = @ \ P]
      PROVE  work'.clean \subseteq work.clean \ P /\ work' = [work EXCEPT !.clean = work'.clean]
  BY <1>3 DEF MetaShape, WorkShape
<1>4. ASSUME NEW P, redo' = [redo EXCEPT !.clean = @ \ P]
      PROVE  redo'.clean \subseteq redo.clean \ P /\ redo' = [redo EXCEPT !.clean = redo'.clean]
  BY <1>4 DEF MetaShape, RedoShape
<1>5. ASSUME NEW P, metaGhost' = [metaGhost EXCEPT !.dirty = @ \cup P]
      PROVE  metaGhost.dirty \cup P \subseteq metaGhost'.dirty
  BY <1>5 DEF MetaShape, GhostShape
<1> QED
  BY <1>1, <1>2, <1>3, <1>4, <1>5

LEMMA DisturbKnows ==
  ASSUME MetaShape, Known, NEW P, Disturb(P),
         \A s \in Servers, f \in MetaFields : <<s, f>> \notin P => Undisturbed(s, f)
  PROVE  Known'
  BY SamePasses, KnownUndisturbed DEF Disturb, Unsettle

\* The override requests and the outside.
LEMMA OutsideKnows ==
  ASSUME MetaShape, Known,
         \/ DeleteDrops \/ ConfigMoves \/ LabelToggles \/ Requeued \/ CollEnqueues
         \/ \E f \in MetaFields : PutOverride(f) \/ DeleteUnlocks(f)
         \/ \E f \in Sourced : ProviderMoves(f)
  PROVE  Known'
<1>1. ASSUME NEW f \in MetaFields, PutOverride(f) \/ DeleteUnlocks(f) \/ ProviderMoves(f)
      PROVE  Known'
  <2>1. Disturb(Everywhere(f))
    BY <1>1 DEF PutOverride, DeleteUnlocks, ProviderMoves
  <2>2. ASSUME NEW s \in Servers, NEW g \in MetaFields, <<s, g>> \notin Everywhere(f)
        PROVE  Undisturbed(s, g)
    <3>1. g # f
      BY <2>2 DEF Everywhere
    <3>2. cfg' = cfg /\ pos' = pos
      BY <1>1 DEF PutOverride, DeleteUnlocks, ProviderMoves
    <3>3. ov'[g] = ov[g] /\ provider'[g] = provider[g]
      BY <1>1, <3>1 DEF PutOverride, DeleteUnlocks, ProviderMoves, MetaShape, WorldShape
    <3>4. shown'[s][g] = shown[s][g]
      BY <1>1, <3>1 DEF PutOverride, DeleteUnlocks, ProviderMoves, MetaShape, WorldShape
    <3> QED
      BY <3>2, <3>3, <3>4 DEF Undisturbed
  <2> QED
    BY <2>1, <2>2, DisturbKnows
<1>2. CASE DeleteDrops
  <2>1. Disturb(Everywhere(op.field))
    BY <1>2 DEF DeleteDrops
  <2>2. ASSUME NEW s \in Servers, NEW g \in MetaFields, <<s, g>> \notin Everywhere(op.field)
        PROVE  Undisturbed(s, g)
    BY <1>2, <2>2 DEF DeleteDrops, Everywhere, Undisturbed, MetaShape, WorldShape
  <2> QED
    BY <2>1, <2>2, DisturbKnows
<1>3. CASE ConfigMoves
  <2>1. Disturb(Pairs)
    BY <1>3 DEF ConfigMoves
  <2>2. \A s \in Servers, f \in MetaFields : <<s, f>> \in Pairs
    BY DEF Pairs
  <2> QED
    BY <2>1, <2>2, DisturbKnows
<1>4. CASE LabelToggles \/ Requeued \/ CollEnqueues
  <2>1. UNCHANGED <<shown, cfg, ov, provider, pos, work, redo, metaGhost>>
    BY <1>4 DEF LabelToggles, Requeued, CollEnqueues
  <2>2. metaGhost.dirty \cup {} \subseteq metaGhost'.dirty
    BY <2>1
  <2>3. /\ work'.clean \subseteq work.clean \ {} /\ work' = [work EXCEPT !.clean = work'.clean]
        /\ redo'.clean \subseteq redo.clean \ {} /\ redo' = [redo EXCEPT !.clean = redo'.clean]
    BY <2>1, SamePasses
  <2>4. \A s \in Servers, f \in MetaFields : <<s, f>> \notin {} => Undisturbed(s, f)
    BY <2>1, EveryPairUndisturbed
  <2> QED
    BY <2>2, <2>3, <2>4, KnownUndisturbed
<1> QED
  BY <1>1, <1>2, <1>3, <1>4, FieldsAssumption

\* What somebody does to a field on a server.
LEMMA ServerSideKnows ==
  ASSUME MetaShape, Known, NEW p \in Touched, AgentFills(p[1], p[2]) \/ PersonEdits(p[1], p[2])
  PROVE  Known'
<1> DEFINE s == p[1]
           f == p[2]
<1>1. s \in Servers /\ f \in MetaFields
  BY FieldsAssumption
<1> HIDE DEF s, f
<1>2. ASSUME AgentFills(s, f) \/ PersonEdits(s, f), NEW t \in Servers, NEW g \in MetaFields, <<t, g>> \notin {<<s, f>>}
      PROVE  Undisturbed(t, g)
  <2>1. UNCHANGED <<cfg, ov, provider, pos>>
    BY <1>2 DEF AgentFills, PersonEdits
  <2>2. t # s \/ g # f
    BY <1>2
  <2>3. shown'[t][g] = shown[t][g]
    BY <1>1, <1>2, <2>2 DEF AgentFills, PersonEdits, MetaShape, WorldShape
  <2> QED
    BY <2>1, <2>3 DEF Undisturbed
<1>3. CASE AgentFills(s, f)
  <2>1. CASE ov[f] # 0 /\ (s = "plex" \/ f \in Lockable)
    <3>1. <<s, f>> \in metaGhost.dirty
      <4>1. shown[s][f].lock # "on"
        BY <1>3 DEF AgentFills
      <4>2. ~Holds(s, f)
        BY <2>1, <4>1 DEF Holds
      <4> QED
        BY <1>1, <4>2, KnownOf
    <3>2. Unsettle({<<s, f>>}) /\ metaGhost.dirty \cup {<<s, f>>} \subseteq metaGhost'.dirty
      BY <1>3, <2>1, <3>1 DEF AgentFills
    <3> QED
      BY <1>2, <1>3, <3>2, SamePasses, KnownUndisturbed DEF Unsettle
  <2>2. CASE ~(ov[f] # 0 /\ (s = "plex" \/ f \in Lockable))
    BY <1>2, <1>3, <2>2, DisturbKnows DEF AgentFills
  <2> QED
    BY <2>1, <2>2
<1>4. CASE PersonEdits(s, f)
  BY <1>2, <1>4, DisturbKnows DEF PersonEdits
<1> QED
  BY <1>3, <1>4 DEF s, f

LEMMA CrashKnows ==
  ASSUME MetaShape, Known, MetadataCrash
  PROVE  Known'
<1>1. UNCHANGED <<shown, cfg, ov, provider, pos>> /\ work' = NoWork /\ redo' = NoRetry
  BY DEF MetadataCrash
<1>2. PassKnows' /\ RetryKnows'
  BY <1>1, IdleShapes DEF PassKnows, RetryKnows
<1>3. ASSUME NEW s \in Servers, NEW f \in MetaFields, <<s, f>> \notin metaGhost'.dirty
      PROVE  Holds(s, f)'
  <2>1. <<s, f>> \notin metaGhost.dirty
    <3>1. metaGhost'.dirty = IF work.pc # "idle" \/ redo.pc # "idle" THEN Pairs ELSE metaGhost.dirty
      BY DEF MetadataCrash, MetaShape, GhostShape
    <3> QED
      BY <1>3, <3>1 DEF Pairs
  <2>2. Holds(s, f)
    BY <2>1, KnownOf
  <2> QED
    BY <1>1, <2>2, WishesKept DEF Undisturbed
<1> QED
  BY <1>2, <1>3 DEF Known, WrittenMeansShown, Pairs

\* The pass up to its write.
LEMMA RetryStill ==
  ASSUME RetryKnows, UNCHANGED <<shown, cfg, ov, provider, pos, redo>>
  PROVE  RetryKnows'
<1>1. ASSUME NEW s \in Servers, NEW f \in MetaFields
      PROVE  (Holds(s, f)' <=> Holds(s, f)) /\ (Inert(f)' <=> Inert(f))
  BY WishesKept DEF Undisturbed
<1> QED
  BY <1>1 DEF RetryKnows, RetryPair

LEMMA GatherKnows ==
  ASSUME MetaShape, Known, PassGathers
  PROVE  Known'
<1>a. PICK answered \in {Sourced, {}}, r \in {Servers, {"plex"}} :
        \E reading \in {[f \in MetaFields |-> IF f \in answered THEN provider[f] ELSE 0]} :
           /\ stored' = Coalesced(reading)
           /\ work' = [NoWork EXCEPT !.pc = "load", !.cfg = cfg, !.facts = reading, !.on = r, !.todo = r,
                                     !.clean = r \X (MetaFields \ (Sourced \ answered))]
           /\ metaGhost' = [metaGhost EXCEPT !.last = [f \in MetaFields |-> IF reading[f] # 0 THEN reading[f] ELSE @[f]]]
  BY DEF PassGathers
<1>b. PICK reading \in {[f \in MetaFields |-> IF f \in answered THEN provider[f] ELSE 0]} :
           /\ work' = [NoWork EXCEPT !.pc = "load", !.cfg = cfg, !.facts = reading, !.on = r, !.todo = r,
                                     !.clean = r \X (MetaFields \ (Sourced \ answered))]
           /\ metaGhost' = [metaGhost EXCEPT !.last = [f \in MetaFields |-> IF reading[f] # 0 THEN reading[f] ELSE @[f]]]
  BY <1>a
<1>1. UNCHANGED <<shown, cfg, ov, provider, pos, redo>> /\ metaGhost'.dirty = metaGhost.dirty
  BY <1>b DEF PassGathers, MetaShape, GhostShape
<1>2. RetryKnows'
  BY <1>1, RetryStill DEF Known
<1>3. WrittenMeansShown'
  BY <1>1 DEF Known, WrittenMeansShown, Holds
<1>4. ASSUME NEW s \in Servers, NEW f \in MetaFields, <<s, f>> \in work'.clean
      PROVE  PassPair(s, f)'
  <2>1. /\ work'.pc = "load" /\ work'.cfg = cfg /\ work'.facts = reading
        /\ work'.clean = r \X (MetaFields \ (Sourced \ answered)) /\ work'.out[s] = "none"
    BY <1>b DEF NoWork
  <2>2. reading[f] = provider[f]
    <3>1. f \notin Sourced \/ f \in answered
      BY <1>4, <2>1
    <3>2. f \notin Sourced => provider[f] = 0
      BY DEF MetaShape, WorldShape
    <3> QED
      BY <3>1, <3>2
  <2> QED
    BY <1>1, <2>1, <2>2 DEF PassPair
<1> QED
  BY <1>2, <1>3, <1>4 DEF Known, PassKnows

LEMMA LoadReadKnows ==
  ASSUME MetaShape, Known, PassLoads \/ PassReads
  PROVE  Known'
<1>1. UNCHANGED <<shown, cfg, ov, provider, pos, redo, metaGhost>>
  BY DEF PassLoads, PassReads
<1>2. RetryKnows'
  BY <1>1, RetryStill DEF Known
<1>3. WrittenMeansShown'
  BY <1>1 DEF Known, WrittenMeansShown, Holds
<1>4. ASSUME NEW s \in Servers, NEW f \in MetaFields, <<s, f>> \in work'.clean
      PROVE  PassPair(s, f)'
  <2>1. (Holds(s, f)' <=> Holds(s, f)) /\ (f = "sort" => WithSortPosition' = WithSortPosition)
    BY <1>1, WishesKept DEF Undisturbed
  <2>2. CASE PassLoads
    <3>1. work' = [work EXCEPT !.pc = "write", !.ovs = ov, !.sort = WithSortPosition]
      BY <2>2 DEF PassLoads
    <3>2. /\ work'.pc = "write" /\ work'.ovs = ov /\ work'.sort = WithSortPosition /\ work'.cfg = work.cfg
          /\ work'.facts = work.facts /\ work'.out = work.out /\ work'.clean = work.clean
      BY <3>1 DEF MetaShape, WorkShape
    <3>3. PassPair(s, f)
      BY <1>4, <3>2 DEF Known, PassKnows
    <3> QED
      BY <1>1, <2>1, <3>2, <3>3 DEF PassPair
  <2>3. CASE PassReads
    <3>1. PICK t \in {NextServer} :
            work' = IF ~work.cfg.write[t] \/ exempt
                    THEN [work EXCEPT !.todo = @ \ {t}, !.out[t] = "skipped"]
                    ELSE [work EXCEPT !.pc = "send", !.at = t, !.view = shown[t]]
      BY <2>3 DEF PassReads
    <3>t. t \in Servers /\ work.pc = "write"
      BY <2>3 DEF NextServer, Servers, PassReads
    <3>2. CASE work' = [work EXCEPT !.todo = @ \ {t}, !.out[t] = "skipped"]
      <4>1. /\ work'.pc = "write" /\ work'.ovs = work.ovs /\ work'.sort = work.sort /\ work'.cfg = work.cfg
            /\ work'.facts = work.facts /\ work'.clean = work.clean
            /\ work'.out[s] \in {work.out[s], "skipped"}
        BY <3>2, <3>t DEF MetaShape, WorkShape
      <4>2. PassPair(s, f)
        BY <1>4, <4>1 DEF Known, PassKnows
      <4> QED
        BY <1>1, <2>1, <3>t, <4>1, <4>2 DEF PassPair
    <3>3. CASE work' = [work EXCEPT !.pc = "send", !.at = t, !.view = shown[t]]
      <4>1. /\ work'.pc = "send" /\ work'.ovs = work.ovs /\ work'.sort = work.sort /\ work'.cfg = work.cfg
            /\ work'.facts = work.facts /\ work'.clean = work.clean /\ work'.out = work.out
            /\ work'.at = t /\ work'.view = shown[t]
        BY <3>3, <3>t DEF MetaShape, WorkShape
      <4>2. PassPair(s, f)
        BY <1>4, <4>1 DEF Known, PassKnows
      <4> QED
        BY <1>1, <2>1, <3>t, <4>1, <4>2 DEF PassPair
    <3> QED
      BY <3>1, <3>2, <3>3
  <2> QED
    BY <2>2, <2>3
<1> QED
  BY <1>2, <1>3, <1>4 DEF Known, PassKnows

\* A write that grants the wish of a field, or leaves the field.
LEMMA WriteHolds ==
  ASSUME UNCHANGED <<cfg, ov, provider, pos>>, NEW t \in Servers, NEW f \in MetaFields,
         shown'[t][f] = shown[t][f] \/ Wished(t, f, shown'[t][f])
  PROVE  /\ shown'[t][f] = shown[t][f] \/ Holds(t, f)'
         /\ Holds(t, f) => Holds(t, f)'
         /\ Inert(f)' <=> Inert(f)
         /\ WithSortPosition' = WithSortPosition
<1>1. Wished(t, f, shown'[t][f]) <=> Holds(t, f)'
  BY WishesKept
<1>2. shown'[t][f] = shown[t][f] => (Holds(t, f)' <=> Holds(t, f))
  BY WishesKept DEF Undisturbed
<1>3. (Inert(f)' <=> Inert(f)) /\ WithSortPosition' = WithSortPosition
  BY DEF Inert, WithSortPosition
<1> QED
  BY <1>1, <1>2, <1>3

LEMMA SendKnows ==
  ASSUME MetaShape, Known, PassSends
  PROVE  Known'
<1> DEFINE s == work.at
           edits == PlanEdits(work.view, work.facts, work.sort, work.ovs, work.cfg)
           after == Sent(s, work.view, edits)
           unsure == Unsure(s, work.view, work.clean)
           whole == {s} \X MetaFields
<1>1. PICK gone \in {unsure, whole} :
        /\ shown' \in {shown, [shown EXCEPT ![s] = after]}
        /\ gone = whole \/ shown' = [shown EXCEPT ![s] = after]
        /\ \E o \in {"written", "pending"} :
              /\ work' = [work EXCEPT !.pc = "write", !.todo = @ \ {s}, !.out[s] = o, !.clean = @ \ gone]
              /\ gone = whole \/ o = "written"
        /\ redo' = [redo EXCEPT !.clean = @ \ gone]
        /\ metaGhost' = [metaGhost EXCEPT !.dirty = @ \cup gone]
  BY DEF PassSends, OneDown
<1>2. work.pc = "send" /\ UNCHANGED <<cfg, ov, provider, pos>>
  BY DEF PassSends
<1>3. s \in Servers /\ shown \in [Servers -> [MetaFields -> Cell]]
  BY DEF MetaShape, WorkShape, WorldShape
<1>4. \A f \in MetaFields : <<s, f>> \notin unsure => Wished(s, f, after[f])
  BY <1>2, PassWrites DEF Known
<1>5. \A t \in Servers, f \in MetaFields : <<t, f>> \notin gone => (t = s => gone = unsure /\ <<s, f>> \notin unsure)
  BY <1>1
<1> HIDE DEF s, edits, after, unsure
<1>6. ASSUME NEW t \in Servers, NEW f \in MetaFields, <<t, f>> \notin gone
      PROVE  /\ shown'[t][f] = shown[t][f] \/ Holds(t, f)'
             /\ Holds(t, f) => Holds(t, f)'
             /\ Inert(f)' <=> Inert(f)
             /\ WithSortPosition' = WithSortPosition
  <2>1. t = s => after[f] = shown[s][f] \/ Wished(s, f, after[f])
    BY <1>4, <1>5, <1>6
  <2>2. shown'[t][f] = shown[t][f] \/ Wished(t, f, shown'[t][f])
    BY <1>1, <1>3, <2>1
  <2> QED
    BY <1>2, <2>2, WriteHolds
<1>7. WrittenMeansShown'
  <2>1. metaGhost'.dirty = metaGhost.dirty \cup gone
    BY <1>1 DEF MetaShape, GhostShape
  <2>2. ASSUME NEW t \in Servers, NEW f \in MetaFields, <<t, f>> \notin metaGhost'.dirty
        PROVE  Holds(t, f)'
    BY <1>6, <2>1, <2>2, KnownOf
  <2> QED
    BY <2>2 DEF WrittenMeansShown, Pairs
<1>8. ASSUME NEW t \in Servers, NEW f \in MetaFields, <<t, f>> \in work'.clean
      PROVE  PassPair(t, f)'
  <2>1. PICK o \in {"written", "pending"} :
          /\ work' = [work EXCEPT !.pc = "write", !.todo = @ \ {s}, !.out[s] = o, !.clean = @ \ gone]
          /\ gone = whole \/ o = "written"
    BY <1>1
  <2>2. /\ work'.pc = "write" /\ work'.ovs = work.ovs /\ work'.sort = work.sort /\ work'.cfg = work.cfg
        /\ work'.facts = work.facts /\ work'.clean = work.clean \ gone
        /\ t # s => work'.out[t] = work.out[t]
    BY <2>1, <1>3 DEF MetaShape, WorkShape
  <2>3. PassPair(t, f) /\ <<t, f>> \notin gone
    BY <1>8, <2>2 DEF Known, PassKnows
  <2>4. t = s => Holds(t, f)'
    <3> SUFFICES ASSUME t = s PROVE Holds(t, f)'
      OBVIOUS
    <3>1. gone = unsure /\ gone # whole /\ <<s, f>> \notin unsure
      BY <1>5, <2>3
    <3>2. Wished(s, f, after[f]) /\ shown'[s] = after
      BY <1>1, <1>3, <1>4, <3>1
    <3> QED
      BY <1>2, <3>2, WishesKept
  <2> QED
    BY <1>2, <1>6, <2>2, <2>3, <2>4 DEF PassPair
<1>9. ASSUME NEW t \in Servers, NEW f \in MetaFields, <<t, f>> \in redo'.clean
      PROVE  RetryPair(t, f)'
  <2>1. /\ redo'.pc = redo.pc /\ redo'.cfg = redo.cfg /\ redo'.facts = redo.facts /\ redo'.ovs = redo.ovs
        /\ redo'.at = redo.at /\ redo'.view = redo.view /\ redo'.clean = redo.clean \ gone
    BY <1>1 DEF MetaShape, RedoShape
  <2>2. RetryPair(t, f) /\ <<t, f>> \notin gone
    BY <1>9, <2>1 DEF Known, RetryKnows
  <2> QED
    BY <1>2, <1>6, <2>1, <2>2 DEF RetryPair
<1> QED
  BY <1>7, <1>8, <1>9 DEF Known, PassKnows, RetryKnows

\* Where a sort position moves and nothing else does.
LEMMA PositionMoves ==
  ASSUME WorldShape, UNCHANGED <<shown, cfg, ov, provider>>, NEW s \in Servers, NEW f \in MetaFields
  PROVE  /\ Inert(f)' <=> Inert(f)
         /\ ~Inert(f) => (Holds(s, f)' <=> Holds(s, f))
         /\ pos'.st # "held" => (Holds(s, f) => Holds(s, f)')
<1>1. cfg.verb[f] \in Verbs
  BY OperationsAssumption DEF WorldShape
<1>2. Inert(f)' <=> Inert(f)
  BY DEF Inert
<1>3. ~Inert(f) => (Holds(s, f)' <=> Holds(s, f))
  BY <1>1 DEF Inert, Holds, Verbs
<1>4. pos'.st # "held" => (Holds(s, f) => Holds(s, f)')
  BY DEF Holds
<1> QED
  BY <1>2, <1>3, <1>4

LEMMA PositionRetry ==
  ASSUME WorldShape, RetryKnows, UNCHANGED <<shown, cfg, ov, provider, redo>>
  PROVE  RetryKnows'
<1> SUFFICES ASSUME NEW s \in Servers, NEW f \in MetaFields, <<s, f>> \in redo.clean
             PROVE  RetryPair(s, f)'
  BY DEF RetryKnows
<1>1. RetryPair(s, f)
  BY DEF RetryKnows
<1>2. (Inert(f)' <=> Inert(f)) /\ (~Inert(f) => (Holds(s, f)' <=> Holds(s, f)))
  BY PositionMoves
<1> QED
  BY <1>1, <1>2 DEF RetryPair

LEMMA CommitKnows ==
  ASSUME MetaShape, Known, PassCommits
  PROVE  Known'
<1>1. UNCHANGED <<shown, cfg, ov, provider, redo>> /\ work' = NoWork /\ pos' \in {pos, Unplaced}
  BY DEF PassCommits
<1>2. RetryKnows' /\ PassKnows'
  BY <1>1, PositionRetry, IdleShapes DEF Known, MetaShape, PassKnows
<1>3. ASSUME NEW s \in Servers, NEW f \in MetaFields, <<s, f>> \notin metaGhost'.dirty
      PROVE  Holds(s, f)'
  <2>1. metaGhost'.dirty = (metaGhost.dirty \ {p \in work.clean : work.out[p[1]] = "written"})
                             \cup (IF DropsTombstone /\ pos.st = "held" THEN Everywhere("sort") ELSE {})
    BY DEF PassCommits, MetaShape, GhostShape
  <2>2. Holds(s, f)
    <3>1. CASE <<s, f>> \notin metaGhost.dirty
      BY <3>1, KnownOf
    <3>2. CASE <<s, f>> \in work.clean /\ work.out[s] = "written"
      BY <3>2 DEF Known, PassKnows, PassPair
    <3> QED
      BY <1>3, <2>1, <3>1, <3>2
  <2>3. f = "sort" => pos' = pos \/ pos.st # "held"
    <3> SUFFICES ASSUME f = "sort", pos' # pos PROVE pos.st # "held"
      OBVIOUS
    <3>1. DropsTombstone
      BY DEF PassCommits
    <3>2. <<s, f>> \in Everywhere("sort")
      BY DEF Everywhere
    <3> QED
      BY <1>3, <2>1, <3>1, <3>2
  <2>4. CASE pos' = pos \/ f # "sort"
    BY <1>1, <2>2, <2>4, WishesKept DEF Undisturbed
  <2>5. CASE pos' = Unplaced /\ f = "sort"
    <3>1. pos'.st # "held"
      BY <2>5 DEF Unplaced
    <3> QED
      BY <1>1, <2>2, <3>1, PositionMoves DEF MetaShape
  <2> QED
    BY <1>1, <2>4, <2>5
<1> QED
  BY <1>2, <1>3 DEF Known, WrittenMeansShown, Pairs

LEMMA WantedAlone ==
  ASSUME NEW o \in Outcomes, NEW d \in Wanted(o)
  PROVE  (CHOOSE x \in Wanted(o) : TRUE) = d
<1>1. PICK c : Wanted(o) = {c}
  <2>1. CASE Claims(o, First)
    BY <2>1 DEF Wanted
  <2>2. CASE ~Claims(o, First)
    <3> DEFINE c == {x \in Others : Claims(o, x)}
    <3>1. Wanted(o) = IF c = {} THEN {} ELSE {CHOOSE x \in c : TRUE}
      BY <2>2 DEF Wanted
    <3> HIDE DEF c
    <3>2. Wanted(o) = {CHOOSE x \in c : TRUE}
      BY <3>1
    <3> QED
      BY <3>2
  <2> QED
    BY <2>1, <2>2
<1> QED
  BY <1>1

LEMMA CollectionsKnows ==
  ASSUME MetaShape, Known, CollectionsPass
  PROVE  Known'
<1>1. PICK o \in Outcomes :
        /\ pos' = IF Wanted(o) # {} THEN [st |-> "held", def |-> CHOOSE d \in Wanted(o) : TRUE]
                  ELSE IF Releases(o) THEN [pos EXCEPT !.st = "released"] ELSE pos
        /\ IF Changed(o) \/ Releases(o)
           THEN /\ work' = [work EXCEPT !.clean = @ \ Everywhere("sort")]
                /\ metaGhost' = [metaGhost EXCEPT !.dirty = @ \cup Everywhere("sort"),
                                          !.outage = @ \/ (Releases(o) /\ o[pos.def].lists)]
           ELSE UNCHANGED <<work, metaGhost>>
  BY DEF CollectionsPass
<1>2. UNCHANGED <<shown, cfg, ov, provider, redo>>
  BY DEF CollectionsPass
<1>3. RetryKnows'
  BY <1>2, PositionRetry DEF Known, MetaShape
<1>4. CASE Changed(o) \/ Releases(o)
  <2>1. \A s \in Servers, f \in MetaFields : <<s, f>> \notin Everywhere("sort") => Undisturbed(s, f)
    BY <1>2 DEF Undisturbed, Everywhere
  <2>2. work'.clean \subseteq work.clean \ Everywhere("sort") /\ work' = [work EXCEPT !.clean = work'.clean]
    BY <1>1, <1>4, SamePasses
  <2>3. PassKnows'
    BY <2>1, <2>2, PassUndisturbed DEF Known, MetaShape
  <2>4. ASSUME NEW s \in Servers, NEW f \in MetaFields, <<s, f>> \notin metaGhost'.dirty
        PROVE  Holds(s, f)'
    <3>1. metaGhost'.dirty = metaGhost.dirty \cup Everywhere("sort")
      BY <1>1, <1>4 DEF MetaShape, GhostShape
    <3>2. Holds(s, f) /\ Undisturbed(s, f)
      BY <2>1, <2>4, <3>1, KnownOf
    <3> QED
      BY <3>2, WishesKept DEF Undisturbed
  <2> QED
    BY <1>3, <2>3, <2>4 DEF Known, WrittenMeansShown, Pairs
<1>5. CASE ~(Changed(o) \/ Releases(o))
  <2>1. pos' = pos
    <3>1. CASE Wanted(o) = {}
      BY <1>1, <1>5, <3>1
    <3>2. CASE Wanted(o) # {}
      <4>1. pos.st = "held" /\ pos.def \in Wanted(o)
        BY <1>5, <3>2 DEF Changed
      <4>2. pos' = [st |-> "held", def |-> pos.def]
        BY <1>1, <3>2, <4>1, WantedAlone
      <4> QED
        BY <4>1, <4>2 DEF MetaShape, WorldShape
    <3> QED
      BY <3>1, <3>2
  <2>2. UNCHANGED <<work, metaGhost>>
    BY <1>1, <1>5
  <2>3. \A s \in Servers, f \in MetaFields : <<s, f>> \notin {} => Undisturbed(s, f)
    BY <1>2, <2>1, EveryPairUndisturbed
  <2>4. /\ work'.clean \subseteq work.clean \ {} /\ work' = [work EXCEPT !.clean = work'.clean]
        /\ redo'.clean \subseteq redo.clean \ {} /\ redo' = [redo EXCEPT !.clean = redo'.clean]
        /\ metaGhost.dirty \cup {} \subseteq metaGhost'.dirty
    BY <1>2, <2>2, SamePasses
  <2> QED
    BY <2>3, <2>4, KnownUndisturbed
<1> QED
  BY <1>4, <1>5

LEMMA RetryUpToItsWrite ==
  ASSUME MetaShape, Known, RetryReads \/ \E s \in Retried : RetryPicks(s)
  PROVE  Known'
<1>1. UNCHANGED <<shown, cfg, ov, provider, pos, work, metaGhost>>
  BY DEF RetryReads, RetryPicks
<1>2. PassKnows'
  <2>1. \A s \in Servers, f \in MetaFields : <<s, f>> \notin {} => Undisturbed(s, f)
    BY <1>1, EveryPairUndisturbed
  <2>2. work'.clean \subseteq work.clean \ {} /\ work' = [work EXCEPT !.clean = work'.clean]
    BY <1>1, SamePasses
  <2> QED
    BY <2>1, <2>2, PassUndisturbed DEF Known, MetaShape
<1>3. WrittenMeansShown'
  BY <1>1 DEF Known, WrittenMeansShown, Holds
<1>4. ASSUME NEW s \in Servers, NEW f \in MetaFields, <<s, f>> \in redo'.clean
      PROVE  RetryPair(s, f)'
  <2>1. (Holds(s, f)' <=> Holds(s, f)) /\ (Inert(f)' <=> Inert(f))
    BY <1>1, WishesKept DEF Undisturbed
  <2>2. CASE UNCHANGED redo
    BY <1>1, <1>4, <2>1, <2>2 DEF RetryPair, Known, RetryKnows
  <2>3. CASE redo' = NoRetry
    BY <1>4, <2>3, IdleShapes
  <2>4. CASE RetryReads /\ redo' = [redo EXCEPT !.pc = "send", !.view = shown[redo.at]]
    <3>1. /\ redo'.clean = redo.clean /\ redo'.cfg = redo.cfg /\ redo'.ovs = redo.ovs /\ redo'.facts = redo.facts
          /\ redo'.at = redo.at /\ redo'.view = shown[redo.at]
      BY <2>4 DEF MetaShape, RedoShape
    <3>2. RetryPair(s, f)
      BY <1>4, <3>1 DEF Known, RetryKnows
    <3> QED
      BY <1>1, <3>1, <3>2 DEF RetryPair
  <2>5. ASSUME NEW t \in Retried,
               redo' = [NoRetry EXCEPT !.pc = "read", !.cfg = cfg, !.at = t, !.facts = FactsFromRow, !.ovs = ov,
                                       !.clean = {t} \X {g \in MetaFields : stored[g] \in {0, provider[g]}}]
        PROVE  RetryPair(s, f)'
    <3>1. /\ redo'.pc = "read" /\ redo'.cfg = cfg /\ redo'.ovs = ov /\ redo'.facts = stored
          /\ redo'.clean = {t} \X {g \in MetaFields : stored[g] \in {0, provider[g]}}
      BY <2>5 DEF NoRetry, FactsFromRow
    <3> QED
      BY <1>1, <1>4, <3>1 DEF RetryPair
  <2> QED
    BY <2>2, <2>3, <2>4, <2>5 DEF RetryReads, RetryPicks
<1> QED
  BY <1>2, <1>3, <1>4 DEF Known, RetryKnows

LEMMA RetrySendKnows ==
  ASSUME MetaShape, Known, RetrySends
  PROVE  Known'
<1> DEFINE s == redo.at
           edits == PlanEdits(redo.view, redo.facts, KeepValue, redo.ovs, redo.cfg)
           after == Sent(s, redo.view, edits)
           unsure == Unsure(s, redo.view, redo.clean)
<1>1. /\ shown' \in {shown, [shown EXCEPT ![s] = after]}
      /\ work' = [work EXCEPT !.clean = @ \ unsure]
      /\ metaGhost' = [metaGhost EXCEPT !.dirty = @ \cup unsure]
      /\ redo' = NoRetry
  BY DEF RetrySends
<1>2. redo.pc = "send" /\ UNCHANGED <<cfg, ov, provider, pos>>
  BY DEF RetrySends
<1>3. s \in Servers /\ shown \in [Servers -> [MetaFields -> Cell]]
  BY DEF MetaShape, RedoShape, WorldShape
<1>4. \A f \in MetaFields : <<s, f>> \notin unsure => after[f] = shown[s][f] \/ Wished(s, f, after[f])
  BY <1>2, RetryWrites DEF Known
<1> HIDE DEF s, edits, after, unsure
<1>5. ASSUME NEW t \in Servers, NEW f \in MetaFields, <<t, f>> \notin unsure
      PROVE  /\ shown'[t][f] = shown[t][f] \/ Holds(t, f)'
             /\ Holds(t, f) => Holds(t, f)'
             /\ WithSortPosition' = WithSortPosition
  <2>1. shown'[t][f] = shown[t][f] \/ Wished(t, f, shown'[t][f])
    BY <1>1, <1>3, <1>4, <1>5
  <2> QED
    BY <1>2, <2>1, WriteHolds
<1>6. WrittenMeansShown'
  <2>1. metaGhost'.dirty = metaGhost.dirty \cup unsure
    BY <1>1 DEF MetaShape, GhostShape
  <2>2. ASSUME NEW t \in Servers, NEW f \in MetaFields, <<t, f>> \notin metaGhost'.dirty
        PROVE  Holds(t, f)'
    BY <1>5, <2>1, <2>2, KnownOf
  <2> QED
    BY <2>2 DEF WrittenMeansShown, Pairs
<1>7. ASSUME NEW t \in Servers, NEW f \in MetaFields, <<t, f>> \in work'.clean
      PROVE  PassPair(t, f)'
  <2>1. /\ work'.pc = work.pc /\ work'.ovs = work.ovs /\ work'.sort = work.sort /\ work'.cfg = work.cfg
        /\ work'.facts = work.facts /\ work'.clean = work.clean \ unsure /\ work'.out = work.out
        /\ work'.at = work.at /\ work'.view = work.view
    BY <1>1 DEF MetaShape, WorkShape
  <2>2. PassPair(t, f) /\ <<t, f>> \notin unsure
    BY <1>7, <2>1 DEF Known, PassKnows
  <2> QED
    BY <1>2, <1>5, <2>1, <2>2 DEF PassPair
<1> QED
  BY <1>1, <1>6, <1>7, IdleShapes DEF Known, PassKnows, RetryKnows

\* What is known is kept by every step.
LEMMA KnownStep ==
  ASSUME MetaShape, Known, [MetadataNext]_metadataVars
  PROVE  Known'
<1>1. CASE UNCHANGED metadataVars
  <2>1. \A s \in Servers, f \in MetaFields : <<s, f>> \notin {} => Undisturbed(s, f)
    BY <1>1, EveryPairUndisturbed DEF metadataVars
  <2>2. UNCHANGED <<work, redo, metaGhost>>
    BY <1>1 DEF metadataVars
  <2>3. /\ work'.clean \subseteq work.clean \ {} /\ work' = [work EXCEPT !.clean = work'.clean]
        /\ redo'.clean \subseteq redo.clean \ {} /\ redo' = [redo EXCEPT !.clean = redo'.clean]
        /\ metaGhost.dirty \cup {} \subseteq metaGhost'.dirty
    BY <2>2, SamePasses
  <2> QED
    BY <2>1, <2>3, KnownUndisturbed
<1>2. CASE MetadataNext
  BY <1>2, GatherKnows, LoadReadKnows, SendKnows, CommitKnows, RetryUpToItsWrite, RetrySendKnows, CollectionsKnows,
     OutsideKnows, ServerSideKnows, CrashKnows DEF MetadataNext
<1> QED
  BY <1>1, <1>2

-----------------------------------------------------------------------------
(* The answers of the pass, the outage and the memory of the facts.         *)

\* Who changes which part of the history.
LEMMA HistoryOf ==
  ASSUME MetaShape, [MetadataNext]_metadataVars
  PROVE  /\ PassGathers \/ (stored' = stored /\ metaGhost'.last = metaGhost.last)
         /\ PassCommits \/ metaGhost'.alone = metaGhost.alone
         /\ CollectionsPass \/ metaGhost'.outage = metaGhost.outage
<1> DEFINE Kept == /\ PassGathers \/ (stored' = stored /\ metaGhost'.last = metaGhost.last)
                   /\ PassCommits \/ metaGhost'.alone = metaGhost.alone
                   /\ CollectionsPass \/ metaGhost'.outage = metaGhost.outage
<1>g. metaGhost = [dirty |-> metaGhost.dirty, outage |-> metaGhost.outage, last |-> metaGhost.last, alone |-> metaGhost.alone]
  BY DEF MetaShape, GhostShape
<1>1. \A P : metaGhost' = [metaGhost EXCEPT !.dirty = P]
              => metaGhost'.last = metaGhost.last /\ metaGhost'.alone = metaGhost.alone /\ metaGhost'.outage = metaGhost.outage
  BY <1>g
<1>2. CASE PassGathers
  BY <1>2, <1>g DEF PassGathers
<1>3. CASE PassCommits
  BY <1>3, <1>g DEF PassCommits
<1>4. CASE CollectionsPass
  BY <1>4, <1>g DEF CollectionsPass
<1>5. CASE PassLoads \/ PassReads \/ RetryReads \/ CollEnqueues \/ LabelToggles \/ Requeued \/ \E s \in Retried : RetryPicks(s)
  BY <1>5 DEF PassLoads, PassReads, RetryReads, CollEnqueues, LabelToggles, Requeued, RetryPicks
<1>6. CASE PassSends
  BY <1>6, <1>1 DEF PassSends
<1>7. CASE RetrySends
  BY <1>7, <1>1 DEF RetrySends
<1>8. CASE DeleteDrops \/ ConfigMoves \/ \E f \in MetaFields : PutOverride(f) \/ DeleteUnlocks(f)
  BY <1>8, <1>1 DEF DeleteDrops, ConfigMoves, PutOverride, DeleteUnlocks, Disturb
<1>9. CASE (\E p \in Touched : AgentFills(p[1], p[2]) \/ PersonEdits(p[1], p[2])) \/ \E f \in Sourced : ProviderMoves(f)
  BY <1>9, <1>1 DEF AgentFills, PersonEdits, ProviderMoves, Disturb
<1>10. CASE MetadataCrash
  BY <1>10, <1>1 DEF MetadataCrash
<1>11. CASE UNCHANGED metadataVars
  BY <1>11 DEF metadataVars
<1> QED
  BY <1>2, <1>3, <1>4, <1>5, <1>6, <1>7, <1>8, <1>9, <1>10, <1>11 DEF MetadataNext

LEMMA MemoryStep ==
  ASSUME MetaShape, FactsRemember, [MetadataNext]_metadataVars
  PROVE  FactsRemember'
<1>1. CASE PassGathers
  <2>a. PICK answered \in {Sourced, {}}, r \in {Servers, {"plex"}} :
          \E reading \in {[f \in MetaFields |-> IF f \in answered THEN provider[f] ELSE 0]} :
             /\ stored' = Coalesced(reading)
             /\ work' = [NoWork EXCEPT !.pc = "load", !.cfg = cfg, !.facts = reading, !.on = r, !.todo = r,
                                       !.clean = r \X (MetaFields \ (Sourced \ answered))]
             /\ metaGhost' = [metaGhost EXCEPT !.last = [f \in MetaFields |-> IF reading[f] # 0 THEN reading[f] ELSE @[f]]]
    BY <1>1 DEF PassGathers
  <2>b. PICK reading : /\ stored' = Coalesced(reading)
                     /\ metaGhost' = [metaGhost EXCEPT !.last = [f \in MetaFields |-> IF reading[f] # 0 THEN reading[f] ELSE @[f]]]
    BY <2>a
  <2> QED
    BY <2>b DEF FactsRemember, Coalesced, MetaShape, GhostShape
<1>2. CASE stored' = stored /\ metaGhost'.last = metaGhost.last
  BY <1>2 DEF FactsRemember
<1> QED
  BY <1>1, <1>2, HistoryOf

\* A position is released only where its definition ran and no longer lists the item.
LEMMA OutageStep ==
  ASSUME MetaShape, OutageStripsNothing, [MetadataNext]_metadataVars
  PROVE  OutageStripsNothing'
<1>1. CASE CollectionsPass
  <2>1. PICK o \in Outcomes :
          IF Changed(o) \/ Releases(o)
          THEN metaGhost' = [metaGhost EXCEPT !.dirty = @ \cup Everywhere("sort"),
                                              !.outage = @ \/ (Releases(o) /\ o[pos.def].lists)]
          ELSE UNCHANGED metaGhost
    BY <1>1 DEF CollectionsPass
  <2>2. ~(Releases(o) /\ o[pos.def].lists)
    <3> SUFFICES ASSUME Releases(o), o[pos.def].lists PROVE FALSE
      OBVIOUS
    <3>1. pos.def \in Defs
      BY DEF MetaShape, WorldShape
    <3>2. Wanted(o) = {} /\ Settled(o, pos.def)
      BY DEF Releases
    <3>3. o[pos.def] \in [lists : BOOLEAN, run : {"ran", "failed", "unnamed"}]
      BY <3>1 DEF Outcomes
    <3>4. o[pos.def].run = "ran"
      BY <3>1, <3>2, <3>3 DEF Settled
    <3>5. Claims(o, pos.def)
      BY <3>3, <3>4 DEF Claims
    <3> QED
      BY <3>1, <3>2, <3>5, WantedClaims
  <2> QED
    BY <2>1, <2>2 DEF OutageStripsNothing, MetaShape, GhostShape
<1>2. CASE metaGhost'.outage = metaGhost.outage
  BY <1>2 DEF OutageStripsNothing
<1> QED
  BY <1>1, <1>2, HistoryOf

\* A pass answers for a server as it is done with it.
LEMMA AnswersStep ==
  ASSUME MetaShape, Answered, ServersStandAlone, [MetadataNext]_metadataVars
  PROVE  Answered' /\ ServersStandAlone'
<1>w. /\ work.pc \in {"idle", "load", "write", "send"} /\ work.at \in Servers /\ work.out \in [Servers -> Outs]
      /\ work.todo \subseteq Servers /\ work.on \subseteq Servers
  BY DEF MetaShape, WorkShape
<1>1. CASE PassCommits
  <2>1. Answered'
    BY <1>1, IdleShapes DEF PassCommits, Answered
  <2>2. \A s \in work.on : work.out[s] # "none"
    BY <1>1 DEF PassCommits, Answered
  <2>3. metaGhost'.alone = (metaGhost.alone /\ \A s \in work.on : work.out[s] # "none")
    BY <1>1 DEF PassCommits, MetaShape, GhostShape
  <2> QED
    BY <2>1, <2>2, <2>3 DEF ServersStandAlone
<1>2. CASE ~PassCommits
  <2>1. ServersStandAlone'
    BY <1>2, HistoryOf DEF ServersStandAlone
  <2>2. CASE PassGathers
    <3>1. PICK answered \in {Sourced, {}}, r \in {Servers, {"plex"}} :
            \E reading \in {[f \in MetaFields |-> IF f \in answered THEN provider[f] ELSE 0]} :
               /\ stored' = Coalesced(reading)
               /\ work' = [NoWork EXCEPT !.pc = "load", !.cfg = cfg, !.facts = reading, !.on = r, !.todo = r,
                                         !.clean = r \X (MetaFields \ (Sourced \ answered))]
               /\ metaGhost' = [metaGhost EXCEPT !.last = [f \in MetaFields |-> IF reading[f] # 0 THEN reading[f] ELSE @[f]]]
      BY <2>2 DEF PassGathers
    <3>2. work'.on = r /\ work'.todo = r
      BY <3>1 DEF NoWork
    <3> QED
      BY <2>1, <3>2 DEF Answered
  <2>3. CASE PassReads
    <3>1. PICK t \in {NextServer} :
            work' = IF ~work.cfg.write[t] \/ exempt
                    THEN [work EXCEPT !.todo = @ \ {t}, !.out[t] = "skipped"]
                    ELSE [work EXCEPT !.pc = "send", !.at = t, !.view = shown[t]]
      BY <2>3 DEF PassReads
    <3>t. t \in Servers
      BY DEF NextServer, Servers
    <3>2. CASE work' = [work EXCEPT !.todo = @ \ {t}, !.out[t] = "skipped"]
      <4>1. /\ work'.on = work.on /\ work'.todo = work.todo \ {t}
            /\ work'.out = [work.out EXCEPT ![t] = "skipped"]
        BY <3>2 DEF MetaShape, WorkShape
      <4> QED
        BY <1>w, <2>1, <3>t, <4>1 DEF Answered
    <3>3. CASE work' = [work EXCEPT !.pc = "send", !.at = t, !.view = shown[t]]
      <4>1. work'.on = work.on /\ work'.todo = work.todo /\ work'.out = work.out
        BY <3>3 DEF MetaShape, WorkShape
      <4> QED
        BY <2>1, <4>1 DEF Answered
    <3> QED
      BY <3>1, <3>2, <3>3
  <2>4. CASE PassSends
    <3>1. PICK o \in {"written", "pending"} : \E gone :
            work' = [work EXCEPT !.pc = "write", !.todo = @ \ {work.at}, !.out[work.at] = o, !.clean = @ \ gone]
      BY <2>4 DEF PassSends, OneDown
    <3>2. /\ work'.on = work.on /\ work'.todo = work.todo \ {work.at}
          /\ work'.out = [work.out EXCEPT ![work.at] = o]
      BY <3>1 DEF MetaShape, WorkShape
    <3> QED
      BY <1>w, <2>1, <3>1, <3>2 DEF Answered
  <2>5. CASE MetadataCrash
    BY <2>1, <2>5, IdleShapes DEF MetadataCrash, Answered
  <2>6. CASE work'.on = work.on /\ work'.todo = work.todo /\ work'.out = work.out
    BY <2>1, <2>6 DEF Answered
  <2>k. ASSUME NEW P, work' = [work EXCEPT !.clean = P]
        PROVE  work'.on = work.on /\ work'.todo = work.todo /\ work'.out = work.out
    BY <2>k DEF MetaShape, WorkShape
  <2>7. CASE PassLoads
    BY <2>6, <2>7 DEF PassLoads, MetaShape, WorkShape
  <2>8. CASE RetryReads \/ CollEnqueues \/ LabelToggles \/ Requeued \/ (\E s \in Retried : RetryPicks(s)) \/ UNCHANGED metadataVars
    BY <2>6, <2>8 DEF RetryReads, CollEnqueues, LabelToggles, Requeued, RetryPicks, metadataVars
  <2>9. CASE RetrySends \/ CollectionsPass \/ DeleteDrops \/ ConfigMoves \/ \E f \in MetaFields : PutOverride(f) \/ DeleteUnlocks(f)
    BY <2>6, <2>9, <2>k DEF RetrySends, CollectionsPass, DeleteDrops, ConfigMoves, PutOverride, DeleteUnlocks, Disturb, Unsettle
  <2>10. CASE (\E p \in Touched : AgentFills(p[1], p[2]) \/ PersonEdits(p[1], p[2])) \/ \E f \in Sourced : ProviderMoves(f)
    BY <2>6, <2>10, <2>k DEF AgentFills, PersonEdits, ProviderMoves, Disturb, Unsettle
  <2> QED
    BY <1>2, <2>2, <2>3, <2>4, <2>5, <2>7, <2>8, <2>9, <2>10 DEF MetadataNext
<1> QED
  BY <1>1, <1>2

-----------------------------------------------------------------------------
\* The inductive invariant of the metadata half.
THEOREM MetadataInvariant == MetadataSpec => []MetaInv
<1>1. MetadataInit => MetaInv
  <2> SUFFICES ASSUME MetadataInit PROVE MetaInv
    OBVIOUS
  <2>1. MetaShape /\ metaGhost = NoGhost
    BY MetaShapeInit
  <2>2. work = NoWork /\ redo = NoRetry /\ stored = Blank
    BY DEF MetadataInit
  <2>3. WrittenMeansShown /\ ServersStandAlone /\ OutageStripsNothing /\ FactsRemember
    BY <2>1, <2>2 DEF NoGhost, WrittenMeansShown, ServersStandAlone, OutageStripsNothing, FactsRemember
  <2>4. PassKnows /\ RetryKnows /\ Answered
    BY <2>2, IdleShapes DEF PassKnows, RetryKnows, Answered
  <2> QED
    BY <2>1, <2>3, <2>4 DEF MetaInv
<1>2. MetaInv /\ [MetadataNext]_metadataVars => MetaInv'
  BY MetaShapeStep, KnownStep, MemoryStep, OutageStep, AnswersStep DEF MetaInv, Known
<1> QED
  BY <1>1, <1>2, PTL DEF MetadataSpec

\* metadata_writes and item_facts: a row says "written" only of what the server shows, a
\* server's failure is its own, an outage strips no sort title, and the stored facts keep
\* the last reading of every provider.
THEOREM MetadataIsSafe == MetadataSpec => []MetadataSafety
<1>1. MetaInv => MetadataTypeOK
  <2> SUFFICES ASSUME MetaInv PROVE MetadataTypeOK
    OBVIOUS
  <2>1. \A s \in Servers, f \in MetaFields : shown[s][f].val \in Values /\ shown[s][f].lock \in {"none", "off", "on"}
    BY DEF MetaInv, MetaShape, WorldShape, Cell, Marks
  <2>2. \A f \in MetaFields \ Lockable : shown["jellyfin"][f].lock = "none"
    BY DEF MetaInv, MetaShape, WorldShape, Cells, Servers
  <2> QED
    BY <2>1, <2>2 DEF MetaInv, MetaShape, WorldShape, RowsShape, Readings, MetadataTypeOK
<1>2. MetaInv => MetadataSafety
  BY <1>1 DEF MetaInv, MetadataSafety
<1> QED
  BY <1>2, MetadataInvariant, PTL

\* The planner's edits: none blanks a field but a `remove' verb or a released sort title.
LEMMA EditsBlankNothing ==
  ASSUME NEW f, NEW cur, NEW o \in {0, Wish}, NEW fact \in Readings, NEW sort, NEW c,
         f # "sort", c.verb[f] # "remove"
  PROVE  FieldEdit(f, cur, o, fact, sort, c).val # 0
<1>1. KeepValue # 0 /\ Wish # 0
  BY DEF KeepValue, Wish
<1>2. CASE o # 0
  BY <1>1, <1>2 DEF FieldEdit, OverrideEdit, EnsureLocked, Nothing, Put
<1>3. CASE o = 0 /\ c.verb[f] # "none"
  BY <1>1, <1>3 DEF FieldEdit, VerbEdit, Nothing
<1>4. CASE o = 0 /\ c.verb[f] = "none"
  BY <1>1, <1>4 DEF FieldEdit, FactEdit, EnsureLocked, Nothing, Put
<1> QED
  BY <1>2, <1>3, <1>4

LEMMA SentKeepsPlex ==
  ASSUME WorldShape, NEW view, NEW reading \in [MetaFields -> Readings], NEW sort, NEW ovs \in [MetaFields -> {0, Wish}],
         NEW c, NEW f \in MetaFields, f # "sort", c.verb[f] # "remove", shown["plex"][f].val # 0
  PROVE  Sent("plex", view, PlanEdits(view, reading, sort, ovs, c))[f].val # 0
<1> DEFINE edits == PlanEdits(view, reading, sort, ovs, c)
<1>1. edits[f] = FieldEdit(f, view[f], ovs[f], reading[f], sort, c)
  BY PlannedPerField
<1>2. ovs[f] \in {0, Wish} /\ reading[f] \in Readings
  OBVIOUS
<1>3. edits[f].val # 0
  BY <1>1, <1>2, EditsBlankNothing
<1> HIDE DEF edits
<1>4. Sent("plex", view, edits)[f].val = IF edits[f].val = KeepValue THEN shown["plex"][f].val ELSE edits[f].val
  BY DEF Sent, Edited
<1>5. Sent("plex", view, edits)[f].val # 0
  BY <1>3, <1>4
<1> QED
  BY <1>5 DEF edits

\* plan_metadata_edits: nothing the service writes blanks a field on Plex but a `remove'
\* verb or a released sort title.
THEOREM NothingBlanked == MetadataSpec => NothingIsBlanked
<1> DEFINE Blanking(f) == shown["plex"][f].val # 0 /\ shown'["plex"][f].val = 0
           Asked(f) == f = "sort" \/ work.cfg.verb[f] = "remove" \/ redo.cfg.verb[f] = "remove"
<1>1. MetaInv /\ [MetadataNext]_metadataVars => [\A f \in MetaFields : Blanking(f) => Asked(f)]_metadataVars
  <2> SUFFICES ASSUME MetaInv, MetadataNext, NEW f \in MetaFields, Blanking(f), ~Asked(f) PROVE FALSE
    OBVIOUS
  <2>1. /\ shown \in [Servers -> [MetaFields -> Cell]] /\ "plex" \in Servers /\ WorldShape
        /\ work.facts \in [MetaFields -> Readings] /\ work.ovs \in [MetaFields -> {0, Wish}] /\ work.at \in Servers
        /\ redo.facts \in [MetaFields -> Readings] /\ redo.ovs \in [MetaFields -> {0, Wish}] /\ redo.at \in Servers
    BY DEF MetaInv, MetaShape, WorldShape, WorkShape, RedoShape, Servers
  <2>2. shown' # shown
    OBVIOUS
  <2>3. CASE PassSends
    <3> DEFINE after == Sent(work.at, work.view, PlanEdits(work.view, work.facts, work.sort, work.ovs, work.cfg))
    <3>1. shown' = [shown EXCEPT ![work.at] = after]
      BY <2>2, <2>3 DEF PassSends
    <3>2. work.at = "plex" => after[f].val # 0
      BY <2>1, SentKeepsPlex
    <3> HIDE DEF after
    <3> QED
      BY <2>1, <3>1, <3>2
  <2>4. CASE RetrySends
    <3> DEFINE after == Sent(redo.at, redo.view, PlanEdits(redo.view, redo.facts, KeepValue, redo.ovs, redo.cfg))
    <3>1. shown' = [shown EXCEPT ![redo.at] = after]
      BY <2>2, <2>4 DEF RetrySends
    <3>2. redo.at = "plex" => after[f].val # 0
      BY <2>1, SentKeepsPlex
    <3> HIDE DEF after
    <3> QED
      BY <2>1, <3>1, <3>2
  <2>5. ASSUME NEW g \in MetaFields, DeleteUnlocks(g) PROVE FALSE
    <3>1. shown' = [shown EXCEPT !["plex"][g].lock = "off"]
      BY <2>2, <2>5 DEF DeleteUnlocks
    <3> QED
      BY <2>1, <3>1 DEF Cell
  <2>6. ASSUME NEW p \in Touched, AgentFills(p[1], p[2]) PROVE FALSE
    <3>1. shown' = [shown EXCEPT ![p[1]][p[2]].val = Agent]
      BY <2>6 DEF AgentFills
    <3> QED
      BY <2>1, <3>1 DEF Cell, Agent
  <2>7. ASSUME NEW p \in Touched, PersonEdits(p[1], p[2]) PROVE FALSE
    <3>1. PICK k : shown' = [shown EXCEPT ![p[1]][p[2]] = [val |-> Hand, lock |-> k]]
      BY <2>7 DEF PersonEdits
    <3> QED
      BY <2>1, <3>1 DEF Hand
  <2> QED
    BY <2>2, <2>3, <2>4, <2>5, <2>6, <2>7 DEF MetadataNext, PassGathers, PassLoads, PassReads, PassCommits, RetryReads,
       RetryPicks, CollectionsPass, CollEnqueues, PutOverride, DeleteDrops, ConfigMoves, LabelToggles, Requeued,
       MetadataCrash, ProviderMoves
<1> QED
  BY <1>1, MetadataInvariant, PTL DEF MetadataSpec, NothingIsBlanked
=============================================================================
