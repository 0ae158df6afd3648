------------------------------ MODULE Playlists ------------------------------
(***************************************************************************)
(* Managed playlists: the pass of collections/playlists.py over every      *)
(* definition and preset, the fan-out into other accounts                  *)
(* (collections/playlist_users.py), the delete sweep that ends the pass,   *)
(* and the delete request of api/playlists.py.                             *)
(*                                                                         *)
(* A playlist carries no label, so a database row naming its rating key is *)
(* the only thing that says it is this service's.  The server's listing is *)
(* read once at the start of the pass, a user's once when their copy is    *)
(* planned; people create, rename, edit and delete playlists meanwhile.    *)
(* Members are the sequence of items; a hash is the members, and the mode  *)
(* they were wanted under.                                                 *)
(***************************************************************************)
EXTENDS Naturals, Sequences, FiniteSets, SequencesExt

CONSTANTS
    Titles,         \* titles a definition or preset may have
    Presets,        \* the preset table: a subset of Titles
    Users,          \* accounts a playlist may be copied to
    Sources,        \* the lists a source may return; <<>> is a failed fetch
    Configs,        \* the configurations an operator may load
    MaxDeletes, MaxUsers, MaxUserWrites,    \* the caps of the playlists section
    Events          \* bound: passes, requests, outside changes, crashes

VARIABLES
    config,     \* the current configuration
    source,     \* what each title's builder would return
    lists,      \* live playlists: [key -> [acct, title, items, by, made]]
    rows,       \* managed_playlists and managed_playlist_users
    pass,       \* the scheduled pass
    op,         \* the delete request
    keys,       \* rating keys handed out
    budget,
    ghost       \* history used by the properties only

vars == <<config, source, lists, rows, pass, op, keys, budget, ghost>>

Admin == "admin"
Accounts == {Admin} \cup Users
NoRow == [key |-> 0, members |-> <<>>, mode |-> "none"]
NoPass == [pc |-> "idle", cfg |-> CHOOSE c \in Configs : TRUE, dry |-> TRUE, listed |-> {},
           todo |-> {}, cur |-> "none", key |-> 0, fresh |-> FALSE, removing |-> {},
           got |-> [t \in Titles |-> <<>>], plan |-> {}, doomed |-> {}, gone |-> {}]
NoOp == [pc |-> "idle", title |-> "none"]
Clean == [awrites |-> 0, uwrites |-> 0, deleted |-> 0, harmed |-> {}, edited |-> {}, torn |-> {}, wrong |-> {}]

Init ==
    /\ config \in Configs
    /\ source \in [Titles -> Sources \ {<<>>}]
    /\ lists = [k \in {} |-> NoRow]
    /\ rows = [p \in Accounts \X Titles |-> NoRow]
    /\ pass = NoPass
    /\ op = NoOp
    /\ keys = 0
    /\ budget = Events
    /\ ghost = Clean

Spend == budget > 0 /\ budget' = budget - 1

Live == DOMAIN lists
Without(f, S) == [k \in DOMAIN f \ S |-> f[k]]

(* playlist_presets.playlist_definitions: presets that are on and not       *)
(* shadowed, then the operator's own.  Titles are what the sweep and the    *)
(* pass compare.                                                            *)
Composed(c) == (c.presets \cap Presets) \cup c.defs

Harm(k) == IF lists[k].by = "person" THEN {k} ELSE {}

-----------------------------------------------------------------------------
(* Starting a pass.  `todo' is taken in a fixed order.                      *)

PassStarts ==
    /\ pass.pc = "idle"
    /\ Spend
    /\ pass' = [NoPass EXCEPT !.pc = "next", !.cfg = config, !.dry = ~config.apply,
                              !.listed = {[key |-> k, title |-> lists[k].title] : k \in {x \in Live : lists[x].acct = Admin}},
                              !.todo = Composed(config)]
    /\ ghost' = [ghost EXCEPT !.awrites = 0, !.uwrites = 0, !.deleted = 0]
    /\ UNCHANGED <<config, source, lists, rows, op, keys>>

(* member_diff: what is missing, and under sync what is extra.              *)
MemberDiff(k, items, mode) ==
    [adding |-> SelectSeq(items, LAMBDA x : x \notin Range(lists[k].items)),
     removing |-> IF mode = "append" THEN {} ELSE Range(lists[k].items) \ Range(items)]

ListedKeys == {l.key : l \in pass.listed}

(* Ours is a row whose rating key the listing has.                          *)
OwnedKey(t) == IF rows[<<Admin, t>>].key \in ListedKeys THEN rows[<<Admin, t>>].key ELSE 0

Stranger(t) == \E l \in pass.listed : l.title = t

Skip(t) == pass' = [pass EXCEPT !.todo = @ \ {t}]

NextTitle == CHOOSE t \in pass.todo : TRUE

(* What the builders resolved: one source failing, an unmatched library or  *)
(* an empty result all end as nothing.                                      *)
Resolved(t) == {source[t], <<>>}

Unchanged(t, k, items) == k # 0 /\ rows[<<Admin, t>>] = [key |-> k, members |-> items, mode |-> pass.cfg.mode]

(* One definition up to its first write.  A failed or empty source touches  *)
(* nothing; a title somebody else holds is left alone; an unchanged hash is *)
(* only re-stamped.                                                         *)
ReconcileOne ==
    /\ pass.pc = "next"
    /\ pass.todo # {}
    /\ \E t \in {NextTitle} : \E items \in Resolved(t) : \E k \in {OwnedKey(t)} :
          \/ items = <<>> /\ Skip(t)
          \/ items # <<>> /\ k = 0 /\ Stranger(t) /\ Skip(t)
          \/ /\ items # <<>>
             /\ k # 0 \/ ~Stranger(t)
             /\ IF Unchanged(t, k, items) \/ pass.dry
                THEN pass' = [pass EXCEPT !.todo = @ \ {t}, !.got[t] = items]
                ELSE pass' = [pass EXCEPT !.pc = "write", !.cur = t, !.key = k, !.got[t] = items]
    /\ UNCHANGED <<config, source, lists, rows, op, keys, budget, ghost>>

Abandoned == [pass EXCEPT !.pc = "next", !.todo = @ \ {pass.cur}, !.cur = "none", !.key = 0, !.fresh = FALSE,
                          !.removing = {}]

(* A new playlist: one request, then the summary, then the row.             *)
CreatePlaylist ==
    /\ pass.pc = "write"
    /\ pass.key = 0
    /\ \/ pass' = Abandoned /\ UNCHANGED <<lists, keys, ghost>>
       \/ /\ keys' = keys + 1
          /\ lists' = [k \in Live \cup {keys + 1} |->
                          IF k \in Live THEN lists[k]
                          ELSE [acct |-> Admin, title |-> pass.cur, items |-> pass.got[pass.cur],
                                by |-> "service", made |-> pass.cur]]
          /\ pass' = [pass EXCEPT !.pc = "stamp", !.key = keys + 1, !.fresh = TRUE,
                                  !.listed = @ \cup {[key |-> keys + 1, title |-> pass.cur]}]
          /\ ghost' = [ghost EXCEPT !.awrites = @ + 1]
    /\ UNCHANGED <<config, source, rows, op, budget>>

(* An existing one: the diff is taken, then the additions are sent.         *)
AddMembers ==
    /\ pass.pc = "write"
    /\ pass.key # 0
    /\ IF pass.key \notin Live THEN pass' = Abandoned /\ UNCHANGED <<lists, ghost>>
       ELSE \E d \in {MemberDiff(pass.key, pass.got[pass.cur], pass.cfg.mode)} :
            \/ pass' = Abandoned /\ UNCHANGED <<lists, ghost>>
            \/ /\ lists' = [lists EXCEPT ![pass.key].items = @ \o d.adding]
               /\ pass' = [pass EXCEPT !.pc = "remove", !.removing = d.removing]
               /\ ghost' = [ghost EXCEPT !.awrites = @ + 1, !.harmed = @ \cup Harm(pass.key),
                                         !.torn = @ \cup {pass.key}]
    /\ UNCHANGED <<config, source, rows, op, keys, budget>>

Ordered(members, items) ==
    LET extra == SelectSeq(members, LAMBDA x : x \notin Range(items)) IN
    SelectSeq(items, LAMBDA x : x \in Range(members)) \o extra

RemoveAndOrder ==
    /\ pass.pc = "remove"
    /\ IF pass.key \notin Live THEN pass' = Abandoned /\ UNCHANGED <<lists>>
       ELSE \/ pass' = Abandoned /\ UNCHANGED lists
            \/ \E left \in {SelectSeq(lists[pass.key].items, LAMBDA x : x \notin pass.removing)} :
                  /\ lists' = [lists EXCEPT ![pass.key].items =
                                  IF pass.cfg.mode = "append" THEN left ELSE Ordered(left, pass.got[pass.cur])]
                  /\ pass' = [pass EXCEPT !.pc = "stamp"]
    /\ UNCHANGED <<config, source, rows, op, keys, budget, ghost>>

(* The summary, the row and the commit; a failure rolls the row back and    *)
(* leaves whatever reached Plex.                                            *)
Stamped(a, t, k, items) == rows' = [rows EXCEPT ![<<a, t>>] = [key |-> k, members |-> items, mode |-> pass.cfg.mode]]

Stamp ==
    /\ pass.pc = "stamp"
    /\ \/ /\ Stamped(Admin, pass.cur, pass.key, pass.got[pass.cur])
          /\ ghost' = [ghost EXCEPT !.torn = @ \ {pass.key}]
       \/ UNCHANGED <<rows, ghost>>
    /\ pass' = Abandoned
    /\ UNCHANGED <<config, source, lists, op, keys, budget>>

-----------------------------------------------------------------------------
(* The fan-out: planned whole, refused whole, then applied entry by entry.  *)

Targets(c, t) == IF t \in c.defs THEN c.sync[t] ELSE {}

Fanout == UNION {{<<u, t>> : u \in Targets(pass.cfg, t)} : t \in {x \in Composed(pass.cfg) : pass.got[x] # <<>>}}

Behind(p) == rows[p].members # pass.got[p[2]] \/ rows[p].mode # pass.cfg.mode

(* From the stored rows alone, before any session is opened.                *)
EstimatedWrites == Cardinality({p \in Fanout : Behind(p)})

Width == Cardinality({p[1] : p \in Fanout})

UserKey(p) == IF rows[p].key \in Live THEN rows[p].key ELSE 0

Foreign(p) == \E k \in Live : lists[k].acct = p[1] /\ lists[k].title = p[2]

(* What one copy needs: a create, an update by diff, only a stamp, or       *)
(* nothing at all.                                                          *)
Entry(p) ==
    LET k == UserKey(p)
        items == pass.got[p[2]]
        d == IF k = 0 THEN [adding |-> items, removing |-> {}] ELSE MemberDiff(k, items, pass.cfg.mode) IN
    [pair |-> p, key |-> k, adding |-> d.adding, removing |-> d.removing,
     writes |-> IF k = 0 THEN 1
                ELSE IF ~Behind(p) THEN 0
                ELSE (IF d.adding = <<>> THEN 0 ELSE 1) + Cardinality(d.removing)]

Writes(plan) == LET with(n) == {e \in plan : e.writes >= n} IN
    Cardinality(with(1)) + Cardinality(with(2)) + Cardinality(with(3))

NoSecondLook(plan) == FALSE

CapRefusal(plan) == Writes(plan) > MaxUserWrites

UsersInPlay == (\E t \in Composed(pass.cfg) : Targets(pass.cfg, t) # {}) \/ (\E u \in Users, t \in Titles : rows[<<u, t>>] # NoRow)

(* The users plex.tv minted a session for; an owner's token it refuses or   *)
(* that is not the owner's leaves none.                                     *)
Sessions == SUBSET Users

ToSweep == [pass EXCEPT !.pc = "sweep", !.plan = {}]

(* A user plex.tv gives no session for is left out and reported.  A refusal *)
(* takes the users out of the sweep as well.                                *)
PlanUsers ==
    /\ pass.pc = "next"
    /\ pass.todo = {}
    /\ \/ ~UsersInPlay /\ pass' = [ToSweep EXCEPT !.key = 0]
       \/ UsersInPlay /\ pass' = [ToSweep EXCEPT !.key = 0]
       \/ /\ UsersInPlay
          /\ Width <= MaxUsers
          /\ EstimatedWrites <= MaxUserWrites
          /\ \E reached \in Sessions :
             \E plan \in {{Entry(p) : p \in {q \in Fanout : q[1] \in reached /\ (UserKey(q) # 0 \/ ~Foreign(q))}}} :
                pass' = IF CapRefusal(plan) THEN [ToSweep EXCEPT !.key = 0]
                        ELSE [pass EXCEPT !.pc = IF pass.cfg.userApply /\ ~pass.dry THEN "users" ELSE "sweep",
                                          !.plan = IF pass.cfg.userApply /\ ~pass.dry THEN plan ELSE {}, !.key = 1]
    /\ UNCHANGED <<config, source, lists, rows, op, keys, budget, ghost>>

NextEntry == CHOOSE e \in pass.plan : TRUE

Finished(e) == pass' = [pass EXCEPT !.plan = @ \ {e}, !.pc = IF pass.plan = {e} THEN "sweep" ELSE "users", !.fresh = FALSE]

(* Only the stamp, a create under their token, or the planned diff; the     *)
(* plan is not taken again.                                                 *)
ApplyEntry ==
    /\ pass.pc = "users"
    /\ pass.plan # {}
    /\ \E e \in {NextEntry} :
          \/ /\ e.writes = 0
             /\ e.key # 0
             /\ Stamped(e.pair[1], e.pair[2], e.key, pass.got[e.pair[2]])
             /\ Finished(e)
             /\ UNCHANGED <<lists, keys, ghost>>
          \/ Finished(e) /\ UNCHANGED <<lists, rows, keys, ghost>>
          \/ /\ e.key = 0
             /\ keys' = keys + 1
             /\ lists' = [k \in Live \cup {keys + 1} |->
                             IF k \in Live THEN lists[k]
                             ELSE [acct |-> e.pair[1], title |-> e.pair[2], items |-> e.adding,
                                   by |-> "service", made |-> e.pair[2]]]
             /\ pass' = [pass EXCEPT !.pc = "ustamp", !.plan = (@ \ {e}) \cup {[e EXCEPT !.key = keys + 1]}, !.fresh = TRUE,
                                     !.cur = e.pair[2]]
             /\ ghost' = [ghost EXCEPT !.uwrites = @ + 1]
             /\ UNCHANGED rows
          \/ /\ e.key \in Live
             /\ e.writes > 0
             /\ lists' = [lists EXCEPT ![e.key].items =
                             SelectSeq(@ \o e.adding, LAMBDA x : x \notin e.removing)]
             /\ pass' = [pass EXCEPT !.pc = "ustamp", !.cur = e.pair[2], !.fresh = FALSE]
             /\ ghost' = [ghost EXCEPT !.uwrites = @ + e.writes, !.harmed = @ \cup Harm(e.key),
                                       !.torn = @ \cup {e.key}]
             /\ UNCHANGED <<rows, keys>>
    /\ UNCHANGED <<config, source, op, budget>>

(* A copy just created whose row cannot be kept is deleted again.           *)
UserStamp ==
    /\ pass.pc = "ustamp"
    /\ \E e \in {x \in pass.plan : x.pair[2] = pass.cur /\ x.key # 0} :
          /\ Finished(e)
          /\ \/ /\ Stamped(e.pair[1], e.pair[2], e.key, pass.got[e.pair[2]])
                /\ ghost' = [ghost EXCEPT !.torn = @ \ {e.key}]
                /\ UNCHANGED lists
             \/ /\ lists' \in {lists} \cup IF pass.fresh THEN {Without(lists, {e.key})} ELSE {}
                /\ UNCHANGED <<rows, ghost>>
    /\ UNCHANGED <<config, source, op, keys, budget>>

-----------------------------------------------------------------------------
(* The sweep: what a row of ours names and no definition asks for any more. *)

Managed == Composed(pass.cfg)

AdminCandidates == {<<Admin, t>> : t \in {x \in Titles \ Managed : OwnedKey(x) # 0}}

Wanted == UNION {{<<u, t>> : u \in Targets(pass.cfg, t)} : t \in Composed(pass.cfg)}

StaleUserRows == {p \in Users \X Titles : p \notin Wanted /\ rows[p] # NoRow}

UserCandidates == {p \in StaleUserRows : rows[p].key \in Live}

AdminOnly(mine, users) == Cardinality(mine)

Deletions(mine, users) == Cardinality(mine) + Cardinality(users)

(* plan_user_sync's refusal, or a sweep over more users than the cap, takes *)
(* the user copies out of the sweep.                                        *)
UsersSwept ==
    /\ pass.cfg.userApply /\ ~pass.dry
    /\ Cardinality({p[1] : p \in StaleUserRows}) <= MaxUsers

(* User copies are looked at only when the fan-out was allowed to run, and  *)
(* counted only when they may be deleted.                                   *)
Sweeps ==
    /\ pass.pc = "sweep"
    /\ \E mine \in {AdminCandidates} :
       \E seen \in IF pass.key = 1 THEN SUBSET UserCandidates ELSE {{}} :
       \E users \in {IF UsersSwept THEN seen ELSE {}} :
          pass' = IF \/ ~pass.cfg.sweep
                     \/ Deletions(mine, users) > MaxDeletes
                  THEN NoPass
                  ELSE [pass EXCEPT !.pc = "delete", !.doomed = (IF pass.dry THEN {} ELSE mine) \cup users]
    /\ UNCHANGED <<config, source, lists, rows, op, keys, budget, ghost>>

DeleteOne ==
    /\ pass.pc = "delete"
    /\ pass.doomed # {}
    /\ \E p \in {CHOOSE q \in pass.doomed : TRUE} : \E k \in {rows[p].key} :
          \/ pass' = [pass EXCEPT !.doomed = @ \ {p}] /\ UNCHANGED <<lists, ghost>>
          \/ /\ k \in Live
             /\ lists' = Without(lists, {k})
             /\ pass' = [pass EXCEPT !.doomed = @ \ {p}, !.gone = @ \cup {p}]
             /\ ghost' = [ghost EXCEPT !.deleted = @ + 1, !.harmed = @ \cup Harm(k),
                                       !.wrong = IF p[2] \in Composed(pass.cfg) /\ (p[1] = Admin \/ p \in Wanted)
                                                 THEN @ \cup {p} ELSE @]
    /\ UNCHANGED <<config, source, rows, op, keys, budget>>

(* The row deletions and their audit are one commit at the end.             *)
SweepCommits ==
    /\ pass.pc = "delete"
    /\ pass.doomed = {}
    /\ rows' \in {rows, [p \in DOMAIN rows |-> IF p \in pass.gone THEN NoRow ELSE rows[p]]}
    /\ pass' = NoPass
    /\ UNCHANGED <<config, source, lists, op, keys, budget, ghost>>

-----------------------------------------------------------------------------
(* POST /playlists/ops/delete: through the row, or retiring it.             *)

OpDeletes(t) ==
    /\ op.pc = "idle"
    /\ rows[<<Admin, t>>] # NoRow
    /\ Spend
    /\ \E k \in {rows[<<Admin, t>>].key} :
          /\ lists' = Without(lists, {k})
          /\ ghost' = [ghost EXCEPT !.harmed = @ \cup (IF k \in Live THEN Harm(k) ELSE {})]
    /\ op' = [pc |-> "commit", title |-> t]
    /\ UNCHANGED <<config, source, rows, pass, keys>>

OpCommits ==
    /\ op.pc = "commit"
    /\ rows' \in {rows, [rows EXCEPT ![<<Admin, op.title>>] = NoRow]}
    /\ op' = NoOp
    /\ UNCHANGED <<config, source, lists, pass, keys, budget, ghost>>

-----------------------------------------------------------------------------
(* The outside.                                                             *)

ConfigMoves ==
    /\ Spend
    /\ \E c \in Configs \ {config} : config' = c
    /\ UNCHANGED <<source, lists, rows, pass, op, keys, ghost>>

SourceMoves(t) ==
    /\ Spend
    /\ \E s \in Sources \ {source[t], <<>>} : source' = [source EXCEPT ![t] = s]
    /\ UNCHANGED <<config, lists, rows, pass, op, keys, ghost>>

PersonCreates(a, t) ==
    /\ Spend
    /\ keys' = keys + 1
    /\ lists' = [k \in Live \cup {keys + 1} |->
                    IF k \in Live THEN lists[k]
                    ELSE [acct |-> a, title |-> t, items |-> <<>>, by |-> "person", made |-> "none"]]
    /\ UNCHANGED <<config, source, rows, pass, op, ghost>>

PersonRenames(k) ==
    /\ lists[k].title # "renamed"
    /\ Spend
    /\ lists' = [lists EXCEPT ![k].title = "renamed"]
    /\ UNCHANGED <<config, source, rows, pass, op, keys, ghost>>

PersonEdits(k) ==
    /\ lists[k].items # <<>>
    /\ Spend
    /\ lists' = [lists EXCEPT ![k].items = Tail(@)]
    /\ ghost' = [ghost EXCEPT !.edited = @ \cup {k}]
    /\ UNCHANGED <<config, source, rows, pass, op, keys>>

PersonDeletes(k) ==
    /\ Spend
    /\ lists' = Without(lists, {k})
    /\ UNCHANGED <<config, source, rows, pass, op, keys, ghost>>

Crash ==
    /\ pass.pc # "idle" \/ op.pc # "idle"
    /\ Spend
    /\ pass' = NoPass
    /\ op' = NoOp
    /\ UNCHANGED <<config, source, lists, rows, keys, ghost>>

-----------------------------------------------------------------------------
Next ==
    \/ PassStarts \/ ReconcileOne \/ CreatePlaylist \/ AddMembers \/ RemoveAndOrder \/ Stamp
    \/ PlanUsers \/ ApplyEntry \/ UserStamp
    \/ Sweeps \/ DeleteOne \/ SweepCommits
    \/ OpCommits \/ ConfigMoves \/ Crash
    \/ \E t \in Titles : OpDeletes(t) \/ SourceMoves(t)
    \/ \E a \in Accounts, t \in Titles : PersonCreates(a, t)
    \/ \E k \in Live : PersonRenames(k) \/ PersonEdits(k) \/ PersonDeletes(k)

Spec == Init /\ [][Next]_vars

-----------------------------------------------------------------------------
TypeOK ==
    /\ config \in Configs
    /\ source \in [Titles -> Sources]
    /\ Live \subseteq 1..keys
    /\ \A p \in DOMAIN rows : rows[p].key \in 0..keys
    /\ pass.todo \subseteq Titles
    /\ \A k \in Live : lists[k].acct \in Accounts /\ IsInjective(lists[k].items)

(* A playlist somebody else made is never changed or deleted, whatever its  *)
(* title, in the owner's account or in a user's (playlists.py, Ownership).  *)
StrangersAreSafe == ghost.harmed = {}

(* However creates, stamps and passes fail, an account never holds two      *)
(* playlists this service made under one definition's title.                *)
NoTwins ==
    \A j, k \in Live :
        (j # k /\ lists[j].by = "service" /\ lists[k].by = "service" /\ lists[j].acct = lists[k].acct)
            => ~(lists[j].title = lists[k].title /\ lists[j].title # "renamed")

(* A row's hash is what the next pass trusts instead of reading members: it *)
(* describes the playlist it names, unless a person has edited it or an     *)
(* update of it was cut short and has not been repeated since.              *)
HashIsTrue ==
    \A p \in DOMAIN rows :
        LET r == rows[p] IN
        (r.key \in Live /\ r.key \notin ghost.edited \cup ghost.torn)
            => \/ lists[r.key].items = r.members
               \/ p[1] # Admin /\ Range(lists[r.key].items) = Range(r.members)
               \/ r.mode = "append" /\ Range(r.members) \subseteq Range(lists[r.key].items)

(* One pass deletes at most max_deletes playlists, user copies included,    *)
(* and writes at most max_user_writes to other accounts; a dry run none.    *)
CapsHold ==
    pass.pc # "idle" =>
        /\ ghost.deleted <= MaxDeletes
        /\ ghost.uwrites <= MaxUserWrites
        /\ pass.dry => ghost.awrites + ghost.uwrites + ghost.deleted = 0

(* The sweep deletes nothing the same pass builds, presets included.        *)
SweepSparesTheWanted == ghost.wrong = {}

\* Somebody else's playlist is never touched, no title is made twice, a row's hash is
\* true, the caps hold and the sweep spares what the pass wants.
Safety ==
    /\ TypeOK
    /\ StrangersAreSafe
    /\ NoTwins
    /\ HashIsTrue
    /\ CapsHold
    /\ SweepSparesTheWanted
=============================================================================
