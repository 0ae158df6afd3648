----------------------------- MODULE Deployment -----------------------------
(* A deployment from its first start: the entrypoint's decision, the setup  *)
(* wizard, the secrets pages and the server cards, through crashes, outages *)
(* of the database and restarts that keep the process environment.          *)
(*                                                                          *)
(* A credential has three layers: the row in the secrets table, the state   *)
(* file, the environment.  Each is a partial function from secret names to  *)
(* values.  The entrypoint publishes the winners into its own environment,  *)
(* which an in-place restart inherits and a new container does not.  The    *)
(* configuration document is the set of media servers it configures.        *)
EXTENDS Integers, FiniteSets

CONSTANTS Names, Db, Web,    \* secret names; the database URL; the webhook secret
          Hard,              \* names no start can do without
          Servers, Cred,     \* media servers; Cred[s]: the name of s's credential
          Envs,              \* environments a deployment may be given
          None, Cards,
          MaxStarts, MaxChanges

Values == {"env", "typed", "minted", "set", "rotated"}
Layer == UNION {[S -> Values] : S \in SUBSET Names}

ASSUME NamesAssumption == Hard \subseteq Names /\ {Db, Web} \subseteq Hard /\ Db # Web
ASSUME CredAssumption ==
    /\ Cred \in [Servers -> Names \ Hard]
    /\ \A s, t \in Servers : Cred[s] = Cred[t] => s = t
ASSUME EnvsAssumption == Envs \subseteq Layer
ASSUME NoneAssumption ==
    /\ \A S \in (SUBSET Servers) \cup (SUBSET Names) : None # S
    /\ None \notin Values /\ \A f \in Layer : None # f

VARIABLES env,       \* what the container's own environment holds
          environ,   \* the environment of the running process
          marks,     \* the three markers published beside it
          statefile,      \* secrets.env in the state directory
          rows,      \* the secrets table
          migrated,  \* whether the tables exist
          docfile,   \* the configuration document on the volume, or None
          docrow,    \* the configuration document in the store, or None
          mode,      \* "off", "boot", "wizard", "app"
          held,      \* app.state.secrets
          wiz,       \* what the wizard holds in memory
          card,       \* card[r]: a server card's request between its two steps
          last,      \* history: how the last start began, and whether it was blind
          starts, changes

volume == <<statefile, docfile>>
database == <<rows, migrated, docrow>>
process == <<environ, marks, mode, held>>
counts == <<starts, changes>>
deploymentVars == <<env, process, volume, database, wiz, card, last, counts>>

Nothing == <<>>
With(f, g) == [n \in DOMAIN f \cup DOMAIN g |-> IF n \in DOMAIN g THEN g[n] ELSE f[n]]
Without(f, S) == [n \in DOMAIN f \ S |-> f[n]]
One(n, v) == [m \in {n} |-> v]

----------------------------------------------------------------------------
(* Resolving a credential. *)

NoMarks == [stored |-> None, file |-> None, environment |-> None]

\* _boot_exported_copies: names whose environment value is an echo of a row the
\* caller has looked for and not found.
Echoes(stored) ==
    IF stored = None \/ marks.stored = None THEN {} ELSE marks.stored \ DOMAIN stored

Found(stored) == IF stored = None THEN Nothing ELSE stored

\* _environment_is_complete: the state file is not opened.
EnvironmentComplete(stored) ==
    /\ Found(stored) = Nothing
    /\ Echoes(stored) = {}
    /\ Hard \subseteq DOMAIN environ

\* resolve_secret_values: stored, then the state file, then the environment.
Resolve(stored) ==
    IF EnvironmentComplete(stored) THEN environ
    ELSE With(With(Without(environ, Echoes(stored)), statefile), Found(stored))

EnvironmentNames == IF marks.environment = None THEN DOMAIN environ ELSE marks.environment

\* _state_file_names, for a process that has its markers.
StateFileNames(stored) ==
    IF EnvironmentComplete(stored) /\ marks.file # None THEN marks.file
    ELSE (IF marks.file = None THEN {} ELSE marks.file) \cup DOMAIN statefile

\* secret_sources: where the running value of a name comes from.
Source(n, stored) ==
    IF n \in DOMAIN stored THEN "stored"
    ELSE IF n \in StateFileNames(stored) THEN "state file"
    ELSE IF n \in EnvironmentNames THEN "environment"
    ELSE "unset"

\* missing_server_setup, as its negation.
ServersUsable(d, resolved) == d # {} /\ \A s \in d : Cred[s] \in DOMAIN resolved

----------------------------------------------------------------------------
(* The entrypoint. *)

NoWizard == [token |-> FALSE, staged |-> Nothing, doc |-> None, step |-> "steps",
             doc2 |-> None]

Off(e, m) ==
    /\ environ' = e
    /\ marks' = m
    /\ held' = Nothing
    /\ wiz' = NoWizard
    /\ card' = [r \in Cards |-> None]

\* The orchestrator starts a container: its environment, and no markers.
Start ==
    /\ mode = "off" /\ starts < MaxStarts
    /\ mode' = "boot"
    /\ Off(env, NoMarks)
    /\ last' = [by |-> "container", blind |-> FALSE]
    /\ starts' = starts + 1
    /\ UNCHANGED <<env, volume, database, changes>>

\* The container dies; so does a boot that exits non-zero.
Exits ==
    /\ mode' = "off"
    /\ Off(Nothing, NoMarks)

Killed ==
    /\ mode \in {"wizard", "app"}
    /\ Exits
    /\ UNCHANGED <<env, volume, database, last, counts>>

\* stored_secrets_for_boot: the rows, or nothing when there is no database to
\* ask, no table yet, or no answer.
ReadSecrets(resolved, answered) ==
    IF Db \in DOMAIN resolved /\ migrated /\ answered THEN rows ELSE Nothing

ReadDocument(resolved, answered) ==
    IF Db \in DOMAIN resolved /\ migrated /\ answered THEN docrow ELSE None

\* is_configured: the store's document, or else the file's.
IsConfigured(resolved, d) ==
    LET document == IF d # None THEN d ELSE docfile
    IN  Hard \subseteq DOMAIN resolved /\ document # None /\ ServersUsable(document, resolved)

\* _export, a plain assignment.
Export(resolved) == With(environ, resolved)

\* main: resolve, read both halves of the store, publish, decide.  The
\* application that comes up seeds the store with the file's document.
Boot ==
    /\ mode = "boot"
    /\ \E secretsAnswer, documentAnswers, migrates \in BOOLEAN :
        LET first == Resolve(None)
            stored == ReadSecrets(first, secretsAnswer)
            resolved == IF stored = Nothing THEN first ELSE Resolve(stored)
            failed == Db \in DOMAIN first /\ ~secretsAnswer
            document == ReadDocument(resolved, documentAnswers)
            exported == Export(resolved)
            marked == [stored |-> DOMAIN stored,
                       file |-> IF stored = Nothing /\ Hard \subseteq EnvironmentNames THEN {}
                                ELSE DOMAIN statefile \ DOMAIN stored,
                       environment |-> EnvironmentNames]
        IN  /\ Db \notin DOMAIN first => secretsAnswer /\ documentAnswers /\ migrates
            /\ last' = [last EXCEPT !.blind = ~(secretsAnswer /\ documentAnswers)]
            /\ \/ /\ IsConfigured(resolved, document) /\ migrates
                  /\ mode' = "app"
                  /\ migrated' = TRUE
                  /\ environ' = exported /\ marks' = marked
                  /\ held' = exported
                  /\ docrow' = IF docrow = None THEN docfile ELSE docrow
                  /\ UNCHANGED <<wiz, card>>
               \/ /\ \/ IsConfigured(resolved, document) /\ ~migrates
                     \/ /\ ~IsConfigured(resolved, document)
                        /\ ~(Hard \subseteq DOMAIN resolved) /\ failed
                     \/ /\ ~IsConfigured(resolved, document)
                        /\ Hard \subseteq DOMAIN resolved
                        /\ document = None /\ docfile = None
                  /\ Exits
                  /\ UNCHANGED <<migrated, docrow>>
               \/ /\ ~IsConfigured(resolved, document)
                  /\ IF Hard \subseteq DOMAIN resolved
                     THEN ~(document = None /\ docfile = None) ELSE ~failed
                  /\ mode' = "wizard"
                  /\ environ' = exported /\ marks' = marked
                  /\ held' = Nothing
                  /\ wiz' = [NoWizard EXCEPT !.doc2 = document]
                  /\ UNCHANGED <<card, migrated, docrow>>
    /\ UNCHANGED <<env, volume, rows, counts>>

----------------------------------------------------------------------------
(* The wizard. *)

Effective == With(Resolve(None), wiz.staged)

ConfigReady == wiz.doc2 # None \/ docfile # None \/ wiz.doc # None

\* _document_for_boot: the store's, the staged one, or the file's.
DocumentForBoot ==
    IF wiz.doc2 # None THEN wiz.doc2 ELSE IF wiz.doc # None THEN wiz.doc ELSE docfile

\* set_master_password: a successful proof mints the token every other step needs.
Password ==
    /\ mode = "wizard" /\ ~wiz.token
    /\ wiz' = [wiz EXCEPT !.token = TRUE]
    /\ UNCHANGED <<env, process, volume, database, card, last, counts>>

InSteps == mode = "wizard" /\ wiz.token /\ wiz.step = "steps"

\* set_database_url, set_provider_keys and poll_plex_pin: staged in memory; the
\* webhook secret is minted with the first keys when nothing resolves it.
Stage(n) ==
    /\ mode = "wizard" /\ wiz.token /\ wiz.step \in {"steps", "checked"}
    /\ n # Web
    /\ LET s == With(wiz.staged, One(n, "typed"))
           minted == n # Db /\ Web \notin DOMAIN With(Resolve(None), s)
       IN  /\ s # wiz.staged \/ minted
           /\ wiz' = [wiz EXCEPT !.staged = IF minted THEN With(s, One(Web, "minted")) ELSE s]
    /\ UNCHANGED <<env, process, volume, database, card, last, counts>>

\* stage_config_document: only where no document resolves.
StageConfig ==
    /\ mode = "wizard" /\ wiz.token /\ wiz.step \in {"steps", "checked"}
    /\ docfile = None /\ wiz.doc2 = None
    /\ \E typed \in (SUBSET Servers) \ {{}} :
           LET d == typed \cup (IF wiz.doc = None THEN {} ELSE wiz.doc)
           IN  d # wiz.doc /\ wiz' = [wiz EXCEPT !.doc = d]
    /\ UNCHANGED <<env, process, volume, database, card, last, counts>>

\* finish, before it takes the lock: what is unmet is refused, and the database
\* has to answer.  Another tab may still stage while it waits for the answer.
FinishChecks ==
    /\ InSteps
    /\ Hard \subseteq DOMAIN Effective
    /\ ConfigReady
    /\ ServersUsable(DocumentForBoot, Effective)
    /\ wiz' = [wiz EXCEPT !.step = "checked"]
    /\ UNCHANGED <<env, process, volume, database, card, last, counts>>

Refuse == wiz' = [wiz EXCEPT !.step = "steps"]

\* The order of finish's writes, under the lock.
FinishSteps == [checked |-> "document", document |-> "address", address |-> "migrate",
                migrate |-> "store", store |-> "secrets", secrets |-> "confirm"]

Went == wiz' = [wiz EXCEPT !.step = FinishSteps[wiz.step]]

\* The document goes to the volume; a volume that refuses ends the request.
WriteDocument ==
    /\ FinishSteps[wiz.step] = "document"
    /\ \/ /\ docfile' = IF wiz.doc = None THEN docfile ELSE wiz.doc
          /\ Went
       \/ Refuse /\ UNCHANGED docfile
    /\ UNCHANGED <<statefile, database>>

WriteAddress ==
    /\ FinishSteps[wiz.step] = "address"
    /\ \/ /\ statefile' = With(statefile, Without(wiz.staged, Names \ {Db}))
          /\ Went
       \/ Refuse /\ UNCHANGED statefile
    /\ UNCHANGED <<docfile, database>>

\* _migrate_for_the_store: a failure is not a refusal.
MigrateForStore ==
    /\ FinishSteps[wiz.step] = "migrate"
    /\ migrated' \in {migrated, TRUE}
    /\ Went
    /\ UNCHANGED <<volume, rows, docrow>>

\* _write_document_to_store: seeds an empty store; a database that fails refuses.
StoreDocument ==
    /\ FinishSteps[wiz.step] = "store"
    /\ \/ /\ docrow' = IF migrated /\ wiz.doc # None /\ docrow = None THEN wiz.doc ELSE docrow
          /\ Went
       \/ Refuse /\ wiz.doc # None /\ UNCHANGED docrow
    /\ UNCHANGED <<volume, rows, migrated>>

\* The names the table can answer: reading it takes the database URL.
ToStore == Without(wiz.staged, {Db})

\* _persist_staged_secrets: the table, or the state file where there is none.
StoreSecrets ==
    /\ FinishSteps[wiz.step] = "secrets"
    /\ \/ /\ rows' = IF migrated THEN With(rows, ToStore) ELSE rows
          /\ statefile' = IF migrated THEN statefile ELSE With(statefile, ToStore)
          /\ Went
       \/ Refuse /\ ToStore # Nothing /\ UNCHANGED <<rows, statefile>>
    /\ UNCHANGED <<docfile, migrated, docrow>>

Finish ==
    /\ mode = "wizard" /\ wiz.step \in DOMAIN FinishSteps
    /\ WriteDocument \/ WriteAddress \/ MigrateForStore \/ StoreDocument \/ StoreSecrets
    /\ UNCHANGED <<env, process, card, last, counts>>

\* Mutant: what was written is not read back.
ConfirmedBlindly(answered) == TRUE

\* The read-back: what the next start would resolve, and its decision.  The
\* document asked is the one the wizard was handed, or else the file's.
Confirmed(answered) ==
    LET stored == IF ~migrated THEN Nothing
                  ELSE IF answered THEN rows ELSE ToStore
        resolved == Resolve(IF stored = Nothing THEN None ELSE stored)
    IN  IsConfigured(resolved, wiz.doc2)

\* The wizard execs the entrypoint: the environment is inherited.
Restarts(e, by) ==
    /\ mode' = "boot"
    /\ Off(e, marks)
    /\ last' = [by |-> by, blind |-> FALSE]

Confirm ==
    /\ mode = "wizard" /\ wiz.step \in DOMAIN FinishSteps
    /\ FinishSteps[wiz.step] = "confirm"
    /\ \E answered \in BOOLEAN :
        \/ /\ Confirmed(answered)
           /\ Restarts(environ, IF last.blind THEN "blind finish" ELSE "finish")
        \/ /\ ~Confirmed(answered)
           /\ Refuse
           /\ UNCHANGED <<process, card, last>>
    /\ UNCHANGED <<env, volume, database, counts>>

----------------------------------------------------------------------------
(* The running application: secrets, rotation, server cards, restart. *)

Running == mode = "app" /\ changes < MaxChanges

Republish(n, v) == held' = IF v = None THEN Without(held, {n}) ELSE With(held, One(n, v))

\* set_secret: any name but the database URL and the generated one.
SetSecret(n) ==
    /\ Running /\ n \notin {Db, Web}
    /\ rows' = With(rows, One(n, "set"))
    /\ Republish(n, "set")
    /\ changes' = changes + 1
    /\ UNCHANGED <<env, environ, marks, mode, volume, migrated, docrow, wiz, card, last, starts>>

\* clear_stored_secret's guard: nothing would answer a name no start can miss.
ClearRefused(n) == Source(n, Without(rows, {n})) = "unset" /\ n \in Hard

\* clear_stored_secret: the row goes and the next layer's value is republished.
Cleared(n) ==
    LET left == Without(rows, {n})
        now == Resolve(left)
    IN  /\ ~ClearRefused(n)
        /\ rows' = left
        /\ Republish(n, IF n \in DOMAIN now THEN now[n] ELSE None)

ClearSecret(n) ==
    /\ Running /\ n \in DOMAIN rows /\ \A s \in Servers : n # Cred[s]
    /\ Cleared(n)
    /\ changes' = changes + 1
    /\ UNCHANGED <<env, environ, marks, mode, volume, migrated, docrow, wiz, card, last, starts>>

\* rotate_webhook_secret: written to the layer that answers the name.
Rotate ==
    /\ Running
    /\ LET source == Source(Web, rows)
       IN  \/ /\ source = "stored"
              /\ rows' = With(rows, One(Web, "rotated"))
              /\ UNCHANGED statefile
           \/ /\ source \in {"state file", "unset"}
              /\ statefile' = With(statefile, One(Web, "rotated"))
              /\ UNCHANGED rows
    /\ Republish(Web, "rotated")
    /\ changes' = changes + 1
    /\ UNCHANGED <<env, environ, marks, mode, docfile, migrated, docrow, wiz, card, last, starts>>

StoredDocument == IF docrow = None THEN docfile ELSE docrow

\* Mutant: only the hard names are guarded.
KeepsACredentialUnasked(s) == TRUE

\* clear_server_credential's guard: a configured server keeps a credential.
KeepsACredential(s) ==
    s \in StoredDocument => Source(Cred[s], Without(rows, {Cred[s]})) # "unset"

\* save_server, clear_server_credential and remove_server look first ...
CardLooks(r) ==
    /\ Running /\ card[r] = None
    /\ \E s \in Servers :
        \/ /\ Cred[s] \in DOMAIN Resolve(rows)
           /\ card' = [card EXCEPT ![r] = [does |-> "save", server |-> s, saw |-> StoredDocument]]
        \/ /\ KeepsACredential(s) /\ Cred[s] \in DOMAIN rows
           /\ card' = [card EXCEPT ![r] = [does |-> "clear", server |-> s, saw |-> {}]]
        \/ /\ s \in StoredDocument /\ StoredDocument # {s}
           /\ card' = [card EXCEPT ![r] = [does |-> "remove", server |-> s, saw |-> StoredDocument]]
    /\ UNCHANGED <<env, process, volume, database, wiz, last, counts>>

\* ... and write after it: the document under its revision, then the row.
CardWrites(r) ==
    /\ Running /\ card[r] # None
    /\ LET s == card[r].server
       IN  \/ /\ card[r].does = "save"
              /\ docrow' = IF StoredDocument = card[r].saw THEN StoredDocument \cup {s} ELSE docrow
              /\ card' = [card EXCEPT ![r] = None]
              /\ UNCHANGED <<rows, held>>
           \/ /\ card[r].does = "clear"
              /\ Cleared(Cred[s])
              /\ card' = [card EXCEPT ![r] = None]
              /\ UNCHANGED docrow
           \/ /\ card[r].does = "remove"
              /\ IF StoredDocument = card[r].saw
                 THEN /\ docrow' = StoredDocument \ {s}
                      /\ card' = [card EXCEPT ![r] = [@ EXCEPT !.does = "clear"]]
                 ELSE /\ card' = [card EXCEPT ![r] = None]
                      /\ UNCHANGED docrow
              /\ UNCHANGED <<rows, held>>
    /\ changes' = changes + 1
    /\ UNCHANGED <<env, environ, marks, mode, volume, migrated, wiz, last, starts>>

\* POST /system/restart: the same exec as the wizard's.
RestartInPlace ==
    /\ mode = "app" /\ starts < MaxStarts
    /\ Restarts(environ, "restart")
    /\ starts' = starts + 1
    /\ UNCHANGED <<env, volume, database, changes>>

DeploymentInit ==
    /\ env \in Envs
    /\ environ = Nothing /\ marks = NoMarks
    /\ statefile = Nothing /\ rows = Nothing /\ migrated = FALSE
    /\ docfile \in {None} \cup {{s} : s \in Servers} /\ docrow = None
    /\ mode = "off" /\ held = Nothing
    /\ wiz = NoWizard
    /\ card = [r \in Cards |-> None]
    /\ last = [by |-> "container", blind |-> FALSE]
    /\ starts = 0 /\ changes = 0

DeploymentNext ==
    \/ Start \/ Boot \/ Killed
    \/ Password \/ StageConfig \/ FinishChecks \/ Finish \/ Confirm
    \/ \E n \in Names : Stage(n) \/ SetSecret(n) \/ ClearSecret(n)
    \/ Rotate
    \/ \E r \in Cards : CardLooks(r) \/ CardWrites(r)
    \/ RestartInPlace

DeploymentSpec == DeploymentInit /\ [][DeploymentNext]_deploymentVars

----------------------------------------------------------------------------
(* Properties. *)

DeploymentTypeOK ==
    /\ {env, environ, statefile, rows, held, wiz.staged} \subseteq Layer
    /\ {docfile, docrow, wiz.doc, wiz.doc2} \subseteq {None} \cup SUBSET Servers
    /\ mode \in {"off", "boot", "wizard", "app"}
    /\ Db \notin DOMAIN rows

\* What a new container would find, were its database to answer.
Sources == With(With(env, statefile), rows)

\* Wherever finish is interrupted, the volume and the database never hold every
\* credential and no document: the next start is the wizard or the application,
\* never the exit that wants a document nobody will write.
FinishNeverStrands ==
    Hard \subseteq DOMAIN Sources /\ ~(Hard \subseteq DOMAIN env) =>
        docfile # None \/ docrow # None

\* A finish that answered is followed by the application: where the wizard's own
\* start could read the store and the next one can, the wizard is not served again.
FinishReachesTheApplication ==
    mode = "wizard" /\ last.by = "finish" => last.blind

\* Whatever is set, cleared, rotated or removed while it runs, the application
\* leaves every hard name answered for the next container.
NextStartFindsHardSecrets == mode = "app" => Hard \subseteq DOMAIN Sources

\* A stored row wins: an application whose start could read the table runs on
\* the row of every name that has one, however it was started.
StoredSecretsWin ==
    mode = "app" /\ ~last.blind => \A n \in DOMAIN rows : held[n] = rows[n]

\* Nothing an operator does takes the last credential of a configured server, in
\* a process whose environment repeats no value a restart in place carried over
\* and no layer holds.
CardsKeepCredentials ==
    [][mode = "app" /\ mode' = "app"
            /\ DOMAIN environ \subseteq DOMAIN Sources \cup marks.stored
            /\ ServersUsable(StoredDocument, Sources)
         => ServersUsable(StoredDocument', Sources')]_deploymentVars

\* What this start would do, were the database to answer.
WouldServe ==
    LET first == Resolve(None)
        stored == ReadSecrets(first, TRUE)
        resolved == IF stored = Nothing THEN first ELSE Resolve(stored)
    IN  IsConfigured(resolved, ReadDocument(resolved, TRUE))

\* A passing outage does not put the wizard on a serving port: no start serves
\* the wizard that would serve the application were its database to answer.
OutageNeverServesTheWizard == [][mode = "boot" /\ mode' = "wizard" => ~WouldServe]_deploymentVars

\* After a restart in place the values stay right: the application runs on what
\* the layers hold, a cleared row's echo and a rotated file's old value on none.
RestartKeepsValuesRight ==
    mode = "app" /\ last.by = "restart" /\ ~last.blind =>
        \A n \in DOMAIN held : n \in DOMAIN Sources /\ held[n] = Sources[n]

\* A finished wizard leads to the application wherever it is interrupted, the next
\* start finds the hard secrets, and a stored row wins.
DeploymentSafety ==
    /\ DeploymentTypeOK
    /\ FinishNeverStrands
    /\ FinishReachesTheApplication
    /\ NextStartFindsHardSecrets
    /\ StoredSecretsWin
=============================================================================
