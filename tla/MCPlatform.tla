----------------------------- MODULE MCPlatform -----------------------------
(* The configuration store with two processes, two operators and three     *)
(* settings ("lib" is required and decides what a server is owed, "frz" is *)
(* frozen, "docs" inert), and the start with its wizard, each by itself.   *)
EXTENDS ConfigStore, Deployment, TLC

VARIABLE part   \* which of the components runs in this behaviour

-----------------------------------------------------------------------------
(* Two servers with a credential each, a database URL and a webhook secret. *)
MCCred == "plex" :> "tok" @@ "jelly" :> "key"
MCEnvs == {[n \in S |-> "env"] : S \in {{}, {"db"}, {"db", "web"}}}

-----------------------------------------------------------------------------
\* One component takes any of its initial states, the others rest in one of theirs.
PlatformInit ==
    /\ part \in {"config", "deployment"}
    /\ Init /\ (part # "config" => row = NoRow)
    /\ DeploymentInit /\ (part # "deployment" => env = Nothing /\ docfile = None)

PlatformNext ==
    \/ part = "config" /\ Next /\ UNCHANGED <<part, deploymentVars>>
    \/ part = "deployment" /\ DeploymentNext /\ UNCHANGED <<part, vars>>

PlatformSpec == PlatformInit /\ [][PlatformNext]_<<part, vars, deploymentVars>>

Body(d, y) == [document |-> d, confirm |-> y]
MCSubmitted == {Body("lib" :> 1 @@ "frz" :> 1, FALSE), Body("lib" :> 0 @@ "docs" :> 1, TRUE),
                Body("frz" :> 0, FALSE)}
MCFiles == {"lib" :> 0 @@ "docs" :> 0}
MCRows == {[doc |-> "frz" :> 1 @@ "old" :> 1, format |-> 1, restart |-> {"frz"}],
           [doc |-> "old" :> 1, format |-> 1, restart |-> {}]}

Symmetry == Permutations(Procs) \cup Permutations(Requests)
=============================================================================
