----------------------------- MODULE MCServers ------------------------------
(* What the server shows: the badges, logos and mode runs on a library's    *)
(* artwork, and the fields an item's metadata is written to, each by itself.*)
EXTENDS ServerArt, Metadata

VARIABLE part   \* which of the components runs in this behaviour

-----------------------------------------------------------------------------
(* One provider field and the sort title, which one definition gives out.  *)
MetaUsual == [write |-> [s \in {"plex", "jellyfin"} |-> TRUE], verb |-> [f \in {"genres", "sort"} |-> "none"],
              sortApply |-> TRUE, overrides |-> TRUE]
MetaConfigs == {MetaUsual, [MetaUsual EXCEPT !.write["jellyfin"] = FALSE, !.verb["genres"] = "remove"]}

MetaTouched == {<<"plex", "genres">>, <<"jellyfin", "sort">>}
MetaPlace == [d \in {"a"} |-> 4]

-----------------------------------------------------------------------------
ServerSlots == [i \in Items |-> {"poster"}]

\* One component takes any of its initial states, the others rest in one of theirs.
ServersInit ==
    /\ part \in {"artwork", "metadata"}
    /\ ArtInit /\ (part # "artwork" => agent = Fields)
    /\ MetadataInit /\ (part # "metadata" => cfg = MetaUsual)

ServersNext ==
    \/ part = "artwork" /\ ArtNext /\ UNCHANGED <<part, metadataVars>>
    \/ part = "metadata" /\ MetadataNext /\ UNCHANGED <<part, artVars>>

ServersSpec == ServersInit /\ [][ServersNext]_<<part, artVars, metadataVars>>
=============================================================================
