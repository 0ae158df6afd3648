------------------------------ MODULE MCIntake ------------------------------
(* What comes in and what goes out: the items of the server, the sync of    *)
(* the library's gaps to Radarr or Sonarr, and the announcements of a lane, *)
(* each by itself. Film 1 is in both libraries or moves between them; film  *)
(* 2 may be removed and come back under a new id.                           *)
EXTENDS Discovery, ArrSync, Notify

VARIABLE part   \* which of the components runs in this behaviour

-----------------------------------------------------------------------------
(* Items that share a folder, share an id, sit at a root, lie outside it,  *)
(* and one whose id is no number; a second library and an excluded one.    *)
It(l, n, p) == [lib |-> l, id |-> n, path |-> p]
ArrItem == <<It("films", 9, <<"M", "v", "a">>), It("films", 2, <<"M", "v", "b">>),
             It("films", 5, <<"M", "v", "b">>), It("films", 0, <<"M", "v", "c">>),
             It("films", 4, <<"M", "v">>), It("uhd", 2, <<"M", "w", "b">>),
             It("uhd", 7, <<"N", "q">>), It("kids", 8, <<"M", "v", "d">>)>>
ArrSections == <<"films", "uhd", "kids">>
ArrPlexRoot == <<"M">>
ArrArrRoot == <<"m">>
ArrRootSets == {{<<"m", "v">>}, {<<"m", "v">>, <<"m", "w">>}, {<<"z">>}}
En(n, p, m) == [id |-> n, path |-> p, media |-> m]
ArrStarts == {{}, {En(3, <<"m", "v", "x">>, TRUE)},
              {En(6, <<"m", "v", "c">>, TRUE), En(2, <<"m", "w", "e">>, TRUE)}}
ArrEdits == {En(3, <<"m", "v", "b">>, FALSE), En(6, <<"m", "v", "c">>, TRUE), En(1, <<>>, FALSE)}

-----------------------------------------------------------------------------
(* Details with many fields, with a few long ones, with empty texts and    *)
(* just around the budget.                                                 *)
F(n, v) == [name |-> n, value |-> v]
OutDetails ==
    {<<>>, <<F(3, 10), F(6, 0), F(6, 2000)>>, [i \in 1..25 |-> F(20, 2)],
     [i \in 1..7 |-> F(300, 2000)], <<F(100, 1024), F(145, 600), F(3, 3)>>}

-----------------------------------------------------------------------------
MCFilm == <<1, 1, 2, 2>>
MCLib == <<"hd", "uhd", "hd", "hd">>
MCLibs == <<"hd", "uhd">>
MCHoldings ==
    {[keys |-> {1, 3}, file |-> <<"a", "a", "a", "b">>],
     [keys |-> {1, 2, 3}, file |-> <<"a", "b", "a", "a">>],
     [keys |-> {}, file |-> <<"a", "b", "a", "b">>]}

\* One component takes any of its initial states, the others rest in one of theirs.
IntakeInit ==
    /\ part \in {"discovery", "sync", "notify"}
    /\ Init /\ (part # "discovery" => plex = {})
    /\ SyncInit /\ (part # "sync" => entries = {} /\ add = FALSE /\ roots = {<<"z">>})
    /\ NotifyInit /\ (part # "notify" => payload = Embed(EventTitle, 5000, <<>>))

IntakeNext ==
    \/ part = "discovery" /\ Next /\ UNCHANGED <<part, syncVars, notifyVars>>
    \/ part = "sync" /\ SyncNext /\ UNCHANGED <<part, vars, notifyVars>>
    \/ part = "notify" /\ NotifyNext /\ UNCHANGED <<part, vars, syncVars>>

\* The fairness of each part, while it is the one that runs.
IntakeFairness ==
    /\ WF_vars(part = "discovery" /\ Sweep)
    /\ \A f \in Films : WF_vars(part = "discovery" /\ Work(f)) /\ WF_vars(part = "discovery" /\ Due(f))
    /\ WF_syncVars(part = "sync" /\ Pass)
    /\ \A i \in 1..3 : WF_notifyVars(part = "notify" /\ i \in DOMAIN sends /\ Answered(i))

IntakeSpec ==
    IntakeInit /\ [][IntakeNext]_<<part, vars, syncVars, notifyVars>> /\ IntakeFairness
=============================================================================
