----------------------------- MODULE MCSessions -----------------------------
EXTENDS Archives, TLC

CONSTANTS c1, c2

MCClients == {c1, c2}
MCIds == {"id"}
MCIdOf == [c \in MCClients |-> "id"]
MCChunks == (c1 :> 1) @@ (c2 :> 0)
MCScenarios ==
    {(c1 :> k[1]) @@ (c2 :> k[2]) :
        k \in {<<"attach", "attach">>, <<"attach", "exec">>,
               <<"attach", "read">>, <<"wait", "logs">>, <<"read", "write">>,
               <<"write", "stat">>, <<"stats", "copy">>, <<"read", "read">>}}
=============================================================================
