----------------------------- MODULE MCSyncMode ------------------------------
(* A node with two peers on forks that part after the first block, both    *)
(* long enough to synchronize to, and one heavier than the other.          *)
EXTENDS SyncMode, TLC

CONSTANTS pa, pb

MCBlocks == {"g", "a1", "a2", "a3", "a4", "b2", "b3", "b4"}
MCChain ==
    [ g  |-> <<"g">>,
      a1 |-> <<"g", "a1">>,
      a2 |-> <<"g", "a1", "a2">>,
      a3 |-> <<"g", "a1", "a2", "a3">>,
      a4 |-> <<"g", "a1", "a2", "a3", "a4">>,
      b2 |-> <<"g", "a1", "b2">>,
      b3 |-> <<"g", "a1", "b2", "b3">>,
      b4 |-> <<"g", "a1", "b2", "b3", "b4">> ]
MCWork == [g |-> 0, a1 |-> 1, a2 |-> 2, a3 |-> 3, a4 |-> 4, b2 |-> 4, b3 |-> 5, b4 |-> 6]
MCUtxos == {"u"}
MCSpends == [b \in MCBlocks |-> {"u"}]
MCPeers == {pa, pb}
MCClaims == pa :> {"a4"} @@ pb :> {"b4"}
MCRelays == pa :> {} @@ pb :> {"a1", "b2"}
MCBatches ==
    pa :> {<<"a1">>, <<"a2">>, <<"a1", "a2">>, <<"a3", "a4">>} @@ pb :> {<<"a1", "b2">>, <<"b3">>}
==============================================================================
