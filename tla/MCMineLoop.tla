----------------------------- MODULE MCMineLoop ------------------------------
(***************************************************************************)
(* An empty block b1, a rival a1 of the same height that displaces it, and *)
(* a block on each.                                                        *)
(***************************************************************************)
EXTENDS MineLoop

CONSTANTS g, b1, a1, a2, coin

MCBlocks == {g, b1, a1, a2}

MCChain == [ b \in MCBlocks |->
    CASE b = g  -> <<g>>
      [] b = b1 -> <<g, b1>>
      [] b = a1 -> <<g, a1>>
      [] b = a2 -> <<g, a1, a2>> ]

MCSpends == [b \in MCBlocks |-> IF b = a1 THEN {coin} ELSE {}]
MCWork   == [b \in MCBlocks |-> Len(MCChain[b])]

AllRoles == {r \in [compose : BOOLEAN, guess : BOOLEAN] : r.compose \/ r.guess}
==============================================================================
