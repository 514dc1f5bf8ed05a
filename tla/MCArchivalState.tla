--------------------------- MODULE MCArchivalState ---------------------------
(***************************************************************************)
(* A tree of six blocks: a trunk of three blocks above genesis, and a fork *)
(* of two blocks that leaves it at genesis or above a1.                    *)
(***************************************************************************)
EXTENDS ArchivalState, FindPathWalk

CONSTANTS g, a1, a2, a3, b1, c2

MCBlocks == {g, a1, a2, a3, b1, c2}

MCChain == [ b \in MCBlocks |->
    CASE b = g  -> <<g>>
      [] b = a1 -> <<g, a1>>
      [] b = a2 -> <<g, a1, a2>>
      [] b = a3 -> <<g, a1, a2, a3>>
      [] b = b1 -> <<g, b1>>
      [] b = c2 -> <<g, a1, c2>> ]

(* From the tip of every restart to every known block, the walk of         *)
(* find_path ends, leaves and arrives at the blocks the closed form names, *)
(* and turns at the latest common ancestor.                                *)
FindPathWalksTheFork ==
    pc = "check" => \A b \in Known : WalkPath(tip, b) = find_path(tip, b)
==============================================================================
