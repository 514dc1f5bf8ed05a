------------------------- MODULE MCMutatorSetChain -------------------------
EXTENDS MutatorSetChain

(* Two indices per coin, spread over both chunks of the window. *)
MCSampleIndices(item) ==
    LET k == item[1] + item[2]
    IN  <<k % WINDOW_SIZE, (k \div 2 + 3) % WINDOW_SIZE>>
=============================================================================
