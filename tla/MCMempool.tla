------------------------------ MODULE MCMempool ------------------------------
(***************************************************************************)
(* Two coins, a transaction for each, the merger of the two, and one that  *)
(* spends nothing and conflicts with none, not even with itself.  A chain  *)
(* of two blocks that spend a coin each, and a rival of the first that     *)
(* spends nothing and gives way to it.                                     *)
(***************************************************************************)
EXTENDS Mempool

CONSTANTS g, a1, a2, b1, c1, c2, pay1, pay2, both, free

MCBlocks == {g, a1, a2, b1}

MCChain == [ b \in MCBlocks |->
    CASE b = g  -> <<g>>
      [] b = a1 -> <<g, a1>>
      [] b = a2 -> <<g, a1, a2>>
      [] b = b1 -> <<g, b1>> ]

MCSpends == [b \in MCBlocks |-> CASE b = a1 -> {c2} [] b = a2 -> {c1} [] OTHER -> {}]
MCWork   == [b \in MCBlocks |-> Len(MCChain[b])]

MCTxs     == {pay1, pay2, both, free}
MCInputs  == [t \in MCTxs |-> CASE t = pay1 -> {c1} [] t = pay2 -> {c2} [] t = both -> {c1, c2} [] t = free -> {}]
MCFee     == [t \in MCTxs |-> IF t = pay1 THEN 1 ELSE 2]
MCSize    == [t \in MCTxs |-> [p \in Proofs |-> [b \in MCBlocks |->
                 IF p = "collection" \/ b # g THEN 2 ELSE 1]]]
MCGobbled == [t \in MCTxs |-> t]
MCMerged  == [t \in MCTxs |-> [u \in MCTxs |-> IF {t, u} = {pay1, pay2} THEN both ELSE NoTx]]
==============================================================================
