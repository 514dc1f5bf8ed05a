--------------------------- MODULE MutatorSetChain ---------------------------
(***************************************************************************)
(* Blocks applied to and rolled back from everything that follows the      *)
(* mutator set: the accumulator of the tip block                           *)
(* (block/mutator_set_update.rs), the archival mutator set                 *)
(* (ArchivalState::update_mutator_set), the membership proofs of the       *)
(* wallet's coins (WalletState::update_wallet_state_with_new_block and     *)
(* resync_membership_proofs_from_stored_blocks) and a removal record of a  *)
(* transaction that waits in the mempool.                                  *)
(***************************************************************************)
EXTENDS ArchivalMutatorSet

CONSTANTS
    Premine,        \* number of outputs of the genesis block
    MaxOutputs,     \* bound: outputs of a block
    MaxInputs,      \* bound: inputs of a block
    MaxLeafs,       \* bound: leafs of the commitment list
    MaxRemovals,    \* bound: inputs of all blocks on the chain
    MaxReverts      \* bound: blocks rolled back

VARIABLES
    blocks,     \* the chain after genesis: additions, removals, accumulator before
    msa,        \* mutator_set_accumulator_after of the tip
    ams,        \* the archival mutator set
    mps,        \* membership proof of every coin, by AOCL leaf index
    pending,    \* the set of removal records that wait in the mempool: none or one
    reverts     \* number of blocks rolled back

vars == <<blocks, msa, ams, mps, pending, reverts>>

(***************************************************************************)
(* Outputs are made anew for every branch: they differ in the rollbacks    *)
(* that came before them.                                                  *)
(***************************************************************************)
Item(position, branch) == <<position, branch>>

(***************************************************************************)
(* apply_to_accumulator_and_records_inner and the wallet's loops, which    *)
(* run in lockstep: every addition updates the block's own removal         *)
(* records, the pending ones and the membership proofs before it is made,  *)
(* and so does every removal, in the order of the block.                   *)
(***************************************************************************)
AfterAddition(st, item) ==
    [st EXCEPT
        !.removals = [i \in DOMAIN @ |-> rr_update_from_addition(@[i], st.msa)],
        !.pending = {rr_update_from_addition(rr, st.msa) : rr \in @},
        !.mps = [l \in DOMAIN @ |-> mp_update_from_addition(@[l], st.msa, item)]
                    @@ (num_leafs(st.msa.aocl) :> prove(st.msa, item)),
        !.msa = [add(@, item) EXCEPT
                    !.panicked = @ \/ \E l \in DOMAIN st.mps :
                                        ~mp_is_updatable(st.mps[l], st.msa)]]

AfterRemoval(st) ==
    LET rr == Head(st.removals)
    IN  [removals |-> [i \in DOMAIN Tail(st.removals) |->
                          rr_update_from_remove(Tail(st.removals)[i], rr)],
         pending |-> {rr_update_from_remove(p, rr) : p \in st.pending},
         mps |-> [l \in DOMAIN st.mps |-> mp_update_from_remove(st.mps[l], rr)],
         valid |-> st.valid /\ can_remove(st.msa, rr),
         msa |-> remove(st.msa, rr)]

ApplyUpdate(st, additions) ==
    LET added == FoldLeft(AfterAddition, st, additions)
    IN  FoldLeft(LAMBDA s, i : AfterRemoval(s), added, st.removals)

(***************************************************************************)
(* The forward part of update_mutator_set, for one block.                  *)
(***************************************************************************)
ams_AfterAddition(st, item) ==
    [removals |-> [i \in DOMAIN st.removals |->
                      rr_update_from_addition(st.removals[i], accumulator(st.ams))],
     ams |-> ams_add(st.ams, item)]

ams_AfterRemoval(st) ==
    LET rr == Head(st.removals)
    IN  [removals |-> [i \in DOMAIN Tail(st.removals) |->
                          rr_update_from_remove(Tail(st.removals)[i], rr)],
         ams |-> ams_remove(st.ams, rr)]

ams_Apply(a, additions, removals) ==
    LET added == FoldLeft(ams_AfterAddition, [ams |-> a, removals |-> removals], additions)
    IN  FoldLeft(LAMBDA s, i : ams_AfterRemoval(s), added, removals).ams

(***************************************************************************)
(* The backward part: removals in the order of the block, additions from   *)
(* the last to the first.                                                  *)
(***************************************************************************)
ams_Revert(a, block) ==
    FoldLeft(revert_add, FoldLeft(revert_remove, a, block.removals),
             Reverse(block.additions))

(***************************************************************************)
(* The backward part of resync_membership_proofs_from_stored_blocks, for a *)
(* coin that the block did not create: removals from last to first.        *)
(***************************************************************************)
mp_Revert(mp, block) ==
    mp_revert_update_from_batch_addition(
        FoldLeft(mp_revert_update_from_remove, mp, Reverse(block.removals)),
        block.before)

-----------------------------------------------------------------------------
GenesisAdditions == [i \in 1..Premine |-> Item(i, 0)]

Fresh == [removals |-> <<>>, pending |-> {}, mps |-> Empty, valid |-> TRUE,
          msa |-> EmptyAccumulator]

Init ==
    LET genesis == ApplyUpdate(Fresh, GenesisAdditions)
    IN  /\ blocks = <<>>
        /\ msa = genesis.msa
        /\ ams = ams_Apply(EmptyArchival, GenesisAdditions, <<>>)
        /\ mps = genesis.mps
        /\ pending = {}
        /\ reverts = 0

(***************************************************************************)
(* A transaction is made: drop of a coin whose membership proof verifies.  *)
(***************************************************************************)
Spend(l) ==
    /\ pending = {}
    /\ verify_membership(msa, mps[l])
    /\ pending' = {drop(mps[l])}
    /\ UNCHANGED <<blocks, msa, ams, mps, reverts>>

(***************************************************************************)
(* A block with the given outputs and inputs becomes the tip.  The block   *)
(* is only accepted when apply_to_accumulator finds its removal records    *)
(* valid.                                                                  *)
(***************************************************************************)
ApplyBlock(additions, inputs) ==
    LET removals == [i \in DOMAIN inputs |-> drop(mps[inputs[i]])]
        update == ApplyUpdate([removals |-> removals, pending |-> pending, mps |-> mps,
                               valid |-> TRUE, msa |-> msa], additions)
    IN  /\ update.valid
        /\ blocks' = Append(blocks, [additions |-> additions, removals |-> removals,
                                     before |-> msa])
        /\ msa' = update.msa
        /\ ams' = ams_Apply(ams, additions, removals)
        /\ mps' = update.mps
        /\ pending' = update.pending
        /\ UNCHANGED reverts

(***************************************************************************)
(* The tip is rolled back for a reorganization; the mempool is emptied of  *)
(* what was made on it.                                                    *)
(***************************************************************************)
RevertBlock ==
    LET block == blocks[Len(blocks)]
    IN  /\ blocks # <<>>
        /\ reverts < MaxReverts
        /\ reverts' = reverts + 1
        /\ blocks' = Front(blocks)
        /\ msa' = block.before
        /\ ams' = ams_Revert(ams, block)
        /\ mps' = [l \in DOMAIN block.before.aocl |-> mp_Revert(mps[l], block)]
        /\ pending' = {}

RemovalCount == FoldLeft(LAMBDA n, block : n + Len(block.removals), 0, blocks)

Next ==
    \/ \E l \in DOMAIN mps : Spend(l)
    \/ \E n \in 1..MaxOutputs, inputs \in SeqOf(DOMAIN mps, MaxInputs) :
          /\ num_leafs(msa.aocl) + n <= MaxLeafs
          /\ IsInjective(inputs)
          /\ RemovalCount + Len(inputs) <= MaxRemovals
          /\ ApplyBlock([i \in 1..n |-> Item(num_leafs(msa.aocl) + i, reverts)], inputs)
    \/ RevertBlock

Spec == Init /\ [][Next]_vars

-----------------------------------------------------------------------------
(* What the chain says *)

Additions ==
    GenesisAdditions \o FlattenSeq([i \in DOMAIN blocks |-> blocks[i].additions])

Removals == FlattenSeq([i \in DOMAIN blocks |-> blocks[i].removals])

SetCount(x) == FoldLeft(LAMBDA n, rr : n + Count(rr.indices, x), 0, Removals)

(***************************************************************************)
(* However blocks are applied and rolled back, the archival mutator set    *)
(* holds the outputs of the chain in order, and every index of the Bloom   *)
(* filter is set as often as inputs of the chain set it, whether it is     *)
(* still in the active window or in a chunk. The accumulator a block       *)
(* commits to agrees with it (the assertion at the end of                  *)
(* update_mutator_set), and no assertion on the way fails.                 *)
(***************************************************************************)
ArchivalIsTheChain ==
    /\ ams.aocl = [l \in 0..(Len(Additions) - 1) |-> Additions[l + 1]]
    /\ num_leafs(ams.chunks) = get_batch_index(ams)
    /\ \A c \in DOMAIN ams.chunks : \A r \in 0..(CHUNK_SIZE - 1) :
          ams.chunks[c][r] = SetCount(c * CHUNK_SIZE + r)
    /\ \A r \in DOMAIN ams.swbf_active : ams.swbf_active[r] = SetCount(WindowStart(ams) + r)
    /\ accumulator(ams) = msa /\ ams.chunks = ams.swbf_inactive
    /\ ~ams.panicked

(***************************************************************************)
(* A membership proof that is kept up to date, through blocks and through  *)
(* rollbacks, is the one the archival mutator set would restore.           *)
(***************************************************************************)
ProofIsRestored ==
    \A l \in DOMAIN mps : mps[l] = restore_membership_proof(ams, Additions[l + 1], l)

(***************************************************************************)
(* It verifies exactly while some index of the coin is not set.            *)
(***************************************************************************)
VerifiesUntilRemoved ==
    \A l \in DOMAIN mps :
        verify_membership(msa, mps[l]) <=>
            \E t \in DOMAIN compute_indices(mps[l]) :
                ~bloom_filter_contains(ams, compute_indices(mps[l])[t])

(***************************************************************************)
(* A removal record that waits in the mempool while blocks come in still   *)
(* validates against the tip.                                              *)
(***************************************************************************)
PendingStaysValid == \A rr \in pending : validate(rr, msa)

=============================================================================
