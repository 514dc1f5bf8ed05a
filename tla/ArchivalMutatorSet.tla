------------------------- MODULE ArchivalMutatorSet -------------------------
(***************************************************************************)
(* util_types/mutator_set/archival_mutator_set.rs: the mutator set with    *)
(* all its leafs and chunks, which can be rolled back, and from which      *)
(* membership proofs can be restored.                                      *)
(***************************************************************************)
EXTENDS MutatorSet

EmptyArchival ==
    [aocl |-> Empty, swbf_inactive |-> Empty, swbf_active |-> EmptyWindow,
     chunks |-> Empty, panicked |-> FALSE]

accumulator(ams) ==
    [aocl |-> ams.aocl, swbf_inactive |-> ams.swbf_inactive,
     swbf_active |-> ams.swbf_active, panicked |-> ams.panicked]

ams_add(ams, item) ==
    IF ~window_slides(num_leafs(ams.aocl))
    THEN [ams EXCEPT !.aocl = append(@, item)]
    ELSE LET new_chunk == slid_chunk(ams.swbf_active)
         IN  [ams EXCEPT
                !.aocl = append(@, item),
                !.swbf_inactive = append(@, new_chunk),
                !.swbf_active = slide_window(@),
                !.chunks = append(@, new_chunk),
                !.panicked = @ \/ num_leafs(ams.swbf_inactive) # num_leafs(ams.chunks)]

(***************************************************************************)
(* remove: the new chunks come from the removal record, not from the set,  *)
(* and a leaf beyond the range stops the node.                             *)
(***************************************************************************)
ams_remove(ams, rr) ==
    LET new == NewTargetChunks(ams, rr)
        Set(f) == [c \in DOMAIN f |-> IF c \in DOMAIN new THEN new[c] ELSE f[c]]
    IN  [ams EXCEPT
            !.swbf_active = InsertActive(ams, rr.indices),
            !.swbf_inactive = Set(@),
            !.chunks = Set(@),
            !.panicked = \/ @
                         \/ RemovePanics(ams, rr)
                         \/ ~(DOMAIN new \subseteq DOMAIN ams.chunks)]

(***************************************************************************)
(* revert_remove: both ActiveWindow::remove and Chunk::subtract stop the   *)
(* node when an index is not there.                                        *)
(***************************************************************************)
revert_remove(ams, rr) ==
    LET start == WindowStart(ams)
        Active(r) == Count(rr.indices, start + r)
        Subtracted(f) == [c \in DOMAIN f |->
            IF c \in InactiveChunks(rr.indices, ams)
            THEN remove_once(f[c], Difference(rr.indices, c)) ELSE f[c]]
    IN  [ams EXCEPT
            !.swbf_active = [r \in DOMAIN @ |-> IF @[r] < Active(r) THEN 0 ELSE @[r] - Active(r)],
            !.swbf_inactive = [c \in DOMAIN @ |->
                IF c \in InactiveChunks(rr.indices, ams) THEN Subtracted(ams.chunks)[c] ELSE @[c]],
            !.chunks = Subtracted(@),
            !.panicked =
                \/ @
                \/ \E r \in DOMAIN ams.swbf_active : ams.swbf_active[r] < Active(r)
                \/ \E c \in InactiveChunks(rr.indices, ams) :
                      \E r \in DOMAIN ams.chunks[c] :
                          ams.chunks[c][r] < Difference(rr.indices, c)[r]]

add_is_reversible(ams, item) == ams.aocl[num_leafs(ams.aocl) - 1] = item

revert_add(ams, item) ==
    LET removed_add_index == num_leafs(ams.aocl) - 1
        reverted == [ams EXCEPT !.aocl = remove_last_leaf(@),
                                !.panicked = @ \/ ~add_is_reversible(ams, item)]
    IN  IF ~window_slides(removed_add_index) THEN reverted
        ELSE [reverted EXCEPT
                !.swbf_inactive = remove_last_leaf(@),
                !.chunks = remove_last_leaf(@),
                !.swbf_active = slide_window_back(@, ams.chunks[num_leafs(ams.chunks) - 1]),
                !.panicked = @ \/ hasset(ams.swbf_active, WINDOW_SIZE - CHUNK_SIZE, WINDOW_SIZE)]

bloom_filter_contains(ams, x) ==
    IF x >= WindowStart(ams)
    THEN ams.swbf_active[x - WindowStart(ams)] > 0
    ELSE ams.chunks[x \div CHUNK_SIZE][x % CHUNK_SIZE] > 0

(***************************************************************************)
(* restore_membership_proof of the item at leaf_index.                     *)
(***************************************************************************)
restore_membership_proof(ams, item, leaf_index) ==
    LET indices == get_swbf_indices(item, leaf_index)
        old == {c \in ChunkIndices(indices) : c * CHUNK_SIZE < WindowStart(ams)}
    IN  [item |-> item,
         aocl_leaf_index |-> leaf_index,
         auth_path_aocl |-> prove_membership(ams.aocl, leaf_index),
         target_chunks |-> [c \in old |->
             [path |-> prove_membership(ams.swbf_inactive, c), chunk |-> ams.chunks[c]]]]
=============================================================================
