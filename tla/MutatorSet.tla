----------------------------- MODULE MutatorSet -----------------------------
(***************************************************************************)
(* The mutator set of util_types/mutator_set/: the append-only commitment  *)
(* list (AOCL), the sliding-window Bloom filter whose old chunks are       *)
(* leafs of a Merkle mountain range, membership proofs and removal records.*)
(*                                                                         *)
(* A chunk and the active window are functions from index to how often it  *)
(* is set; the code keeps sorted lists with repetitions.  Every value that *)
(* can reach an assertion or a panic of the code carries "panicked".       *)
(***************************************************************************)
EXTENDS Integers, Sequences, SequencesExt, FiniteSets, Mmr

CONSTANTS
    BATCH_SIZE, CHUNK_SIZE, WINDOW_SIZE,    \* shared.rs
    sample_indices(_)   \* item -> sequence of NUM_TRIALS indices into the window

ASSUME SizesAssumption ==
    /\ BATCH_SIZE \in Nat \ {0}
    /\ CHUNK_SIZE \in Nat \ {0}
    /\ WINDOW_SIZE \in Nat
    /\ WINDOW_SIZE % CHUNK_SIZE = 0

-----------------------------------------------------------------------------
(* Indices *)

get_swbf_indices(item, leaf_index) ==
    [t \in DOMAIN sample_indices(item) |->
        sample_indices(item)[t] + (leaf_index \div BATCH_SIZE) * CHUNK_SIZE]

ChunkIndices(indices) == {indices[t] \div CHUNK_SIZE : t \in DOMAIN indices}

Count(indices, x) == Cardinality({t \in DOMAIN indices : indices[t] = x})

(***************************************************************************)
(* indices_to_hash_map: the part of the indices that falls in chunk c.     *)
(***************************************************************************)
Difference(indices, c) ==
    [r \in 0..(CHUNK_SIZE - 1) |-> Count(indices, c * CHUNK_SIZE + r)]

combine(chunk, diff) == [r \in DOMAIN chunk |-> chunk[r] + diff[r]]

(***************************************************************************)
(* Chunk::remove_once for every index of diff: a missing one is ignored.   *)
(***************************************************************************)
remove_once(chunk, diff) ==
    [r \in DOMAIN chunk |-> IF chunk[r] < diff[r] THEN 0 ELSE chunk[r] - diff[r]]

-----------------------------------------------------------------------------
(* The active window *)

EmptyWindow == [r \in 0..(WINDOW_SIZE - 1) |-> 0]

slid_chunk(window) == [r \in 0..(CHUNK_SIZE - 1) |-> window[r]]

slide_window(window) ==
    [r \in DOMAIN window |->
        IF r + CHUNK_SIZE < WINDOW_SIZE THEN window[r + CHUNK_SIZE] ELSE 0]

(***************************************************************************)
(* Mutant: the chunk is not put back.                                      *)
(***************************************************************************)
SlideBackWithoutChunk(window, chunk) ==
    [r \in DOMAIN window |-> IF r < CHUNK_SIZE THEN 0 ELSE window[r - CHUNK_SIZE]]

slide_window_back(window, chunk) ==
    [r \in DOMAIN window |->
        IF r < CHUNK_SIZE THEN chunk[r] ELSE window[r - CHUNK_SIZE]]

hasset(window, lower, upper) == \E r \in lower..(upper - 1) : window[r] > 0

-----------------------------------------------------------------------------
(* The accumulator *)

EmptyAccumulator ==
    [aocl |-> Empty, swbf_inactive |-> Empty, swbf_active |-> EmptyWindow,
     panicked |-> FALSE]

window_slides(added_index) == added_index # 0 /\ added_index % BATCH_SIZE = 0

BatchIndex(leafs) == IF leafs = 0 THEN 0 ELSE (leafs - 1) \div BATCH_SIZE

get_batch_index(ms) == BatchIndex(num_leafs(ms.aocl))

WindowStart(ms) == get_batch_index(ms) * CHUNK_SIZE

add(ms, item) ==
    IF ~window_slides(num_leafs(ms.aocl))
    THEN [ms EXCEPT !.aocl = append(@, item)]
    ELSE [ms EXCEPT !.aocl = append(@, item),
                    !.swbf_inactive = append(@, slid_chunk(ms.swbf_active)),
                    !.swbf_active = slide_window(@)]

InsertActive(ms, indices) ==
    [r \in DOMAIN ms.swbf_active |->
        ms.swbf_active[r] + Count(indices, WindowStart(ms) + r)]

(***************************************************************************)
(* remove_helper: the dictionary of the removal record with its own        *)
(* indices inserted, and the two ways it stops: an inactive chunk that is  *)
(* not in the dictionary, an index beyond the window.                      *)
(***************************************************************************)
NewTargetChunks(ms, rr) ==
    [c \in DOMAIN rr.target_chunks |->
        IF c < get_batch_index(ms)
        THEN combine(rr.target_chunks[c].chunk, Difference(rr.indices, c))
        ELSE rr.target_chunks[c].chunk]

RemovePanics(ms, rr) ==
    \/ \E c \in ChunkIndices(rr.indices) :
            c < get_batch_index(ms) /\ c \notin DOMAIN rr.target_chunks
    \/ \E t \in DOMAIN rr.indices : rr.indices[t] >= WindowStart(ms) + WINDOW_SIZE

remove(ms, rr) ==
    [ms EXCEPT
        !.swbf_active = InsertActive(ms, rr.indices),
        !.swbf_inactive = batch_mutate_leaf(@,
            [c \in DOMAIN rr.target_chunks |->
                [leaf |-> NewTargetChunks(ms, rr)[c], path |-> rr.target_chunks[c].path]]),
        !.panicked = @ \/ RemovePanics(ms, rr)]

-----------------------------------------------------------------------------
(* Removal records *)

(***************************************************************************)
(* split_by_activity: the chunks in the inactive part; none may lie beyond *)
(* active_window_chunk_interval.                                           *)
(***************************************************************************)
active_window_chunk_interval(ms) ==
    <<get_batch_index(ms), get_batch_index(ms) + WINDOW_SIZE \div CHUNK_SIZE>>

InactiveChunks(indices, ms) ==
    {c \in ChunkIndices(indices) : c < active_window_chunk_interval(ms)[1]}

HasFutureIndex(indices, ms) ==
    \E c \in ChunkIndices(indices) : c > active_window_chunk_interval(ms)[2]

ChunksVerify(target_chunks, ms) ==
    \A c \in DOMAIN target_chunks :
        verify(target_chunks[c].path, c, target_chunks[c].chunk, ms.swbf_inactive)

validate(rr, ms) ==
    /\ ~HasFutureIndex(rr.indices, ms)
    /\ DOMAIN rr.target_chunks = InactiveChunks(rr.indices, ms)
    /\ ChunksVerify(rr.target_chunks, ms)

(***************************************************************************)
(* can_remove computes the start of the active window itself.              *)
(***************************************************************************)
can_remove(ms, rr) ==
    LET start == (num_leafs(ms.aocl) \div BATCH_SIZE) * CHUNK_SIZE
        Absent(x) ==
            IF x < start
            THEN /\ x \div CHUNK_SIZE \in DOMAIN rr.target_chunks
                 /\ rr.target_chunks[x \div CHUNK_SIZE].chunk[x % CHUNK_SIZE] = 0
            ELSE ms.swbf_active[x - start] = 0
    IN  /\ validate(rr, ms)
        /\ \E t \in DOMAIN rr.indices : Absent(rr.indices[t])

-----------------------------------------------------------------------------
(* Chunk dictionaries: chunk index -> chunk and path, for a set of indices *)

(***************************************************************************)
(* Mutant: the paths of the older entries are not extended.                *)
(***************************************************************************)
AdditionWithoutAppend(target_chunks, indices, ms) ==
    LET old_window_start == num_leafs(ms.aocl) \div BATCH_SIZE - 1
        new_chunk == slid_chunk(ms.swbf_active)
        leafs == num_leafs(ms.swbf_inactive)
    IN  IF window_slides(num_leafs(ms.aocl)) /\ old_window_start \in ChunkIndices(indices)
        THEN target_chunks @@ (old_window_start :>
                [path |-> prove_membership(append(ms.swbf_inactive, new_chunk), leafs),
                 chunk |-> new_chunk])
        ELSE target_chunks

(***************************************************************************)
(* The dictionary after the next addition to ms.  When the window slides,  *)
(* the chunk that leaves it becomes an entry if the indices fall in it,    *)
(* and the older entries have their paths extended.                        *)
(***************************************************************************)
ChunksAfterAddition(target_chunks, indices, ms) ==
    LET leafs == num_leafs(ms.aocl)
        old_window_start == leafs \div BATCH_SIZE - 1
        new_chunk == slid_chunk(ms.swbf_active)
        swbf_after == append(ms.swbf_inactive, new_chunk)
        NeedsAppend == \E c \in ChunkIndices(indices) : c < old_window_start
        Updated(c) ==
            IF c # old_window_start /\ NeedsAppend
            THEN [target_chunks[c] EXCEPT
                    !.path = update_from_append(@, c, ms.swbf_inactive, new_chunk)]
            ELSE target_chunks[c]
        NewEntry == [path |-> prove_membership(swbf_after, num_leafs(ms.swbf_inactive)),
                     chunk |-> new_chunk]
    IN  IF ~window_slides(leafs) THEN target_chunks
        ELSE [c \in DOMAIN target_chunks \cup ({old_window_start} \cap ChunkIndices(indices)) |->
                IF c = old_window_start /\ c \in ChunkIndices(indices)
                THEN NewEntry ELSE Updated(c)]

(***************************************************************************)
(* Mutant: entries whose own chunk is not touched keep their path.         *)
(***************************************************************************)
RemoveWithoutPaths(target_chunks, rr) ==
    [c \in DOMAIN target_chunks |->
        [target_chunks[c] EXCEPT !.chunk = combine(@, Difference(rr.indices, c))]]

(***************************************************************************)
(* get_batch_mutation_argument_for_removal_record and the update of the    *)
(* dictionary with it: own chunks first, else those of the removal record. *)
(***************************************************************************)
ChunksAfterRemove(target_chunks, rr) ==
    LET own == [c \in DOMAIN target_chunks |->
                    combine(target_chunks[c].chunk, Difference(rr.indices, c))]
        Known == DOMAIN target_chunks \cup DOMAIN rr.target_chunks
        mutations == [c \in ChunkIndices(rr.indices) \cap Known |->
            IF c \in DOMAIN own
            THEN [leaf |-> own[c], path |-> target_chunks[c].path]
            ELSE [leaf |-> combine(rr.target_chunks[c].chunk, Difference(rr.indices, c)),
                  path |-> rr.target_chunks[c].path]]
    IN  [c \in DOMAIN target_chunks |->
            [path |-> update_from_leaf_mutations(target_chunks[c].path, c, mutations),
             chunk |-> own[c]]]

(***************************************************************************)
(* prepare_authenticated_batch_modification_for_removal_record_reversion   *)
(* and the update with it: the chunk of the removal record is the old one. *)
(***************************************************************************)
ChunksBeforeRemove(target_chunks, rr) ==
    LET own == [c \in DOMAIN target_chunks |->
                    remove_once(target_chunks[c].chunk, Difference(rr.indices, c))]
        Known == DOMAIN target_chunks \cup DOMAIN rr.target_chunks
        mutations == [c \in ChunkIndices(rr.indices) \cap Known |->
            IF c \in DOMAIN own
            THEN [leaf |-> own[c], path |-> target_chunks[c].path]
            ELSE [leaf |-> rr.target_chunks[c].chunk, path |-> rr.target_chunks[c].path]]
    IN  [c \in DOMAIN target_chunks |->
            [path |-> update_from_leaf_mutations(target_chunks[c].path, c, mutations),
             chunk |-> own[c]]]

rr_update_from_addition(rr, ms) ==
    [rr EXCEPT !.target_chunks = ChunksAfterAddition(@, rr.indices, ms)]

rr_update_from_remove(rr, applied) ==
    [rr EXCEPT !.target_chunks = ChunksAfterRemove(@, applied)]

-----------------------------------------------------------------------------
(* Membership proofs *)

prove(ms, item) ==
    [item |-> item,
     aocl_leaf_index |-> num_leafs(ms.aocl),
     auth_path_aocl |-> prove_membership(append(ms.aocl, item), num_leafs(ms.aocl)),
     target_chunks |-> Empty]

compute_indices(mp) == get_swbf_indices(mp.item, mp.aocl_leaf_index)

drop(mp) == [indices |-> compute_indices(mp), target_chunks |-> mp.target_chunks]

verify_membership(ms, mp) ==
    LET indices == compute_indices(mp)
        Absent(x) ==
            IF x < WindowStart(ms)
            THEN mp.target_chunks[x \div CHUNK_SIZE].chunk[x % CHUNK_SIZE] = 0
            ELSE ms.swbf_active[x - WindowStart(ms)] = 0
    IN  /\ verify(mp.auth_path_aocl, mp.aocl_leaf_index, mp.item, ms.aocl)
        /\ ~HasFutureIndex(indices, ms)
        /\ InactiveChunks(indices, ms) \subseteq DOMAIN mp.target_chunks
        /\ \A c \in InactiveChunks(indices, ms) :
              verify(mp.target_chunks[c].path, c, mp.target_chunks[c].chunk, ms.swbf_inactive)
        /\ \E t \in DOMAIN indices : Absent(indices[t])

(***************************************************************************)
(* The assertion at the head of MsMembershipProof::batch_update_from_-     *)
(* addition, and what update_from_addition answers with an error.          *)
(***************************************************************************)
mp_is_updatable(mp, ms) ==
    mp.aocl_leaf_index < num_leafs(ms.aocl) /\ ChunksVerify(mp.target_chunks, ms)

mp_update_from_addition(mp, ms, item) ==
    [mp EXCEPT
        !.auth_path_aocl = update_from_append(@, mp.aocl_leaf_index, ms.aocl, item),
        !.target_chunks = ChunksAfterAddition(@, compute_indices(mp), ms)]

mp_update_from_remove(mp, rr) ==
    [mp EXCEPT !.target_chunks = ChunksAfterRemove(@, rr)]

mp_revert_update_from_remove(mp, rr) ==
    [mp EXCEPT !.target_chunks = ChunksBeforeRemove(@, rr)]

(***************************************************************************)
(* Mutant: the path keeps the siblings of the larger range.                *)
(***************************************************************************)
NotTruncated(path, i, leafs) == path

Truncated(path, i, leafs) ==
    [j \in DOMAIN path \cap Subtree(i, PeakHeight(i, leafs)) |-> path[j]]

mp_revert_update_from_batch_addition(mp, previous) ==
    LET leafs == num_leafs(previous.swbf_inactive)
    IN  [mp EXCEPT
            !.auth_path_aocl = Truncated(@, mp.aocl_leaf_index, num_leafs(previous.aocl)),
            !.target_chunks = [c \in {k \in DOMAIN @ : k < leafs} |->
                [@[c] EXCEPT !.path = Truncated(@, c, leafs)]]]
=============================================================================
