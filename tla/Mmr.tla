-------------------------------- MODULE Mmr --------------------------------
(***************************************************************************)
(* Merkle mountain ranges: the list of leafs behind                        *)
(* util_types/archival_mmr.rs and the accumulators and membership proofs   *)
(* of the twenty_first crate.                                              *)
(*                                                                         *)
(* Hashing is taken to be injective, so a range is the function from leaf  *)
(* index to leaf, and an authentication path is the function from the      *)
(* other leafs under the same peak to their values: two ranges give a leaf *)
(* the same sibling digests exactly when these functions are equal.        *)
(***************************************************************************)
EXTENDS Integers, FiniteSets, FiniteSetsExt, TLC

(***************************************************************************)
(* What the digests of a range become when a leaf is mutated along a       *)
(* sibling path of another range: no list of leafs has these peaks.        *)
(***************************************************************************)
Corrupt == (-1) :> 0

IsCorrupt(mmr) == -1 \in DOMAIN mmr

Empty == <<>>

num_leafs(mmr) == Cardinality(DOMAIN mmr)

(***************************************************************************)
(* Peaks and sibling subtrees.  A subtree of height h holds 2^h leafs and  *)
(* starts at a multiple of 2^h; the peak over leaf i of a range of n leafs *)
(* is the highest one that lies inside the range.                          *)
(***************************************************************************)
Subtree(i, h) == ((i \div 2^h) * 2^h)..(((i \div 2^h) + 1) * 2^h - 1)

PeakHeight(i, n) == Max({h \in 0..n : ((i \div 2^h) + 1) * 2^h <= n})

SiblingHeight(i, k) == Max({h \in 0..(i + k) : i \div 2^h # k \div 2^h})

(***************************************************************************)
(* ArchivalMmr::prove_membership_async, relative to the first n leafs      *)
(* (prove_membership_relative_to_smaller_mmr) and to all of them.          *)
(***************************************************************************)
prove_membership_relative(mmr, i, n) ==
    [j \in Subtree(i, PeakHeight(i, n)) \ {i} |-> mmr[j]]

prove_membership(mmr, i) == prove_membership_relative(mmr, i, num_leafs(mmr))

append(mmr, leaf) == mmr @@ (num_leafs(mmr) :> leaf)

remove_last_leaf(mmr) == [i \in 0..(num_leafs(mmr) - 2) |-> mmr[i]]

(***************************************************************************)
(* MmrMembershipProof of the twenty_first crate.                           *)
(***************************************************************************)
verify(path, i, leaf, mmr) ==
    /\ ~IsCorrupt(mmr)
    /\ i < num_leafs(mmr)
    /\ mmr[i] = leaf
    /\ path = prove_membership(mmr, i)

update_from_append(path, i, mmr, leaf) ==
    LET new == prove_membership(append(mmr, leaf), i)
    IN  [j \in DOMAIN new |-> IF j \in DOMAIN path THEN path[j] ELSE new[j]]

(***************************************************************************)
(* Leaf mutations are a function from leaf index to the new leaf and the   *)
(* path of the old one.  A sibling subtree of the path is recomputed from  *)
(* a mutated leaf below it when the path of that leaf reaches up to it.    *)
(***************************************************************************)
update_from_leaf_mutations(path, i, mutations) ==
    [j \in DOMAIN path |->
        LET Below == {k \in DOMAIN mutations \ {i} :
                /\ SiblingHeight(i, k) = SiblingHeight(i, j)
                /\ Subtree(k, SiblingHeight(i, k)) \subseteq
                       DOMAIN mutations[k].path \cup {k}}
        IN  IF Below = {} THEN path[j]
            ELSE IF j \in Below THEN mutations[j].leaf
            ELSE mutations[Min(Below)].path[j]]

(***************************************************************************)
(* MmrAccumulator::batch_mutate_leaf_and_update_mps: the accumulator has   *)
(* no leafs, so it trusts the given paths.                                 *)
(***************************************************************************)
batch_mutate_leaf(mmr, mutations) ==
    IF /\ ~IsCorrupt(mmr)
       /\ \A k \in DOMAIN mutations :
            /\ k < num_leafs(mmr)
            /\ mutations[k].path = prove_membership(mmr, k)
    THEN [i \in DOMAIN mmr |-> IF i \in DOMAIN mutations THEN mutations[i].leaf ELSE mmr[i]]
    ELSE IF DOMAIN mutations = {} THEN mmr ELSE Corrupt
=============================================================================
