----------------------------- MODULE ForkChoice ------------------------------
(***************************************************************************)
(* What a block commits to besides its predecessor, as far as the choice   *)
(* of the canonical chain and double spending depend on it.                *)
(***************************************************************************)
EXTENDS BlockTree

CONSTANTS
    Utxos,      \* the coins that blocks and transactions spend
    Spends,     \* for each block, the coins its transaction spends
    Work        \* for each block, its cumulative proof-of-work

ASSUME ForkChoiceAssumption ==
    /\ Spends \in [Blocks -> SUBSET Utxos]
    /\ Work \in [Blocks -> Nat]

(* `Block::fork_choice_rule'.                                              *)
fork_choice_rule(current, incoming) ==
    IF Height(current) # Height(incoming)
    THEN IF Work[current] >= Work[incoming] THEN current ELSE incoming
    ELSE IF Spends[current] = {} THEN incoming ELSE current

(* `GlobalState::incoming_block_is_more_canonical'.                        *)
MoreCanonical(current, incoming) == fork_choice_rule(current, incoming) # current

(* The coins spent on the chain up to b.                                   *)
SpentOn(b) == UNION {Spends[Chain[b][i]] : i \in 1..Len(Chain[b])}
==============================================================================
