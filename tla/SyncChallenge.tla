---------------------------- MODULE SyncChallenge ----------------------------
(***************************************************************************)
(* A chain whose difficulty is controlled, and the sync challenge by which *)
(* another node convinces itself that the chain is real (models/peer.rs,   *)
(* GlobalState::response_to_sync_challenge, peer_loop.rs).                 *)
(*                                                                         *)
(* Both nodes follow the protocol. The answering node may find blocks and  *)
(* may be reorganized at any time. A block's digest commits to all its     *)
(* ancestors, so a chain, the sequence of its headers from genesis up, is  *)
(* also the digest of its tip.                                             *)
(***************************************************************************)
EXTENDS Difficulty, Mmr

CONSTANTS
    GenesisDifficulties,                \* sequences of limbs
    BlockTimes,                         \* times a block may take
    MaxHeight,
    MaxReorgs,
    SYNC_CHALLENGE_NUM_BLOCK_PAIRS,
    SYNC_CHALLENGE_POW_WITNESS_LENGTH,
    SYNC_MODE_THRESHOLD                 \* cli argument, at least 10 in the code

VARIABLES
    chain,      \* canonical chain of the answering node
    reorgs,     \* how often it was reorganized
    notified,   \* chain of the block notification under way, or <<>>
    issued,     \* the challenge, or <<>>: [tip, challenges]
    outcome     \* what became of the last challenge

vars == <<chain, reorgs, notified, issued, outcome>>

Zero == [i \in 1..POW_NUM_LIMBS |-> 0]

GenesisHeader(difficulty) ==
    [height |-> 0, timestamp |-> 0, cumulative_proof_of_work |-> Zero,
     difficulty |-> difficulty]

template_header(predecessor, timestamp) ==
    [height |-> predecessor.height + 1,
     timestamp |-> timestamp,
     cumulative_proof_of_work |->
         pow_add(predecessor.cumulative_proof_of_work, predecessor.difficulty),
     difficulty |-> difficulty_control(timestamp, predecessor)]

\* guess_worker: the template gets the time at which guessing starts.
guessed_header(template, predecessor, now) ==
    [template EXCEPT !.timestamp = now, !.difficulty = difficulty_control(now, predecessor)]

(***************************************************************************)
(* The rules 0.a, 0.d, 0.e and 0.f of Block::is_valid_internal.            *)
(***************************************************************************)
IsValidHeader(header, previous) ==
    /\ header.height = previous.height + 1
    /\ header.timestamp >= previous.timestamp + MINIMUM_BLOCK_TIME
    /\ header.difficulty = difficulty_control(header.timestamp, previous)
    /\ header.cumulative_proof_of_work =
           pow_add(previous.cumulative_proof_of_work, previous.difficulty)

\* A chain with n more blocks; template and guess of each are a block time apart.
RECURSIVE Extended(_, _, _)
Extended(blocks, n, block_time) ==
    IF n = 0 THEN blocks
    ELSE LET tip == Last(blocks)
             template == template_header(tip, tip.timestamp)
         IN  Extended(Append(blocks, guessed_header(template, tip, tip.timestamp + block_time)),
                      n - 1, block_time)

TipHeight(blocks) == Last(blocks).height

\* Fork choice between tips of different height.
MoreWork(new_chain, old_chain) ==
    cmp(Last(new_chain).cumulative_proof_of_work,
        Last(old_chain).cumulative_proof_of_work) = "Greater"

-----------------------------------------------------------------------------
(***************************************************************************)
(* The challenge and the answer.                                           *)
(***************************************************************************)

\* SyncChallenge::generate: heights below the tip, never 0 or 1, sorted.
Challenges(tip_height) ==
    {s \in [1..SYNC_CHALLENGE_NUM_BLOCK_PAIRS -> 2..(tip_height - 1)] :
        \A i \in 2..SYNC_CHALLENGE_NUM_BLOCK_PAIRS : s[i - 1] <= s[i]}

exceeds_sync_mode_threshold(own, tip) ==
    /\ cmp(own.cumulative_proof_of_work, tip.cumulative_proof_of_work) = "Less"
    /\ tip.height - own.height > SYNC_MODE_THRESHOLD

\* The archival block MMR of a chain; a leaf is the digest of a block.
BlockMmr(blocks) == [h \in 0..TipHeight(blocks) |-> SubSeq(blocks, 1, h + 1)]

\* response_to_sync_challenge bails out; the challenge is looked up in two places.
CannotAnswer(c) ==
    \/ TipHeight(c.tip) < SYNC_CHALLENGE_POW_WITNESS_LENGTH
    \/ c.challenges[1] \notin DOMAIN BlockMmr(chain)

\* prove_membership_relative_to_smaller_mmr asserts that the MMR is smaller.
AnswerPanics(c) == TipHeight(c.tip) + 1 > num_leafs(BlockMmr(chain))

\* The tip comes from the archive, the block pairs from the canonical chain.
response_to_sync_challenge(c) ==
    LET mmr == BlockMmr(chain)
        h(i) == c.challenges[i]
        I == 1..SYNC_CHALLENGE_NUM_BLOCK_PAIRS
    IN  [tip_parent |-> c.tip[Len(c.tip) - 1],
         tip |-> Last(c.tip),
         parents |-> [i \in I |-> chain[h(i)]],
         children |-> [i \in I |-> chain[h(i) + 1]],
         digests |-> [i \in I |-> mmr[h(i)]],
         membership_proofs |->
             [i \in I |-> prove_membership_relative(mmr, h(i), TipHeight(c.tip) + 1)]]

\* SyncChallengeResponse::is_valid: the children are ancestors of the tip.
is_valid(response, c) ==
    /\ IsValidHeader(response.tip, response.tip_parent)
    /\ \A i \in DOMAIN response.children :
        /\ verify(response.membership_proofs[i], c.challenges[i], response.digests[i],
                  BlockMmr(c.tip))
        /\ IsValidHeader(response.children[i], response.parents[i])

CeilDiv(a, b) == (a + b - 1) \div b

\* Mutant: the difficulty is taken to be constant.
max_cumulative_pow_afterFlat(cumulative_pow_start, difficulty_start, num_blocks) ==
    ToNat(cumulative_pow_start) + num_blocks * ToNat(difficulty_start)

(***************************************************************************)
(* max_cumulative_pow_after, in numbers: the code computes with doubles    *)
(* and adds an EPSILON for their rounding, here every product is rounded   *)
(* up.                                                                     *)
(***************************************************************************)
max_cumulative_pow_after(cumulative_pow_start, difficulty_start, num_blocks) ==
    LET f(d) == CeilDiv(d * (17 * TARGET_BLOCK_INTERVAL - MINIMUM_BLOCK_TIME),
                        16 * TARGET_BLOCK_INTERVAL)
        end == FoldLeft(
            LAMBDA acc, i : [pow |-> acc.pow + acc.difficulty, difficulty |-> f(acc.difficulty)],
            [pow |-> ToNat(cumulative_pow_start), difficulty |-> ToNat(difficulty_start)],
            [i \in 1..num_blocks |-> i])
    IN  Min({end.pow, ToNat(MAXIMUM_POW)})

\* check_pow a): between the sampled blocks the work grows as fast as it can.
cumulative_pow_evolution_okay(response) ==
    LET points == <<chain[1]>> \o response.parents \o <<response.tip_parent>>
    IN  \A i \in 1..(Len(points) - 1) :
            LET start == points[i]
                stop == points[i + 1]
            IN  /\ max_cumulative_pow_after(start.cumulative_proof_of_work, start.difficulty,
                        stop.height - start.height) >= ToNat(stop.cumulative_proof_of_work)
                /\ cmp(start.cumulative_proof_of_work, stop.cumulative_proof_of_work) # "Greater"

\* check_pow b): unless the own tip is genesis, some difficulty reaches the mean.
too_few_above_mean_difficulties(response, own) ==
    LET first == response.parents[1]
        last == response.tip
        total_pow_increase == ToNat(last.cumulative_proof_of_work)
                              - ToNat(first.cumulative_proof_of_work)
        span == last.height - first.height
        sampled == Range(response.parents) \cup Range(response.children)
                   \cup {response.tip_parent, response.tip}
    IN  /\ own.height # 0
        /\ \A b \in sampled : ToNat(b.difficulty) * span < total_pow_increase

check_difficulty(response, own) ==
    cmp(FoldLeft(LAMBDA pow, b : pow_add(pow, b.difficulty), Zero, response.children),
        pow_add(Zero, own.difficulty)) = "Greater"

-----------------------------------------------------------------------------
Init ==
    /\ \E d \in GenesisDifficulties : chain = <<GenesisHeader(d)>>
    /\ reorgs = 0
    /\ notified = <<>>
    /\ issued = <<>>
    /\ outcome = "none"

\* The answering node finds or receives the next block.
NewBlock(block_time) ==
    /\ TipHeight(chain) < MaxHeight
    /\ block_time >= MINIMUM_BLOCK_TIME
    /\ chain' = Extended(chain, 1, block_time)
    /\ UNCHANGED <<reorgs, notified, issued, outcome>>

\* It adopts another chain with the same first blocks.
Reorganize(keep, n, block_time) ==
    /\ reorgs < MaxReorgs
    /\ block_time >= MINIMUM_BLOCK_TIME
    /\ n > 0 /\ keep + n <= MaxHeight + 1
    /\ reorgs' = reorgs + 1
    /\ LET new_chain == Extended(SubSeq(chain, 1, keep), n, block_time)
       IN  /\ MoreWork(new_chain, chain)
           /\ chain' = new_chain
    /\ UNCHANGED <<notified, issued, outcome>>

\* PeerMessage::BlockNotificationRequest is answered; new tips are announced.
\* One challenge is followed to its end.
BlockNotification ==
    /\ notified = <<>> /\ issued = <<>> /\ outcome = "none"
    /\ TipHeight(chain) > 0
    /\ notified' = chain
    /\ UNCHANGED <<chain, reorgs, issued, outcome>>

\* PeerMessage::BlockNotification, at a node whose tip is a block of the same chain.
IssueChallenge(own) ==
    /\ notified # <<>>
    /\ notified' = <<>>
    /\ IF exceeds_sync_mode_threshold(own, Last(notified))
       THEN \E c \in Challenges(TipHeight(notified)) :
                issued' = [tip |-> notified, challenges |-> c]
       ELSE issued' = <<>>
    /\ UNCHANGED <<chain, reorgs, outcome>>

\* PeerMessage::SyncChallengeResponse: the first check that fails decides.
Judge(response, c, own, late) ==
    IF ~is_valid(response, c) THEN "InvalidSyncChallengeResponse"
    ELSE IF ~cumulative_pow_evolution_okay(response) THEN "ImpossiblePowEvolution"
    ELSE IF too_few_above_mean_difficulties(response, own) THEN "FishyPowEvolution"
    ELSE IF ~check_difficulty(response, own) THEN "FishyDifficulties"
    ELSE IF late THEN "TimedOut"
    ELSE "accepted"

\* PeerMessage::SyncChallenge and its answer; the judge's own tip is read afresh.
AnswerChallenge(own, late) ==
    /\ issued # <<>>
    /\ issued' = <<>>
    /\ outcome' = IF CannotAnswer(issued) THEN "InvalidSyncChallenge"
                  ELSE IF AnswerPanics(issued) THEN "panicked"
                  ELSE Judge(response_to_sync_challenge(issued), issued, own, late)
    /\ UNCHANGED <<chain, reorgs, notified>>

Next ==
    \/ \E t \in BlockTimes : NewBlock(t)
    \/ \E keep \in 1..Len(chain), n \in 1..MaxHeight, t \in BlockTimes : Reorganize(keep, n, t)
    \/ BlockNotification
    \/ \E i \in 1..(Len(notified) - 1) : IssueChallenge(notified[i])
    \/ \E i \in 1..2, late \in BOOLEAN : issued # <<>> /\ AnswerChallenge(issued.tip[i], late)

Spec == Init /\ [][Next]_vars

-----------------------------------------------------------------------------
(***************************************************************************)
(* The difficulty as the controller's diagram has it, in whole numbers:    *)
(* the old one, reduced by a factor 2^FACTOR_LOG2 for every 2^WAIT_LOG2    *)
(* intervals too long, times the adjustment, between minimum and maximum.  *)
(***************************************************************************)
ControlledDifficulty(old, block_time) ==
    LET reductions == Max({0, num_advance_reductions(block_time)})
        reduced == Max({MINIMUM_DIFFICULTY, old \div 2^(reductions * FACTOR_LOG2)})
        adjusted == (reduced * one_plus_p_times_error(block_time)) \div BASE
    IN  Max({MINIMUM_DIFFICULTY, Min({adjusted, ToNat(MAXIMUM)})})

(***************************************************************************)
(* safe_mul_fixed_point_rational, Shr and Difficulty::new compute limb by  *)
(* limb, with carries and borrows, what difficulty_control means as whole  *)
(* numbers, up to a saturated maximum and down to the minimum. The         *)
(* cumulative proof-of-work, on which fork choice rests, is the sum of the *)
(* ancestors' difficulties: no carry between limbs is lost.                *)
(***************************************************************************)
DifficultyIsExact ==
    /\ \A i \in 3..Len(chain) :
          ToNat(chain[i].difficulty) =
              ControlledDifficulty(ToNat(chain[i - 1].difficulty),
                                   chain[i].timestamp - chain[i - 1].timestamp)
    /\ ToNat(Last(chain).cumulative_proof_of_work) =
          FoldLeft(LAMBDA n, b : n + ToNat(b.difficulty), 0, Front(chain))

(***************************************************************************)
(* difficulty_control regulates: waiting longer never makes the next block *)
(* harder, through clamping, the advance correction and overflow alike;    *)
(* a block no slower than the target never lowers the difficulty and one   *)
(* no faster never raises it.                                              *)
(***************************************************************************)
LongerWaitIsNeverHarder ==
    LET tip == Last(chain)
        next == [t \in BlockTimes |-> ToNat(difficulty_control(tip.timestamp + t, tip))]
    IN  \A t \in BlockTimes :
            /\ t <= TARGET_BLOCK_INTERVAL => next[t] >= ToNat(tip.difficulty)
            /\ t >= TARGET_BLOCK_INTERVAL => next[t] <= ToNat(tip.difficulty)
            /\ \A u \in BlockTimes : t <= u => next[u] <= next[t]

(***************************************************************************)
(* A node that answers a sync challenge about a block of its present       *)
(* canonical chain neither stops, nor refuses the challenge, nor sends an  *)
(* answer that is invalid or whose work max_cumulative_pow_after holds to  *)
(* be impossible. Only the two heuristics and the time limit can fail it.  *)
(***************************************************************************)
HonestAnswerIsTrusted ==
    [][/\ issued # <<>> /\ issued' = <<>>
       /\ IsPrefix(issued.tip, chain)
       => outcome' \in {"accepted", "TimedOut", "FishyPowEvolution", "FishyDifficulties"}]_vars
=============================================================================
