----------------------------- MODULE Difficulty -----------------------------
(***************************************************************************)
(* models/blockchain/block/difficulty_control.rs: the difficulty and the   *)
(* cumulative proof-of-work are little-endian sequences of limbs; the      *)
(* controller sets the difficulty of the next block from its timestamp.    *)
(*                                                                         *)
(* A limb is 32 bits wide in the code; here it is LIMB_BITS wide, and so   *)
(* is the fraction of the fixed-point numbers.                             *)
(***************************************************************************)
EXTENDS Integers, Sequences, SequencesExt

CONSTANTS
    LIMB_BITS,
    DIFFICULTY_NUM_LIMBS,
    MINIMUM_DIFFICULTY,        \* LIMBS_FOR_MINIMUM[0]; its other limbs are 0
    TARGET_BLOCK_INTERVAL,
    MINIMUM_BLOCK_TIME,
    WAIT_LOG2,                 \* ADVANCE_DIFFICULTY_CORRECTION_WAIT.ilog2()
    FACTOR_LOG2                \* ADVANCE_DIFFICULTY_CORRECTION_FACTOR.ilog2()

BASE == 2^LIMB_BITS
POW_NUM_LIMBS == DIFFICULTY_NUM_LIMBS + 1

\* The conversion to BigUint.
ToNat(limbs) == FoldRight(LAMBDA limb, n : n * BASE + limb, limbs, 0)

LIMBS_FOR_MINIMUM ==
    [i \in 1..DIFFICULTY_NUM_LIMBS |-> IF i = 1 THEN MINIMUM_DIFFICULTY ELSE 0]

new(limbs) ==
    IF \A i \in 1..DIFFICULTY_NUM_LIMBS : limbs[i] <= LIMBS_FOR_MINIMUM[i]
    THEN LIMBS_FOR_MINIMUM ELSE limbs

MAXIMUM == [i \in 1..DIFFICULTY_NUM_LIMBS |-> BASE - 1]
MAXIMUM_POW == [i \in 1..POW_NUM_LIMBS |-> BASE - 1]

\* One step of long addition: the low digit of sum is kept, the rest is carried.
CarryOut(acc, sum) ==
    [digits |-> Append(acc.digits, sum % BASE), carry |-> sum \div BASE]

NoCarry == [digits |-> <<>>, carry |-> 0]

\* Mutant: the carry of adding the two partial products is lost.
safe_mulNoCarryBit(limbs, lo, hi) ==
    LET low == FoldLeft(LAMBDA acc, d : CarryOut(acc, acc.carry + d * lo), NoCarry, limbs)
        first == Append(low.digits, low.carry)
        high == FoldLeftDomain(
            LAMBDA acc, i :
                LET sum == acc.carry + limbs[i] * hi
                IN  [digits |-> Append(acc.digits, (first[i + 1] + (sum % BASE)) % BASE),
                     carry |-> sum \div BASE],
            NoCarry, limbs)
    IN  [difficulty |-> new(high.digits), overflow |-> high.carry]

(***************************************************************************)
(* safe_mul_fixed_point_rational: the product with lo / BASE, of which the *)
(* lowest limb is dropped at the end, plus the product with hi.            *)
(***************************************************************************)
safe_mul_fixed_point_rational(limbs, lo, hi) ==
    LET low == FoldLeft(LAMBDA acc, d : CarryOut(acc, acc.carry + d * lo), NoCarry, limbs)
        first == Append(low.digits, low.carry)
        high == FoldLeftDomain(
            LAMBDA acc, i :
                LET sum == acc.carry + limbs[i] * hi
                    digit == first[i + 1] + (sum % BASE)
                IN  [digits |-> Append(acc.digits, digit % BASE),
                     carry |-> (sum \div BASE) + (digit \div BASE)],
            NoCarry, limbs)
    IN  [difficulty |-> new(high.digits), overflow |-> high.carry]

(***************************************************************************)
(* Shr: whole limbs first, then the bits that are left, from the highest   *)
(* limb down.                                                              *)
(***************************************************************************)
shr(limbs, rhs) ==
    LET limb_offset == rhs \div LIMB_BITS
        remainder == rhs % LIMB_BITS
        array == [i \in 1..DIFFICULTY_NUM_LIMBS |->
            IF i + limb_offset <= DIFFICULTY_NUM_LIMBS THEN limbs[i + limb_offset] ELSE 0]
        shifted == FoldRight(
            LAMBDA limb, acc :
                [digits |-> <<(limb \div 2^remainder) + acc.carry * 2^(LIMB_BITS - remainder)>>
                            \o acc.digits,
                 carry |-> limb % 2^remainder],
            array, NoCarry)
    IN  new(IF remainder = 0 THEN array ELSE shifted.digits)

\* Add for ProofOfWork; the carry out of the last limb is dropped.
pow_add(pow, limbs) ==
    LET low == FoldLeftDomain(LAMBDA acc, i : CarryOut(acc, acc.carry + limbs[i] + pow[i]),
                              NoCarry, limbs)
        all == FoldLeft(LAMBDA acc, d : CarryOut(acc, acc.carry + d),
                        low, SubSeq(pow, Len(limbs) + 1, POW_NUM_LIMBS))
    IN  all.digits

\* Ord: the highest limbs that differ decide.
cmp(a, b) ==
    FoldRightDomain(
        LAMBDA i, acc :
            CASE acc # "Equal" -> acc
              [] a[i] < b[i] -> "Less"
              [] a[i] > b[i] -> "Greater"
              [] OTHER -> "Equal",
        a, "Equal")

clamp(x, low, high) == IF x < low THEN low ELSE IF x > high THEN high ELSE x

(***************************************************************************)
(* The error of the block time in units of 1/BASE. The division comes      *)
(* first, so the unit is rounded down.                                     *)
(***************************************************************************)
relative_error(delta_t) ==
    (delta_t - TARGET_BLOCK_INTERVAL) * (BASE \div TARGET_BLOCK_INTERVAL)

num_advance_reductions(delta_t) ==
    relative_error(delta_t) \div (BASE * 2^WAIT_LOG2)

one_plus_p_times_error(delta_t) ==
    BASE + ((-clamp(relative_error(delta_t), -BASE, 4 * BASE)) \div 16)

\* Mutant: a product beyond the last limb wraps around.
difficulty_controlWraps(new_timestamp, previous) ==
    LET delta_t == new_timestamp - previous.timestamp
        reductions == num_advance_reductions(delta_t)
        reduced == IF reductions > 0
                   THEN shr(previous.difficulty, reductions * FACTOR_LOG2)
                   ELSE previous.difficulty
        factor == one_plus_p_times_error(delta_t)
    IN  IF previous.height = 0 THEN previous.difficulty
        ELSE safe_mul_fixed_point_rational(reduced, factor % BASE, factor \div BASE).difficulty

difficulty_control(new_timestamp, previous) ==
    LET delta_t == new_timestamp - previous.timestamp
        reductions == num_advance_reductions(delta_t)
        reduced == IF reductions > 0
                   THEN shr(previous.difficulty, reductions * FACTOR_LOG2)
                   ELSE previous.difficulty
        factor == one_plus_p_times_error(delta_t)
        product == safe_mul_fixed_point_rational(reduced, factor % BASE, factor \div BASE)
    IN  CASE previous.height = 0 -> previous.difficulty
          [] previous.height # 0 /\ product.overflow > 0 -> MAXIMUM
          [] OTHER -> product.difficulty
=============================================================================
