-------------------------- MODULE BlockTreeTheorems --------------------------
(***************************************************************************)
(* Facts about paths in the block tree, for every tree.                    *)
(***************************************************************************)
EXTENDS BlockTree, WellFoundedInduction, SequenceTheorems, TLAPS

(* What the proofs use of the assumption on Chain, one block at a time.    *)
LEMMA ChainFacts ==
    ASSUME NEW b \in Blocks
    PROVE  /\ Chain[b] \in Seq(Blocks)
           /\ Len(Chain[b]) \in Nat
           /\ Len(Chain[b]) > 0
           /\ Chain[b][1] = Genesis
           /\ Chain[b][Len(Chain[b])] = b
           /\ \A i \in 1..Len(Chain[b]) : Chain[b][i] \in Blocks
  <1>1. Chain[b] \in Seq(Blocks)
    BY ChainAssumption
  <1>2. Len(Chain[b]) > 0 /\ Chain[b][1] = Genesis /\ Chain[b][Len(Chain[b])] = b
    BY ChainAssumption
  <1> QED BY <1>1, <1>2

(* A path cut at one of its blocks is the path to that block.              *)
LEMMA ChainPrefix ==
    ASSUME NEW b \in Blocks, NEW i \in 1..Len(Chain[b])
    PROVE  Chain[Chain[b][i]] = SubSeq(Chain[b], 1, i)
  BY ChainAssumption

(* Two paths part somewhere, at the latest just above the end of the first *)
(* one, and there is a first place where they do.                          *)
LEMMA ForkPointFacts ==
    ASSUME NEW a \in Blocks, NEW b \in Blocks
    PROVE  /\ ForkPoint(a, b) \in 1..(Len(Chain[a]) + 1)
           /\ Parted(a, b, ForkPoint(a, b))
           /\ \A j \in 1..(ForkPoint(a, b) - 1) : ~Parted(a, b, j)
  <1> DEFINE T == {i \in 1..(Len(Chain[a]) + 1) : Parted(a, b, i)}
  <1>0. Len(Chain[a]) \in Nat /\ Len(Chain[b]) \in Nat
    BY ChainFacts
  <1>1. T \subseteq Nat /\ T # {}
    <2>1. Len(Chain[a]) + 1 \in T
      BY <1>0 DEF Parted
    <2> QED BY <2>1, <1>0
  <1>2. PICK m \in T : \A y \in T : ~(<<y, m>> \in OpToRel(<, Nat))
    <2> HIDE DEF T
    <2> QED BY <1>1, NatLessThanWellFounded, WFMin
  <1>3. \A y \in T : ~(y < m)
    BY <1>1, <1>2 DEF OpToRel
  <1>4. \A j \in 1..(m - 1) : ~Parted(a, b, j)
    BY <1>3, <1>0
  <1> QED BY <1>4, <1>0 DEF ForkPoint

(* Below the place where they part, two paths are equal; and they share    *)
(* at least genesis.                                                       *)
LEMMA ForkPointShared ==
    ASSUME NEW a \in Blocks, NEW b \in Blocks
    PROVE  /\ ForkPoint(a, b) - 1 \in 1..Len(Chain[a])
           /\ ForkPoint(a, b) - 1 \in 1..Len(Chain[b])
           /\ \A j \in 1..(ForkPoint(a, b) - 1) : Chain[a][j] = Chain[b][j]
  <1> DEFINE f == ForkPoint(a, b)
  <1>0. Len(Chain[a]) \in Nat \ {0} /\ Len(Chain[b]) \in Nat \ {0}
    BY ChainFacts
  <1>1. f \in 1..(Len(Chain[a]) + 1) /\ Parted(a, b, f)
        /\ \A j \in 1..(f - 1) : ~Parted(a, b, j)
    BY ForkPointFacts
  <1> HIDE DEF f
  <1>2. ~Parted(a, b, 1)
    BY <1>0, ChainFacts DEF Parted
  <1>3. f # 1
    BY <1>1, <1>2
  <1>4. ~Parted(a, b, f - 1)
    BY <1>0, <1>1, <1>3
  <1>5. f - 1 \in 1..Len(Chain[a]) /\ f - 1 \in 1..Len(Chain[b])
    BY <1>0, <1>1, <1>3, <1>4 DEF Parted
  <1>6. \A j \in 1..(f - 1) : Chain[a][j] = Chain[b][j]
    BY <1>1 DEF Parted
  <1> QED BY <1>5, <1>6 DEF f

(* Every block other than genesis has a parent, one position lower, and    *)
(* its path is the parent's path followed by the block.                    *)
LEMMA ParentFacts ==
    ASSUME NEW b \in Blocks, b # Genesis
    PROVE  /\ Len(Chain[b]) - 1 \in 1..Len(Chain[b])
           /\ Prev(b) \in Blocks
           /\ Chain[Prev(b)] = SubSeq(Chain[b], 1, Len(Chain[b]) - 1)
           /\ Len(Chain[Prev(b)]) = Len(Chain[b]) - 1
           /\ \A i \in 1..(Len(Chain[b]) - 1) : Chain[Prev(b)][i] = Chain[b][i]
           /\ Chain[b] = Append(Chain[Prev(b)], b)
  <1>0. Chain[b] \in Seq(Blocks) /\ Len(Chain[b]) \in Nat \ {0}
    BY ChainFacts
  <1>1. Len(Chain[b]) - 1 \in 1..Len(Chain[b])
    BY ChainFacts, <1>0
  <1>2. Prev(b) \in Blocks
    BY <1>0, <1>1 DEF Prev
  <1>3. Chain[Prev(b)] = SubSeq(Chain[b], 1, Len(Chain[b]) - 1)
    BY <1>1, ChainPrefix DEF Prev
  <1>4. /\ Len(Chain[Prev(b)]) = Len(Chain[b]) - 1
        /\ \A i \in 1..(Len(Chain[b]) - 1) : Chain[Prev(b)][i] = Chain[b][i]
    BY <1>0, <1>1, <1>3, SubSeqProperties
  <1>5. Chain[b] = Append(Chain[Prev(b)], b)
    <2> DEFINE c == Chain[b]
               p == Chain[Prev(b)]
    <2>1. c \in Seq(Blocks) /\ p \in Seq(Blocks) /\ Len(c) \in Nat /\ Len(p) = Len(c) - 1
      BY <1>0, <1>2, <1>4, ChainFacts
    <2>2. c[Len(c)] = b /\ \A i \in 1..Len(p) : p[i] = c[i]
      BY <1>4, ChainFacts
    <2> HIDE DEF c, p
    <2>3. /\ Append(p, b) \in Seq(Blocks) /\ Len(Append(p, b)) = Len(p) + 1
          /\ \A i \in 1..Len(p) : Append(p, b)[i] = p[i]
          /\ Append(p, b)[Len(p) + 1] = b
      BY <2>1, AppendProperties
    <2>4. \A i \in 1..Len(c) : c[i] = Append(p, b)[i]
      BY <2>1, <2>2, <2>3
    <2>5. c = Append(p, b)
      BY <2>1, <2>3, <2>4, SeqEqual
    <2> QED BY <2>5 DEF c, p
  <1> QED BY <1>1, <1>2, <1>3, <1>4, <1>5

(* The path from a to b leaves blocks that end the path to a, and rolling  *)
(* those back and then applying the blocks to arrive at gives the path to  *)
(* b.  `append_to_archival_block_mmr' and `update_mutator_set' rest on it. *)
THEOREM PathLeads ==
    ASSUME NEW a \in Blocks, NEW b \in Blocks
    PROVE  LET p == find_path(a, b)
               n == Len(Chain[a])
           IN  /\ Len(p.backwards) \in 0..(n - 1)
               /\ \A i \in 1..Len(p.backwards) : p.backwards[i] = Chain[a][n + 1 - i]
               /\ p.forwards \in Seq(Blocks)
               /\ SubSeq(Chain[a], 1, n - Len(p.backwards)) \o p.forwards = Chain[b]
  <1> DEFINE k == ForkPoint(a, b) - 1
             n == Len(Chain[a])
             m == Len(Chain[b])
             back == [i \in 1..(n - k) |-> Chain[a][n + 1 - i]]
             forw == SubSeq(Chain[b], k + 1, m)
  <1>1. /\ Chain[a] \in Seq(Blocks) /\ n \in Nat
        /\ Chain[b] \in Seq(Blocks) /\ m \in Nat
    BY ChainFacts
  <1>2. k \in 1..n /\ k \in 1..m /\ \A j \in 1..k : Chain[a][j] = Chain[b][j]
    BY ForkPointShared
  <1>3. find_path(a, b).backwards = back /\ find_path(a, b).forwards = forw
    BY DEF find_path
  <1> HIDE DEF k
  <1>4. back \in Seq(Blocks) /\ Len(back) = n - k
        /\ \A i \in 1..(n - k) : back[i] = Chain[a][n + 1 - i]
    <2>1. n - k \in Nat
      BY <1>1, <1>2
    <2>2. \A i \in 1..(n - k) : Chain[a][n + 1 - i] \in Blocks
      BY <1>1, <1>2
    <2>3. back \in [1..(n - k) -> Blocks]
      BY <2>2
    <2>4. \A i \in 1..(n - k) : back[i] = Chain[a][n + 1 - i]
      OBVIOUS
    <2> HIDE DEF back
    <2>5. back \in Seq(Blocks)
      BY <2>1, <2>3
    <2>6. Len(back) = n - k
      BY <2>1, <2>3, <2>5
    <2> QED BY <2>4, <2>5, <2>6
  <1>5. /\ forw \in Seq(Blocks)
        /\ Len(forw) = m - k
        /\ \A i \in 1..(m - k) : forw[i] = Chain[b][k + i]
    <2>1. \A i \in (k + 1)..m : Chain[b][i] \in Blocks
      BY <1>1, <1>2
    <2> QED BY <1>1, <1>2, <2>1, SubSeqProperties
  <1>6. SubSeq(Chain[a], 1, k) = SubSeq(Chain[b], 1, k)
    <2>1. /\ SubSeq(Chain[a], 1, k) \in Seq(Blocks) /\ Len(SubSeq(Chain[a], 1, k)) = k
          /\ \A i \in 1..k : SubSeq(Chain[a], 1, k)[i] = Chain[a][i]
      BY <1>1, <1>2, SubSeqProperties
    <2>2. /\ SubSeq(Chain[b], 1, k) \in Seq(Blocks) /\ Len(SubSeq(Chain[b], 1, k)) = k
          /\ \A i \in 1..k : SubSeq(Chain[b], 1, k)[i] = Chain[b][i]
      BY <1>1, <1>2, SubSeqProperties
    <2> QED BY <1>2, <2>1, <2>2, SeqEqual
  <1>7. SubSeq(Chain[b], 1, k) \o forw = SubSeq(Chain[b], 1, m)
    BY <1>1, <1>2, ConcatAdjacentSubSeq
  <1>8. SubSeq(Chain[b], 1, m) = Chain[b]
    BY <1>1, SubSeqFull
  <1>9. n - Len(back) = k
    BY <1>1, <1>2, <1>4
  <1>10. Len(back) \in 0..(n - 1)
    BY <1>1, <1>2, <1>4
  <1> HIDE DEF back, forw
  <1> QED BY <1>3, <1>4, <1>5, <1>6, <1>7, <1>8, <1>9, <1>10 DEF n
==============================================================================
