------------------------------ MODULE BlockTree ------------------------------
(***************************************************************************)
(* The blocks a node can ever hear of, as constant data.  A block commits  *)
(* to its predecessor through `prev_block_digest', so a digest determines  *)
(* the whole path to genesis: Chain[b] is that path, genesis first, b      *)
(* last.  Digests are modelled by the blocks themselves.                   *)
(***************************************************************************)
EXTENDS Integers, Sequences

CONSTANTS
    Blocks,     \* every block that may be mined, on any fork
    Genesis,    \* the hard-coded genesis block
    Chain       \* for each block, the blocks from genesis up to it

ASSUME ChainAssumption ==
    /\ Genesis \in Blocks
    /\ Chain \in [Blocks -> Seq(Blocks)]
    /\ Chain[Genesis] = <<Genesis>>
    /\ \A b \in Blocks :
          /\ Len(Chain[b]) > 0
          /\ Chain[b][1] = Genesis
          /\ Chain[b][Len(Chain[b])] = b
          /\ \A i \in 1..Len(Chain[b]) : Chain[Chain[b][i]] = SubSeq(Chain[b], 1, i)

(* `header.height': genesis has height 0.                                  *)
Height(b) == Len(Chain[b]) - 1

(* `header.prev_block_digest' of a block other than genesis.               *)
Prev(b) == Chain[b][Len(Chain[b]) - 1]

(* The paths of a and b no longer run together at position i.              *)
Parted(a, b, i) ==
    \/ i > Len(Chain[a])
    \/ i > Len(Chain[b])
    \/ Chain[a][i] # Chain[b][i]

(* The first position at which the two paths part; the position before it  *)
(* is the latest universal common ancestor, the `luca' of `find_path'.     *)
ForkPoint(a, b) ==
    CHOOSE i \in 1..(Len(Chain[a]) + 1) :
        Parted(a, b, i) /\ \A j \in 1..(i - 1) : ~Parted(a, b, j)

(* Mutant: the forward path begins at luca.                                *)
FindPathFromLuca(start, stop) ==
    LET k == ForkPoint(start, stop) - 1
        n == Len(Chain[start])
    IN  [ backwards |-> [i \in 1..(n - k) |-> Chain[start][n + 1 - i]],
          luca      |-> Chain[start][k],
          forwards  |-> SubSeq(Chain[stop], k, Len(Chain[stop])) ]

(* What `ArchivalState::find_path' returns: the blocks to leave, deepest   *)
(* last, and the blocks to arrive at, deepest first.  Both exclude luca.   *)
find_path(start, stop) ==
    LET k == ForkPoint(start, stop) - 1
        n == Len(Chain[start])
    IN  [ backwards |-> [i \in 1..(n - k) |-> Chain[start][n + 1 - i]],
          luca      |-> Chain[start][k],
          forwards  |-> SubSeq(Chain[stop], k + 1, Len(Chain[stop])) ]
==============================================================================
