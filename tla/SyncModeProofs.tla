--------------------------- MODULE SyncModeProofs ----------------------------
(***************************************************************************)
(* The safety properties of `SyncMode', for every tree of blocks, every    *)
(* set of peers and everything they may send.                              *)
(***************************************************************************)
EXTENDS SyncMode, TLAPS

(* A sequence of blocks that can be stored on top of the blocks in S.      *)
Linked(s, S) ==
    /\ s \in Seq(Blocks)
    /\ s # <<>>
    /\ s[1] # Genesis
    /\ Prev(s[1]) \in S
    /\ Consecutive(s)

(* The predecessors of all blocks but genesis belong to the set.           *)
Closed(S) == \A b \in S \ {Genesis} : Prev(b) \in S

(* What a task has in hand can be stored.                                  *)
HandInv == \A p \in Peers : in_hand[p] # <<>> => Linked(in_hand[p], stored)

(* What waits in the channel can be stored.                                *)
MailInv ==
    \A i \in 1..Len(to_main) :
        to_main[i].type = "NewBlocks" => Linked(to_main[i].blocks, stored)

(* A claim that waits in the channel and whose peer is gone is followed by *)
(* its removal.                                                            *)
ClaimInv ==
    \A i \in 1..Len(to_main) :
        to_main[i].type = "AddPeerMaxBlockHeight" /\ ~connected[to_main[i].peer] =>
            \E j \in 1..Len(to_main) :
                /\ j > i
                /\ to_main[j] = [type |-> "RemovePeerMaxBlockHeight", peer |-> to_main[i].peer]

IInv == TypeOK /\ NoOrphans /\ ClaimsHavePeers /\ HandInv /\ MailInv /\ ClaimInv

-----------------------------------------------------------------------------
(* A linked sequence keeps a closed set closed, and its last block is in   *)
(* the result.                                                             *)
LEMMA StoreLinked ==
    ASSUME NEW S, Closed(S), NEW s, Linked(s, S)
    PROVE  /\ Closed(S \cup {s[i] : i \in 1..Len(s)})
           /\ Last(s) \in S \cup {s[i] : i \in 1..Len(s)}
           /\ Last(s) \in Blocks
           /\ {s[i] : i \in 1..Len(s)} \subseteq Blocks
  <1> DEFINE T == S \cup {s[i] : i \in 1..Len(s)}
  <1>1. Len(s) \in Nat /\ Len(s) > 0 /\ \A i \in 1..Len(s) : s[i] \in Blocks
    BY DEF Linked
  <1>2. ASSUME NEW b \in T \ {Genesis}
        PROVE  Prev(b) \in T
    <2>1. CASE b \in S
      BY <2>1, <1>2 DEF Closed
    <2>2. CASE \E i \in 1..Len(s) : b = s[i]
      <3>1. PICK i \in 1..Len(s) : b = s[i]
        BY <2>2
      <3>2. CASE i = 1
        BY <3>1, <3>2 DEF Linked
      <3>3. CASE i # 1
        <4>1. i \in 2..Len(s) /\ i - 1 \in 1..Len(s)
          BY <1>1, <3>3
        <4>2. Prev(b) = s[i - 1]
          BY <3>1, <4>1 DEF Linked, Consecutive
        <4> QED BY <4>1, <4>2
      <3> QED BY <3>2, <3>3
    <2> QED BY <2>1, <2>2
  <1>3. Len(s) \in 1..Len(s)
    BY <1>1
  <1> QED BY <1>1, <1>2, <1>3 DEF Closed, Last

(* A larger set of stored blocks serves as well.                           *)
LEMMA LinkedGrows ==
    ASSUME NEW S, NEW T, S \subseteq T, NEW s, Linked(s, S)
    PROVE  Linked(s, T)
  BY DEF Linked

(* What remains in the channel after the first message.                    *)
LEMMA TailOfChannel ==
    ASSUME NEW M, NEW s \in Seq(M), s # <<>>
    PROVE  /\ Len(s) \in Nat /\ Len(s) > 0
           /\ Head(s) = s[1] /\ s[1] \in M
           /\ Tail(s) \in Seq(M)
           /\ Len(Tail(s)) = Len(s) - 1
           /\ \A i \in 1..Len(Tail(s)) : i + 1 \in 1..Len(s) /\ Tail(s)[i] = s[i + 1]
           /\ \A i \in 2..Len(s) : i - 1 \in 1..Len(Tail(s)) /\ Tail(s)[i - 1] = s[i]
  <1>1. Len(s) \in Nat /\ Len(s) > 0 /\ Head(s) = s[1] /\ s[1] \in M
    OBVIOUS
  <1>2. Tail(s) \in Seq(M) /\ Len(Tail(s)) = Len(s) - 1
    OBVIOUS
  <1>3. \A i \in 1..Len(Tail(s)) : Tail(s)[i] = s[i + 1]
    OBVIOUS
  <1> QED BY <1>1, <1>2, <1>3

(* What a message added to the channel leaves as it was.                   *)
LEMMA AppendToChannel ==
    ASSUME NEW M, NEW s \in Seq(M), NEW m \in M
    PROVE  /\ Append(s, m) \in Seq(M)
           /\ Len(s) \in Nat
           /\ Len(Append(s, m)) = Len(s) + 1
           /\ \A i \in 1..Len(s) : Append(s, m)[i] = s[i]
           /\ Append(s, m)[Len(s) + 1] = m
  OBVIOUS

(* `try_ensure_path' hands over a linked sequence or nothing.              *)
LEMMA PathIsLinked ==
    ASSUME TypeOK, NEW p \in Peers, NEW b \in Relays[p]
    PROVE  /\ try_ensure_path(p, b).list \in Seq(Blocks)
           /\ try_ensure_path(p, b).blocks \in Seq(Blocks)
           /\ try_ensure_path(p, b).blocks # <<>> => Linked(try_ensure_path(p, b).blocks, stored)
  <1> DEFINE path == Append(fork_reconciliation_blocks[p], b)
  <1>0. b \in Blocks /\ b # Genesis
    BY SyncModeAssumption
  <1>1. path \in Seq(Blocks) /\ Len(path) \in Nat /\ Len(path) > 0 /\ path[Len(path)] = b
    BY <1>0 DEF TypeOK
  <1>2. /\ Reversed(path) \in Seq(Blocks) /\ Len(Reversed(path)) = Len(path)
        /\ Reversed(path)[1] = b
    <2>1. \A i \in 1..Len(path) : Len(path) + 1 - i \in 1..Len(path)
      BY <1>1
    <2>2. Reversed(path) \in [1..Len(path) -> Blocks]
      BY <1>1, <2>1 DEF Reversed
    <2>3. 1 \in 1..Len(path) /\ Len(path) + 1 - 1 = Len(path)
      BY <1>1
    <2>4. Reversed(path)[1] = path[Len(path)]
      BY <2>3 DEF Reversed
    <2>5. Reversed(path) \in Seq(Blocks)
      BY <1>1, <2>2
    <2> HIDE DEF path
    <2>6. Len(Reversed(path)) = Len(path)
      BY <1>1, <2>2, <2>5
    <2> QED BY <1>1, <2>4, <2>5, <2>6
  <1>3. fork_reconciliation_blocks[p] \in Seq(Blocks) /\ <<>> \in Seq(Blocks)
    BY DEF TypeOK
  <1> HIDE DEF path
  <1>4. \/ try_ensure_path(p, b) = [list |-> <<>>, blocks |-> <<>>]
        \/ /\ Prev(b) \in stored
           /\ try_ensure_path(p, b) =
                [ list |-> <<>>,
                  blocks |-> IF BlocksValid(Reversed(path)) THEN Reversed(path) ELSE <<>> ]
        \/ try_ensure_path(p, b) =
              [list |-> IF Prev(b) = Genesis THEN <<>> ELSE path, blocks |-> <<>>]
    BY DEF try_ensure_path, path
  <1>5. CASE try_ensure_path(p, b) = [list |-> <<>>, blocks |-> <<>>]
    BY <1>3, <1>5
  <1>6. CASE /\ Prev(b) \in stored
             /\ try_ensure_path(p, b) =
                  [ list |-> <<>>,
                    blocks |-> IF BlocksValid(Reversed(path)) THEN Reversed(path) ELSE <<>> ]
    <2>1. CASE BlocksValid(Reversed(path))
      <3>1. Reversed(path) # <<>>
        BY <1>1, <1>2
      <3> QED BY <3>1, <2>1, <1>0, <1>2, <1>3, <1>6 DEF Linked, BlocksValid
    <2>2. CASE ~BlocksValid(Reversed(path))
      BY <1>3, <1>6, <2>2
    <2> QED BY <2>1, <2>2
  <1>7. CASE try_ensure_path(p, b) =
                [list |-> IF Prev(b) = Genesis THEN <<>> ELSE path, blocks |-> <<>>]
    BY <1>1, <1>3, <1>7
  <1> QED BY <1>4, <1>5, <1>6, <1>7

(* A decision to stay or to leave keeps the anchor or drops it.            *)
LEMMA KeptOrDropped ==
    ASSUME NEW anchor, NEW own, NEW claimed, NEW a \in Kept(anchor, own, claimed)
    PROVE  a = anchor \/ a = None
  BY DEF Kept

-----------------------------------------------------------------------------
(* The invariant holds at the start.                                       *)
LEMMA InitInvariant == Init => IInv
  <1> SUFFICES ASSUME Init PROVE IInv
    OBVIOUS
  <1>1. Genesis \in Blocks
    BY ChainAssumption
  <1>2. Len(<<>>) = 0 /\ <<>> \in Seq(Messages) /\ <<>> \in Seq(Blocks)
    OBVIOUS
  <1>3. TypeOK
    BY <1>1, <1>2, SyncModeAssumption DEF Init, TypeOK
  <1>4. NoOrphans
    BY DEF Init, NoOrphans
  <1>5. ClaimsHavePeers /\ HandInv /\ MailInv /\ ClaimInv
    BY <1>2 DEF Init, ClaimsHavePeers, HandInv, MailInv, ClaimInv
  <1> QED BY <1>3, <1>4, <1>5 DEF IInv

(* The part of the invariant about messages, when one is added that is not *)
(* a claim of a peer that is gone.                                         *)
LEMMA MessageAdded ==
    ASSUME IInv, NEW m \in Messages,
           to_main' = Append(to_main, m), stored' = stored,
           m.type = "NewBlocks" => Linked(m.blocks, stored),
           m.type = "AddPeerMaxBlockHeight" => connected'[m.peer],
           \A p \in Peers : connected[p] /\ ~connected'[p] =>
                m = [type |-> "RemovePeerMaxBlockHeight", peer |-> p],
           peer_sync_states' = peer_sync_states
    PROVE  MailInv' /\ ClaimInv' /\ ClaimsHavePeers' /\ to_main' \in Seq(Messages)
  <1>1. /\ to_main \in Seq(Messages) /\ to_main' \in Seq(Messages)
        /\ Len(to_main) \in Nat /\ Len(to_main') = Len(to_main) + 1
        /\ \A i \in 1..Len(to_main) : to_main'[i] = to_main[i]
        /\ to_main'[Len(to_main) + 1] = m
    <2>1. to_main \in Seq(Messages)
      BY DEF IInv, TypeOK
    <2> QED BY <2>1, AppendToChannel
  <1>2. MailInv'
    BY <1>1 DEF MailInv, IInv
  <1>3. ASSUME NEW i \in 1..Len(to_main'), to_main'[i].type = "AddPeerMaxBlockHeight",
               ~connected'[to_main'[i].peer]
        PROVE  \E j \in 1..Len(to_main') :
                  /\ j > i
                  /\ to_main'[j] =
                        [type |-> "RemovePeerMaxBlockHeight", peer |-> to_main'[i].peer]
    <2>1. i \in 1..Len(to_main)
      BY <1>1, <1>3
    <2>2. to_main'[i] = to_main[i] /\ to_main[i] \in Messages
      BY <1>1, <2>1
    <2>3. to_main[i].peer \in Peers
      BY <1>3, <2>2 DEF Messages
    <2>4. CASE connected[to_main[i].peer]
      <3>1. Len(to_main) + 1 \in 1..Len(to_main') /\ Len(to_main) + 1 > i
        BY <1>1, <2>1
      <3> QED BY <1>1, <1>3, <2>2, <2>3, <2>4, <3>1
    <2>5. CASE ~connected[to_main[i].peer]
      <3>1. PICK j \in 1..Len(to_main) :
              /\ j > i
              /\ to_main[j] = [type |-> "RemovePeerMaxBlockHeight", peer |-> to_main[i].peer]
        BY <1>3, <2>1, <2>2, <2>5 DEF IInv, ClaimInv
      <3> QED BY <1>1, <2>2, <3>1
    <2> QED BY <2>4, <2>5
  <1>4. ASSUME NEW p \in Peers, peer_sync_states'[p] # None, ~connected'[p]
        PROVE  \E i \in 1..Len(to_main') :
                  to_main'[i] = [type |-> "RemovePeerMaxBlockHeight", peer |-> p]
    <2>1. CASE connected[p]
      <3>1. Len(to_main) + 1 \in 1..Len(to_main')
        BY <1>1
      <3> QED BY <1>1, <1>4, <2>1, <3>1
    <2>2. CASE ~connected[p]
      <3>1. PICK i \in 1..Len(to_main) :
              to_main[i] = [type |-> "RemovePeerMaxBlockHeight", peer |-> p]
        BY <1>4, <2>2 DEF IInv, ClaimsHavePeers
      <3> QED BY <1>1, <3>1
    <2> QED BY <2>1, <2>2
  <1> QED BY <1>1, <1>2, <1>3, <1>4 DEF ClaimInv, ClaimsHavePeers

(* The same when the channel is left alone.                                *)
LEMMA ChannelUnchanged ==
    ASSUME IInv, to_main' = to_main, stored \subseteq stored',
           \A p \in Peers : connected[p] => connected'[p],
           peer_sync_states' = peer_sync_states
    PROVE  MailInv' /\ ClaimInv' /\ ClaimsHavePeers'
  <1>1. to_main \in Seq(Messages)
    BY DEF IInv, TypeOK
  <1>2. MailInv'
    BY LinkedGrows DEF IInv, MailInv
  <1>3. ClaimInv'
    <2>1. \A i \in 1..Len(to_main) :
            to_main[i].type = "AddPeerMaxBlockHeight" => to_main[i].peer \in Peers
      BY <1>1 DEF Messages
    <2> QED BY <2>1 DEF IInv, ClaimInv
  <1>4. ClaimsHavePeers'
    BY DEF IInv, ClaimsHavePeers
  <1> QED BY <1>2, <1>3, <1>4

(* The same when the main loop takes a message and changes claims only as  *)
(* the message says.                                                       *)
LEMMA MessageTaken ==
    ASSUME IInv, to_main # <<>>, to_main' = Tail(to_main), stored \subseteq stored',
           connected' = connected,
           \A p \in Peers :
              \/ /\ peer_sync_states'[p] = peer_sync_states[p]
                 /\ Head(to_main) # [type |-> "RemovePeerMaxBlockHeight", peer |-> p]
              \/ peer_sync_states'[p] = None
              \/ Head(to_main).type = "AddPeerMaxBlockHeight" /\ Head(to_main).peer = p
    PROVE  /\ MailInv' /\ ClaimInv' /\ ClaimsHavePeers'
           /\ to_main' \in Seq(Messages) /\ Len(to_main') <= Capacity
  <1>1. to_main \in Seq(Messages) /\ Len(to_main) <= Capacity /\ Capacity \in Nat
    BY SyncModeAssumption DEF IInv, TypeOK
  <1>2. /\ Len(to_main) \in Nat /\ Len(to_main) > 0
        /\ Head(to_main) = to_main[1]
        /\ to_main' \in Seq(Messages)
        /\ Len(to_main') = Len(to_main) - 1
        /\ \A i \in 1..Len(to_main') : i + 1 \in 1..Len(to_main) /\ to_main'[i] = to_main[i + 1]
        /\ \A i \in 2..Len(to_main) : i - 1 \in 1..Len(to_main') /\ to_main'[i - 1] = to_main[i]
    BY <1>1, TailOfChannel
  <1>3. MailInv'
    <2>1. ASSUME NEW i \in 1..Len(to_main'), to_main'[i].type = "NewBlocks"
          PROVE  Linked(to_main'[i].blocks, stored')
      <3>1. Linked(to_main'[i].blocks, stored)
        BY <1>2, <2>1 DEF IInv, MailInv
      <3> QED BY <3>1, LinkedGrows
    <2> QED BY <2>1 DEF MailInv
  <1>4. ASSUME NEW k \in 1..Len(to_main), to_main[k].type = "AddPeerMaxBlockHeight",
               ~connected[to_main[k].peer]
        PROVE  \E j \in 1..Len(to_main') :
                  /\ j > k - 1
                  /\ to_main'[j] =
                        [type |-> "RemovePeerMaxBlockHeight", peer |-> to_main[k].peer]
    <2>1. PICK j \in 1..Len(to_main) :
            /\ j > k
            /\ to_main[j] = [type |-> "RemovePeerMaxBlockHeight", peer |-> to_main[k].peer]
      BY <1>4 DEF IInv, ClaimInv
    <2>2. j \in 2..Len(to_main) /\ j - 1 > k - 1
      BY <1>2, <2>1
    <2>3. j - 1 \in 1..Len(to_main') /\ to_main'[j - 1] = to_main[j]
      BY <1>2, <2>2
    <2>4. to_main'[j - 1] = [type |-> "RemovePeerMaxBlockHeight", peer |-> to_main[k].peer]
      BY <2>1, <2>3
    <2> WITNESS j - 1 \in 1..Len(to_main')
    <2> QED BY <2>2, <2>4
  <1>5. ClaimInv'
    <2>1. ASSUME NEW i \in 1..Len(to_main'), to_main'[i].type = "AddPeerMaxBlockHeight",
                 ~connected'[to_main'[i].peer]
          PROVE  \E j \in 1..Len(to_main') :
                    /\ j > i
                    /\ to_main'[j] =
                          [type |-> "RemovePeerMaxBlockHeight", peer |-> to_main'[i].peer]
      <3>1. i + 1 \in 1..Len(to_main) /\ to_main'[i] = to_main[i + 1] /\ i + 1 - 1 = i
        BY <1>2
      <3> QED BY <1>4, <2>1, <3>1
    <2> QED BY <2>1 DEF ClaimInv
  <1>6. ASSUME NEW p \in Peers, peer_sync_states'[p] # None, ~connected'[p]
        PROVE  \E i \in 1..Len(to_main') :
                  to_main'[i] = [type |-> "RemovePeerMaxBlockHeight", peer |-> p]
    <2>1. CASE Head(to_main).type = "AddPeerMaxBlockHeight" /\ Head(to_main).peer = p
      <3>1. 1 \in 1..Len(to_main)
        BY <1>2
      <3> QED BY <1>2, <1>4, <1>6, <2>1, <3>1
    <2>2. CASE /\ peer_sync_states'[p] = peer_sync_states[p]
               /\ Head(to_main) # [type |-> "RemovePeerMaxBlockHeight", peer |-> p]
      <3>1. PICK i \in 1..Len(to_main) :
              to_main[i] = [type |-> "RemovePeerMaxBlockHeight", peer |-> p]
        BY <1>6, <2>2 DEF IInv, ClaimsHavePeers
      <3>2. i \in 2..Len(to_main)
        BY <1>2, <2>2, <3>1
      <3>3. i - 1 \in 1..Len(to_main') /\ to_main'[i - 1] = to_main[i]
        BY <1>2, <3>2
      <3> QED BY <3>1, <3>3
    <2> QED BY <1>6, <2>1, <2>2
  <1>7. ClaimsHavePeers'
    BY <1>6 DEF ClaimsHavePeers
  <1> QED BY <1>1, <1>2, <1>3, <1>5, <1>7

-----------------------------------------------------------------------------
(* Every step of a peer task keeps the invariant.                          *)
LEMMA TaskStep ==
    ASSUME IInv, NEW p \in Peers, PeerTask(p)
    PROVE  IInv'
  <1>0. /\ TypeOK /\ NoOrphans /\ HandInv /\ to_main \in Seq(Messages) /\ Len(to_main) \in Nat
        /\ Capacity \in Nat
    BY SyncModeAssumption DEF IInv, TypeOK
  <1>1. CASE Connect(p)
    <2>1. MailInv' /\ ClaimInv' /\ ClaimsHavePeers'
      BY <1>0, <1>1, ChannelUnchanged DEF Connect, mainVars, TypeOK
    <2>2. TypeOK'
      BY <1>0, <1>1 DEF Connect, mainVars, TypeOK
    <2>3. NoOrphans' /\ HandInv'
      BY <1>0, <1>1 DEF Connect, NoOrphans, HandInv
    <2> QED BY <2>1, <2>2, <2>3 DEF IInv
  <1>2. CASE Close(p)
    <2> DEFINE m == [type |-> "RemovePeerMaxBlockHeight", peer |-> p]
    <2>1. /\ m \in Messages /\ m.type # "NewBlocks" /\ m.type # "AddPeerMaxBlockHeight"
          /\ <<>> \in Seq(Blocks)
      BY DEF Messages
    <2>2. /\ to_main' = Append(to_main, m) /\ stored' = stored
          /\ peer_sync_states' = peer_sync_states
          /\ \A r \in Peers : connected[r] /\ ~connected'[r] =>
                m = [type |-> "RemovePeerMaxBlockHeight", peer |-> r]
      BY <1>0, <1>2 DEF Close, mainVars, TypeOK
    <2> HIDE DEF m
    <2>3. MailInv' /\ ClaimInv' /\ ClaimsHavePeers' /\ to_main' \in Seq(Messages)
      BY <2>1, <2>2, MessageAdded
    <2>4. Len(to_main') <= Capacity
      BY <1>0, <1>2, <2>1, <2>2 DEF Close, HasRoom
    <2>5. TypeOK'
      BY <1>0, <1>2, <2>1, <2>3, <2>4 DEF Close, mainVars, TypeOK
    <2>6. NoOrphans'
      BY <1>0, <1>2 DEF Close, NoOrphans
    <2>7. HandInv'
      BY <1>0, <1>2 DEF Close, HandInv, TypeOK
    <2> QED BY <2>3, <2>5, <2>6, <2>7 DEF IInv
  <1>3. CASE BlockNotification(p)
    <2>1. MailInv' /\ ClaimInv' /\ ClaimsHavePeers'
      BY <1>0, <1>3, ChannelUnchanged DEF BlockNotification, mainVars
    <2>2. TypeOK'
      BY <1>0, <1>3, SyncModeAssumption DEF BlockNotification, mainVars, TypeOK
    <2>3. NoOrphans' /\ HandInv'
      BY <1>0, <1>3 DEF BlockNotification, NoOrphans, HandInv
    <2> QED BY <2>1, <2>2, <2>3 DEF IInv
  <1>4. CASE SyncChallengeResponse(p)
    <2>1. CASE UNCHANGED to_main
      <3>1. MailInv' /\ ClaimInv' /\ ClaimsHavePeers'
        BY <1>0, <1>4, <2>1, ChannelUnchanged DEF SyncChallengeResponse, mainVars
      <3>2. TypeOK'
        BY <1>0, <1>4, <2>1 DEF SyncChallengeResponse, mainVars, TypeOK
      <3>3. NoOrphans' /\ HandInv'
        BY <1>0, <1>4 DEF SyncChallengeResponse, NoOrphans, HandInv
      <3> QED BY <3>1, <3>2, <3>3 DEF IInv
    <2>2. CASE /\ HasRoom
               /\ to_main' = Append(to_main, [ type |-> "AddPeerMaxBlockHeight", peer |-> p,
                                               claim |-> sync_challenge[p] ])
      <3> DEFINE m == [ type |-> "AddPeerMaxBlockHeight", peer |-> p, claim |-> sync_challenge[p] ]
      <3>1. m \in Messages /\ m.type # "NewBlocks" /\ m.peer = p
        BY <1>0, <1>4 DEF SyncChallengeResponse, Messages, TypeOK
      <3>2. /\ to_main' = Append(to_main, m) /\ stored' = stored
            /\ peer_sync_states' = peer_sync_states /\ connected' = connected /\ connected[p]
        BY <1>4, <2>2 DEF SyncChallengeResponse, mainVars, Waiting
      <3> HIDE DEF m
      <3>3. MailInv' /\ ClaimInv' /\ ClaimsHavePeers' /\ to_main' \in Seq(Messages)
        BY <3>1, <3>2, MessageAdded
      <3>4. Len(to_main') <= Capacity
        BY <1>0, <2>2, <3>1, <3>2 DEF HasRoom
      <3>5. TypeOK'
        BY <1>0, <1>4, <3>3, <3>4 DEF SyncChallengeResponse, mainVars, TypeOK
      <3>6. NoOrphans' /\ HandInv'
        BY <1>0, <1>4 DEF SyncChallengeResponse, NoOrphans, HandInv
      <3> QED BY <3>3, <3>5, <3>6 DEF IInv
    <2> QED BY <1>4, <2>1, <2>2 DEF SyncChallengeResponse
  <1>5. CASE ReceiveBlock(p)
    <2>1. MailInv' /\ ClaimInv' /\ ClaimsHavePeers'
      BY <1>0, <1>5, ChannelUnchanged DEF ReceiveBlock, mainVars
    <2>2. PICK b \in Relays[p] :
            /\ fork_reconciliation_blocks' =
                  [fork_reconciliation_blocks EXCEPT ![p] = try_ensure_path(p, b).list]
            /\ in_hand' = [in_hand EXCEPT ![p] = try_ensure_path(p, b).blocks]
      BY <1>5 DEF ReceiveBlock
    <2>3. /\ try_ensure_path(p, b).list \in Seq(Blocks)
          /\ try_ensure_path(p, b).blocks \in Seq(Blocks)
          /\ try_ensure_path(p, b).blocks # <<>> => Linked(try_ensure_path(p, b).blocks, stored)
      BY <1>0, PathIsLinked
    <2>4. TypeOK'
      BY <1>0, <1>5, <2>2, <2>3 DEF ReceiveBlock, mainVars, TypeOK
    <2>5. HandInv'
      BY <1>0, <1>5, <2>2, <2>3 DEF ReceiveBlock, HandInv, TypeOK
    <2>6. NoOrphans'
      BY <1>0, <1>5 DEF ReceiveBlock, NoOrphans
    <2> QED BY <2>1, <2>4, <2>5, <2>6 DEF IInv
  <1>6. CASE ReceiveBatch(p)
    <2>1. MailInv' /\ ClaimInv' /\ ClaimsHavePeers'
      BY <1>0, <1>6, ChannelUnchanged DEF ReceiveBatch, mainVars
    <2>2. PICK bs \in Batches[p] :
            BatchIsAccepted(bs) /\ in_hand' = [in_hand EXCEPT ![p] = bs]
      BY <1>6 DEF ReceiveBatch
    <2>3. bs \in Seq(Blocks \ {Genesis}) /\ bs \in Seq(Blocks)
      BY SyncModeAssumption
    <2>4. Linked(bs, stored)
      <3>1. Len(bs) >= MinBatch /\ MinBatch \in Nat \ {0}
        BY <2>2, SyncModeAssumption DEF BatchIsAccepted
      <3>2. bs # <<>> /\ bs[1] # Genesis
        BY <2>3, <3>1
      <3> QED BY <2>2, <2>3, <3>2 DEF BatchIsAccepted, BlocksValid, Linked
    <2>5. TypeOK'
      BY <1>0, <1>6, <2>2, <2>3 DEF ReceiveBatch, mainVars, TypeOK
    <2>6. HandInv'
      BY <1>0, <1>6, <2>2, <2>4 DEF ReceiveBatch, HandInv, TypeOK
    <2>7. NoOrphans'
      BY <1>0, <1>6 DEF ReceiveBatch, NoOrphans
    <2> QED BY <2>1, <2>5, <2>6, <2>7 DEF IInv
  <1>7. CASE PassOn(p)
    <2>0. /\ in_hand[p] # <<>> /\ in_hand' = [in_hand EXCEPT ![p] = <<>>]
          /\ stored' = stored /\ peer_sync_states' = peer_sync_states /\ connected' = connected
      BY <1>7 DEF PassOn, mainVars
    <2>1. HandInv' /\ NoOrphans'
      BY <1>0, <1>7 DEF PassOn, HandInv, NoOrphans, TypeOK
    <2>2. CASE UNCHANGED to_main
      <3>1. MailInv' /\ ClaimInv' /\ ClaimsHavePeers'
        BY <1>0, <2>0, <2>2, ChannelUnchanged
      <3>2. TypeOK'
        BY <1>0, <1>7, <2>2 DEF PassOn, mainVars, TypeOK
      <3> QED BY <2>1, <3>1, <3>2 DEF IInv
    <2>3. CASE /\ HasRoom
               /\ to_main' = Append(to_main, [type |-> "NewBlocks", blocks |-> in_hand[p]])
      <3> DEFINE m == [type |-> "NewBlocks", blocks |-> in_hand[p]]
      <3>1. m \in Messages /\ m.type # "AddPeerMaxBlockHeight" /\ Linked(m.blocks, stored)
        BY <1>0, <2>0 DEF Messages, TypeOK, HandInv
      <3>2. to_main' = Append(to_main, m)
        BY <2>3
      <3> HIDE DEF m
      <3>3. MailInv' /\ ClaimInv' /\ ClaimsHavePeers' /\ to_main' \in Seq(Messages)
        BY <2>0, <3>1, <3>2, MessageAdded
      <3>4. Len(to_main') <= Capacity
        BY <1>0, <2>3, <3>1, <3>2 DEF HasRoom
      <3>5. TypeOK'
        BY <1>0, <1>7, <3>3, <3>4 DEF PassOn, mainVars, TypeOK
      <3> QED BY <2>1, <3>3, <3>5 DEF IInv
    <2> QED BY <1>7, <2>2, <2>3 DEF PassOn
  <1> QED BY <1>1, <1>2, <1>3, <1>4, <1>5, <1>6, <1>7 DEF PeerTask

(* What a message does to the chain and to the anchor.                     *)
LEMMA NewBlocksEffect ==
    ASSUME IInv, NEW blocks, Linked(blocks, stored), NewBlocks(blocks)
    PROVE  /\ stored \subseteq stored'
           /\ NoOrphans'
           /\ tip' \in Blocks /\ stored' \subseteq Blocks
           /\ sync_anchor' \in SyncAnchors \cup {None}
           /\ tip' # tip => MoreCanonical(tip, tip')
  <1> DEFINE T == stored \cup {blocks[i] : i \in 1..Len(blocks)}
             last == Last(blocks)
  <1>0. /\ Closed(stored) /\ tip \in stored /\ tip \in Blocks /\ stored \subseteq Blocks
        /\ sync_anchor \in SyncAnchors \cup {None} /\ None \notin Blocks
        /\ sync_anchor # None /\ sync_anchor.champion # None => sync_anchor.champion \in stored
    BY SyncModeAssumption DEF IInv, TypeOK, NoOrphans, Closed
  <1>1. Closed(T) /\ last \in T /\ last \in Blocks /\ T \subseteq Blocks
    BY <1>0, StoreLinked
  <1> HIDE DEF T, last
  <1>2. CASE MoreCanonical(tip, last)
    <2>1. /\ tip' = last /\ stored' = T
          /\ \/ sync_anchor' = Progressed
             \/ sync_anchor' = None
      BY <1>2, KeptOrDropped DEF NewBlocks, T, last
    <2>2. \/ sync_anchor' = None
          \/ /\ sync_anchor' \in SyncAnchors
             /\ sync_anchor # None /\ sync_anchor'.champion = sync_anchor.champion
      BY <1>0, <2>1 DEF Progressed, SyncAnchors
    <2>3. sync_anchor' # None /\ sync_anchor'.champion # None => sync_anchor'.champion \in stored'
      BY <1>0, <2>1, <2>2 DEF T
    <2> QED BY <1>0, <1>1, <1>2, <2>1, <2>2, <2>3 DEF NoOrphans, Closed, T
  <1>3. CASE ~MoreCanonical(tip, last)
    <2>1. /\ tip' = tip
          /\ \/ StoreNotTip(blocks)
             \/ UNCHANGED <<stored, sync_anchor>>
      BY <1>3 DEF NewBlocks, last
    <2>2. CASE UNCHANGED <<stored, sync_anchor>>
      BY <1>0, <2>1, <2>2 DEF NoOrphans, Closed
    <2>3. CASE StoreNotTip(blocks)
      <3>1. /\ sync_anchor # None
            /\ sync_anchor' = [sync_anchor EXCEPT !.champion = last, !.expired = FALSE,
                                                  !.idle = FALSE]
            /\ stored' = T
        BY <2>3 DEF StoreNotTip, BeatsChampion, catch_up, T, last
      <3>2. sync_anchor' \in SyncAnchors /\ sync_anchor'.champion = last
        BY <1>0, <1>1, <3>1 DEF SyncAnchors
      <3> QED BY <1>0, <1>1, <2>1, <3>1, <3>2 DEF NoOrphans, Closed, T
    <2> QED BY <2>1, <2>2, <2>3
  <1> QED BY <1>2, <1>3

(* Every step of the main loop keeps the invariant.                        *)
LEMMA MainStep ==
    ASSUME IInv, MainReceives
    PROVE  IInv' /\ (tip' # tip => MoreCanonical(tip, tip'))
  <1>0. /\ TypeOK /\ NoOrphans /\ HandInv /\ to_main \in Seq(Messages) /\ to_main # <<>>
        /\ Head(to_main) = to_main[1] /\ to_main[1] \in Messages /\ 1 \in 1..Len(to_main)
    <2>1. to_main \in Seq(Messages) /\ to_main # <<>>
      BY DEF IInv, TypeOK, MainReceives, MainNewBlocks, MainAddsClaim, MainRemovesClaim
    <2>2. /\ Len(to_main) \in Nat /\ Len(to_main) > 0
          /\ Head(to_main) = to_main[1] /\ to_main[1] \in Messages
      BY <2>1, TailOfChannel
    <2> QED BY <2>1, <2>2 DEF IInv
  <1>1. CASE MainNewBlocks
    <2>1. Linked(Head(to_main).blocks, stored)
      BY <1>0, <1>1 DEF MainNewBlocks, IInv, MailInv
    <2>2. /\ stored \subseteq stored' /\ NoOrphans'
          /\ tip' \in Blocks /\ stored' \subseteq Blocks
          /\ sync_anchor' \in SyncAnchors \cup {None}
          /\ tip' # tip => MoreCanonical(tip, tip')
      BY <1>1, <2>1, NewBlocksEffect DEF MainNewBlocks
    <2>3. /\ to_main' = Tail(to_main) /\ connected' = connected
          /\ peer_sync_states' = peer_sync_states /\ in_hand' = in_hand
          /\ \A r \in Peers : Head(to_main) # [type |-> "RemovePeerMaxBlockHeight", peer |-> r]
      BY <1>1 DEF MainNewBlocks, mainVars, taskVars
    <2>4. /\ MailInv' /\ ClaimInv' /\ ClaimsHavePeers'
          /\ to_main' \in Seq(Messages) /\ Len(to_main') <= Capacity
      BY <1>0, <2>2, <2>3, MessageTaken
    <2>5. TypeOK'
      BY <1>0, <1>1, <2>2, <2>4 DEF MainNewBlocks, mainVars, taskVars, TypeOK
    <2>6. HandInv'
      BY <1>0, <2>2, <2>3, LinkedGrows DEF HandInv
    <2> QED BY <2>2, <2>4, <2>5, <2>6 DEF IInv
  <1>2. CASE MainAddsClaim
    <2>1. Head(to_main).peer \in Peers /\ Head(to_main).claim \in Blocks
      BY <1>0, <1>2 DEF MainAddsClaim, Messages
    <2>2. /\ to_main' = Tail(to_main) /\ connected' = connected /\ stored' = stored
          /\ in_hand' = in_hand /\ tip' = tip
          /\ peer_sync_states' = [peer_sync_states EXCEPT ![Head(to_main).peer] = Head(to_main).claim]
          /\ \/ sync_anchor' = sync_anchor
             \/ sync_anchor' = [ cumulative_proof_of_work |-> Work[Head(to_main).claim],
                                 block_mmr |-> Head(to_main).claim, champion |-> None,
                                 expired |-> FALSE, idle |-> FALSE ]
          /\ Head(to_main).type = "AddPeerMaxBlockHeight"
      BY <1>2 DEF MainAddsClaim, mainVars, taskVars
    <2>3. \A r \in Peers :
            \/ /\ peer_sync_states'[r] = peer_sync_states[r]
               /\ Head(to_main) # [type |-> "RemovePeerMaxBlockHeight", peer |-> r]
            \/ Head(to_main).type = "AddPeerMaxBlockHeight" /\ Head(to_main).peer = r
      BY <1>0, <2>2 DEF TypeOK
    <2>4. /\ MailInv' /\ ClaimInv' /\ ClaimsHavePeers'
          /\ to_main' \in Seq(Messages) /\ Len(to_main') <= Capacity
      BY <1>0, <2>2, <2>3, MessageTaken
    <2>5. sync_anchor' \in SyncAnchors \cup {None}
      <3>1. Work[Head(to_main).claim] \in Nat
        BY <2>1, ForkChoiceAssumption
      <3>2. [ cumulative_proof_of_work |-> Work[Head(to_main).claim],
              block_mmr |-> Head(to_main).claim, champion |-> None,
              expired |-> FALSE, idle |-> FALSE ] \in SyncAnchors
        BY <2>1, <3>1 DEF SyncAnchors
      <3>3. sync_anchor \in SyncAnchors \cup {None}
        BY <1>0 DEF TypeOK
      <3> QED BY <2>2, <3>2, <3>3
    <2>6. TypeOK'
      BY <1>0, <1>2, <2>1, <2>2, <2>4, <2>5 DEF MainAddsClaim, taskVars, TypeOK
    <2>7. NoOrphans' /\ HandInv'
      BY <1>0, <2>2 DEF NoOrphans, HandInv
    <2> QED BY <2>2, <2>4, <2>6, <2>7 DEF IInv
  <1>3. CASE MainRemovesClaim
    <2>1. Head(to_main).peer \in Peers
      BY <1>0, <1>3 DEF MainRemovesClaim, Messages
    <2>2. /\ to_main' = Tail(to_main) /\ connected' = connected /\ stored' = stored
          /\ in_hand' = in_hand /\ tip' = tip
          /\ peer_sync_states' = [peer_sync_states EXCEPT ![Head(to_main).peer] = None]
          /\ sync_anchor' = sync_anchor \/ sync_anchor' = None
      BY <1>3, KeptOrDropped DEF MainRemovesClaim, taskVars
    <2>3. \A r \in Peers :
            \/ /\ peer_sync_states'[r] = peer_sync_states[r]
               /\ Head(to_main) # [type |-> "RemovePeerMaxBlockHeight", peer |-> r]
            \/ peer_sync_states'[r] = None
      BY <1>0, <2>2 DEF TypeOK
    <2>4. /\ MailInv' /\ ClaimInv' /\ ClaimsHavePeers'
          /\ to_main' \in Seq(Messages) /\ Len(to_main') <= Capacity
      BY <1>0, <2>2, <2>3, MessageTaken
    <2>5. TypeOK'
      BY <1>0, <1>3, <2>1, <2>2, <2>4 DEF MainRemovesClaim, taskVars, TypeOK
    <2>6. NoOrphans' /\ HandInv'
      BY <1>0, <2>2 DEF NoOrphans, HandInv
    <2> QED BY <2>2, <2>4, <2>5, <2>6 DEF IInv
  <1> QED BY <1>1, <1>2, <1>3 DEF MainReceives

(* Blocks found by this node, the timer and the passing of time.           *)
LEMMA OtherStep ==
    ASSUME IInv, SelfGuessedBlock \/ BlockSync \/ RequestExpires \/ AnchorExpires
    PROVE  IInv' /\ (tip' # tip => MoreCanonical(tip, tip'))
  <1>0. /\ TypeOK /\ NoOrphans /\ HandInv /\ None \notin Blocks
        /\ sync_anchor \in SyncAnchors \cup {None}
    BY SyncModeAssumption DEF IInv, TypeOK
  <1>1. CASE SelfGuessedBlock
    <2>1. PICK b \in Mined :
            /\ Prev(b) \in stored /\ MoreCanonical(tip, b) /\ tip' = b /\ stored' = stored \cup {b}
      BY <1>1 DEF SelfGuessedBlock
    <2>2. b \in Blocks
      BY SyncModeAssumption
    <2>3. /\ to_main' = to_main /\ peer_sync_states' = peer_sync_states /\ connected' = connected
          /\ in_hand' = in_hand /\ sync_anchor' = Progressed
      BY <1>1 DEF SelfGuessedBlock, mainVars, taskVars
    <2>4. \/ sync_anchor' = None
          \/ /\ sync_anchor' \in SyncAnchors /\ sync_anchor # None
             /\ sync_anchor'.champion = sync_anchor.champion
      BY <1>0, <2>3 DEF Progressed, SyncAnchors
    <2>5. MailInv' /\ ClaimInv' /\ ClaimsHavePeers'
      BY <2>1, <2>3, ChannelUnchanged
    <2>6. TypeOK'
      BY <1>0, <1>1, <2>1, <2>2, <2>4 DEF SelfGuessedBlock, mainVars, taskVars, TypeOK
    <2>7. NoOrphans'
      BY <1>0, <2>1, <2>4 DEF NoOrphans
    <2>8. HandInv'
      BY <1>0, <2>1, <2>3, LinkedGrows DEF HandInv
    <2> QED BY <2>1, <2>5, <2>6, <2>7, <2>8 DEF IInv
  <1>2. CASE BlockSync
    <2>1. /\ to_main' = to_main /\ peer_sync_states' = peer_sync_states /\ connected' = connected
          /\ in_hand' = in_hand /\ tip' = tip /\ stored' = stored
          /\ sync_anchor' = sync_anchor \/ sync_anchor' = None
      BY <1>2 DEF BlockSync, Abandon, RequestBatch, taskVars
    <2>2. up' \in BOOLEAN
      BY <1>0, <1>2, Zenon DEF BlockSync, Abandon, RequestBatch, TypeOK
    <2>3. last_sync_request' \in Requests \cup {None}
      <3>1. Height(tip) + 1 \in Nat
        BY <1>0, ChainAssumption DEF TypeOK, Height
      <3>2. \/ last_sync_request' = last_sync_request
            \/ last_sync_request' = [height |-> Height(tip) + 1, expired |-> FALSE]
        BY <1>2 DEF BlockSync, Abandon, RequestBatch
      <3>3. [height |-> Height(tip) + 1, expired |-> FALSE] \in Requests
        BY <3>1 DEF Requests
      <3>4. last_sync_request \in Requests \cup {None}
        BY <1>0 DEF TypeOK
      <3> QED BY <3>2, <3>3, <3>4
    <2>4. MailInv' /\ ClaimInv' /\ ClaimsHavePeers'
      BY <2>1, ChannelUnchanged
    <2>5. TypeOK'
      BY <1>0, <1>2, <2>1, <2>2, <2>3 DEF BlockSync, taskVars, TypeOK
    <2>6. NoOrphans' /\ HandInv'
      BY <1>0, <2>1 DEF NoOrphans, HandInv
    <2> QED BY <2>1, <2>4, <2>5, <2>6 DEF IInv
  <1>3. CASE RequestExpires
    <2>1. MailInv' /\ ClaimInv' /\ ClaimsHavePeers'
      BY <1>3, ChannelUnchanged DEF RequestExpires, taskVars
    <2>2. TypeOK'
      BY <1>0, <1>3 DEF RequestExpires, taskVars, TypeOK, Requests
    <2>3. NoOrphans' /\ HandInv' /\ tip' = tip
      BY <1>0, <1>3 DEF RequestExpires, taskVars, NoOrphans, HandInv
    <2> QED BY <2>1, <2>2, <2>3 DEF IInv
  <1>4. CASE AnchorExpires
    <2>1. MailInv' /\ ClaimInv' /\ ClaimsHavePeers'
      BY <1>4, ChannelUnchanged DEF AnchorExpires, mainVars, taskVars
    <2>2. sync_anchor' \in SyncAnchors /\ sync_anchor'.champion = sync_anchor.champion
      BY <1>0, <1>4 DEF AnchorExpires, SyncAnchors
    <2>3. TypeOK'
      BY <1>0, <1>4, <2>2 DEF AnchorExpires, mainVars, taskVars, TypeOK
    <2>4. NoOrphans' /\ HandInv' /\ tip' = tip
      BY <1>0, <1>4, <2>2 DEF AnchorExpires, taskVars, NoOrphans, HandInv
    <2> QED BY <2>1, <2>3, <2>4 DEF IInv
  <1> QED BY <1>1, <1>2, <1>3, <1>4

-----------------------------------------------------------------------------
(* Every step keeps the invariant and replaces the tip only by a block     *)
(* that wins against it.                                                   *)
LEMMA StepInvariant ==
    IInv /\ [Next]_vars => IInv' /\ (tip' # tip => MoreCanonical(tip, tip'))
  <1> SUFFICES ASSUME IInv, [Next]_vars
               PROVE  IInv' /\ (tip' # tip => MoreCanonical(tip, tip'))
    OBVIOUS
  <1>1. CASE \E p \in Peers : PeerTask(p)
    <2>1. IInv'
      BY <1>1, TaskStep
    <2>2. tip' = tip
      BY <1>1 DEF PeerTask, Connect, Close, BlockNotification, SyncChallengeResponse,
                  ReceiveBlock, ReceiveBatch, PassOn
    <2> QED BY <2>1, <2>2
  <1>2. CASE MainReceives
    BY <1>2, MainStep
  <1>3. CASE SelfGuessedBlock \/ BlockSync \/ RequestExpires \/ AnchorExpires
    BY <1>3, OtherStep
  <1>4. CASE UNCHANGED vars
    BY <1>4 DEF vars, mainVars, taskVars, IInv, TypeOK, NoOrphans, ClaimsHavePeers, HandInv,
                MailInv, ClaimInv
  <1> QED BY <1>1, <1>2, <1>3, <1>4 DEF Next

(* The invariant holds throughout.                                         *)
LEMMA SyncModeInvariant == Spec => []IInv
  BY InitInvariant, StepInvariant, PTL DEF Spec

(* The variables keep their types.                                         *)
THEOREM SyncModeTypes == Spec => []TypeOK
  <1>1. IInv => TypeOK
    BY DEF IInv
  <1> QED BY <1>1, SyncModeInvariant, PTL

(* The block index never lacks the predecessor of one of its blocks, in    *)
(* whatever order single blocks, batches and own blocks are handled.       *)
THEOREM SyncModeNoOrphans == Spec => []NoOrphans
  <1>1. IInv => NoOrphans
    BY DEF IInv
  <1> QED BY <1>1, SyncModeInvariant, PTL

(* A claim whose peer is gone has its removal in the channel to the main   *)
(* loop.                                                                   *)
THEOREM SyncModeClaimsHavePeers == Spec => []ClaimsHavePeers
  <1>1. IInv => ClaimsHavePeers
    BY DEF IInv
  <1> QED BY <1>1, SyncModeInvariant, PTL

(* The main loop never replaces its tip by a block that loses against it,  *)
(* however old the decision of the peer task is.                           *)
THEOREM SyncModeTipNeverWorse == Spec => TipNeverWorse
  <1>1. IInv /\ [Next]_vars => [tip' # tip => MoreCanonical(tip, tip')]_vars
    BY StepInvariant
  <1> QED BY <1>1, SyncModeInvariant, PTL DEF Spec, TipNeverWorse
==============================================================================
