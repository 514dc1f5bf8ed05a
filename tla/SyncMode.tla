------------------------------ MODULE SyncMode -------------------------------
(***************************************************************************)
(* How a node catches up with its peers: one task per connection           *)
(* (`peer_loop') that receives notifications, blocks, batches of blocks    *)
(* and answers to sync challenges; the channel from these tasks to the     *)
(* main loop; and the main loop, which keeps the peers' claims, the anchor *)
(* of the synchronization and the last request.                            *)
(*                                                                         *)
(* A remote node is what it sends: any block at any time, so that late,    *)
(* repeated and unexpected answers are included.  The node's own requests  *)
(* change nothing here and are left out, as is the height last shared with *)
(* a peer, which only decides about requests.  Time is whether a time-out  *)
(* has elapsed; the ten minutes between two challenges are left open.      *)
(***************************************************************************)
EXTENDS ForkChoice, FiniteSets

CONSTANTS
    Valid,          \* the blocks that are valid successors, with proof-of-work
    Peers,          \* addresses of remote nodes
    Claims,         \* for each peer, the tips it may announce
    Relays,         \* for each peer, the blocks it may send one by one
    Batches,        \* for each peer, the sequences of blocks it may send
    Mined,          \* the blocks that this node may find
    None,           \* no block, no anchor, no request
    Threshold,      \* sync_mode_threshold
    MinBatch,       \* MINIMUM_BLOCK_BATCH_SIZE
    Capacity        \* PEER_CHANNEL_CAPACITY

ASSUME SyncModeAssumption ==
    /\ Valid \subseteq Blocks
    /\ None \notin Blocks
    /\ Claims \in [Peers -> SUBSET Blocks]
    /\ Relays \in [Peers -> SUBSET (Blocks \ {Genesis})]
    /\ \A p \in Peers : Batches[p] \subseteq Seq(Blocks \ {Genesis})
    /\ Mined \subseteq Valid \ {Genesis}
    /\ Threshold \in Nat
    /\ MinBatch \in Nat \ {0}
    /\ Capacity \in Nat \ {0}

VARIABLES
    \* global state
    tip,
    stored,             \* the blocks of the block index
    sync_anchor,
    \* the main loop
    up,                 \* it has not panicked
    peer_sync_states,   \* for each peer, the tip it claims to have
    last_sync_request,
    to_main,            \* the channel from the peer tasks
    \* the peer tasks
    connected,
    fork_reconciliation_blocks,
    sync_challenge,     \* the tip a challenge is about
    in_hand             \* blocks that handle_blocks has validated

mainVars == <<up, peer_sync_states, last_sync_request>>
taskVars == <<connected, fork_reconciliation_blocks, sync_challenge, in_hand>>
vars == <<tip, stored, sync_anchor, mainVars, to_main, taskVars>>

(* `SyncAnchor'.  The MMR accumulator stands for the tip whose chain it    *)
(* commits to; `updated' is whether the global time-out has elapsed since. *)
(* idle is history: no block was stored for as long as that.               *)
SyncAnchors == [ cumulative_proof_of_work : Nat, block_mmr : Blocks,
                 champion : Blocks \cup {None}, expired : BOOLEAN, idle : BOOLEAN ]

Requests == [height : Nat, expired : BOOLEAN]

Messages ==
    [type : {"NewBlocks"}, blocks : Seq(Blocks)]
        \cup [type : {"AddPeerMaxBlockHeight"}, peer : Peers, claim : Blocks]
        \cup [type : {"RemovePeerMaxBlockHeight"}, peer : Peers]

Init ==
    /\ tip = Genesis
    /\ stored = {Genesis}
    /\ sync_anchor = None
    /\ up = TRUE
    /\ peer_sync_states = [p \in Peers |-> None]
    /\ last_sync_request = None
    /\ to_main = <<>>
    /\ connected = [p \in Peers |-> FALSE]
    /\ fork_reconciliation_blocks = [p \in Peers |-> <<>>]
    /\ sync_challenge = [p \in Peers |-> None]
    /\ in_hand = [p \in Peers |-> <<>>]

-----------------------------------------------------------------------------
(* Peer tasks                                                              *)

(* `GlobalState::sync_mode_threshold_stateless'.                           *)
sync_mode_criterion(own, claim) ==
    /\ Work[own] < Work[claim]
    /\ Height(claim) - Height(own) > Threshold

(* The task of p waits for its next message.                               *)
Waiting(p) == connected[p] /\ in_hand[p] = <<>>

Last(s) == s[Len(s)]

Reversed(s) == [i \in 1..Len(s) |-> s[Len(s) + 1 - i]]

(* Each block is the predecessor of the next.                              *)
Consecutive(s) == \A i \in 2..Len(s) : s[i] # Genesis /\ Prev(s[i]) = s[i - 1]

(* The first half of `handle_blocks': every block is valid, and valid      *)
(* with regard to the block before it.                                     *)
BlocksValid(s) == Consecutive(s) /\ \A i \in 1..Len(s) : s[i] \in Valid

(* `send' on the bounded channel waits until there is room.                *)
HasRoom == Len(to_main) < Capacity

(* A connection is entered into the peer map.                              *)
Connect(p) ==
    /\ ~connected[p]
    /\ connected' = [connected EXCEPT ![p] = TRUE]
    /\ UNCHANGED <<tip, stored, sync_anchor, mainVars, to_main, fork_reconciliation_blocks,
                   sync_challenge, in_hand>>

(* The task ends, by either side's wish, by an error, by a ban or by a     *)
(* panic at any point: `close_peer_connected_callback'.  Everything the    *)
(* task knew of the peer is gone.                                          *)
Close(p) ==
    /\ connected[p]
    /\ HasRoom
    /\ connected' = [connected EXCEPT ![p] = FALSE]
    /\ fork_reconciliation_blocks' = [fork_reconciliation_blocks EXCEPT ![p] = <<>>]
    /\ sync_challenge' = [sync_challenge EXCEPT ![p] = None]
    /\ in_hand' = [in_hand EXCEPT ![p] = <<>>]
    /\ to_main' = Append(to_main, [type |-> "RemovePeerMaxBlockHeight", peer |-> p])
    /\ UNCHANGED <<tip, stored, sync_anchor, mainVars>>

(* `PeerMessage::BlockNotification' that satisfies the criterion.  Any     *)
(* other leads to a request or to nothing.                                 *)
BlockNotification(p) ==
    /\ Waiting(p)
    /\ sync_challenge[p] = None
    /\ \E b \in Claims[p] :
          /\ sync_mode_criterion(tip, b)
          /\ sync_challenge' = [sync_challenge EXCEPT ![p] = b]
    /\ UNCHANGED <<tip, stored, sync_anchor, mainVars, to_main, connected,
                   fork_reconciliation_blocks, in_hand>>

(* `PeerMessage::SyncChallengeResponse'.  The answer may be refused for    *)
(* any of the six reasons, lateness included.                              *)
SyncChallengeResponse(p) ==
    /\ Waiting(p)
    /\ sync_challenge[p] # None
    /\ sync_challenge' = [sync_challenge EXCEPT ![p] = None]
    /\ \/ UNCHANGED to_main
       \/ /\ HasRoom
          /\ to_main' = Append(to_main, [ type |-> "AddPeerMaxBlockHeight", peer |-> p,
                                          claim |-> sync_challenge[p] ])
    /\ UNCHANGED <<tip, stored, sync_anchor, mainVars, connected, fork_reconciliation_blocks,
                   in_hand>>

(* `try_ensure_path': the new list of blocks whose path to a known block   *)
(* is searched for, and the blocks for `handle_blocks'.  Genesis is always *)
(* known, so `DifferentGenesis' never arises among the blocks of one tree. *)
try_ensure_path(p, b) ==
    LET list == fork_reconciliation_blocks[p]
        matches == list # <<>> => Last(list) \in Valid /\ Prev(Last(list)) = b
        too_many == Len(list) + 1 >= Threshold
        path == Append(list, b)
    IN  IF ~matches \/ too_many
        THEN [list |-> <<>>, blocks |-> <<>>]
        ELSE IF Prev(b) \in stored
             THEN [ list |-> <<>>,
                    blocks |-> IF BlocksValid(Reversed(path)) THEN Reversed(path) ELSE <<>> ]
             ELSE [list |-> IF Prev(b) = Genesis THEN <<>> ELSE path, blocks |-> <<>>]

(* `PeerMessage::Block', which is ignored during synchronization.          *)
ReceiveBlock(p) ==
    /\ Waiting(p)
    /\ sync_anchor = None
    /\ \E b \in Relays[p] :
          LET r == try_ensure_path(p, b)
          IN  /\ fork_reconciliation_blocks' = [fork_reconciliation_blocks EXCEPT ![p] = r.list]
              /\ in_hand' = [in_hand EXCEPT ![p] = r.blocks]
    /\ UNCHANGED <<tip, stored, sync_anchor, mainVars, to_main, connected, sync_challenge>>

(* `membership_proof.verify': b is an ancestor of the anchor's tip.        *)
Authentic(b, anchor) ==
    LET target == anchor.block_mmr
    IN  Height(b) <= Height(target) /\ Chain[target][Height(b) + 1] = b

(* Mutant: the predecessor of the first block is not looked up.            *)
BatchIsWanted(bs) ==
    /\ Len(bs) >= MinBatch
    /\ sync_anchor # None
    /\ \A i \in 1..Len(bs) : Authentic(bs[i], sync_anchor)
    /\ BlocksValid(bs)

BatchIsAccepted(bs) ==
    /\ Len(bs) >= MinBatch
    /\ sync_anchor # None
    /\ Prev(bs[1]) \in stored
    /\ \A i \in 1..Len(bs) : Authentic(bs[i], sync_anchor)
    /\ BlocksValid(bs)

(* `PeerMessage::BlockResponseBatch' that is not refused.                  *)
ReceiveBatch(p) ==
    /\ Waiting(p)
    /\ \E bs \in Batches[p] :
          /\ BatchIsAccepted(bs)
          /\ in_hand' = [in_hand EXCEPT ![p] = bs]
    /\ UNCHANGED <<tip, stored, sync_anchor, mainVars, to_main, connected,
                   fork_reconciliation_blocks, sync_challenge>>

(* b is higher than what has been synchronized so far under the anchor.    *)
BeatsChampion(b) ==
    /\ sync_anchor # None
    /\ sync_anchor.champion # None => Height(sync_anchor.champion) < Height(b)

(* The second half of `handle_blocks'.  The fork choice and the champion   *)
(* are read under two locks; since the tip only improves, the outcomes are *)
(* those of one read and a message that waits in the channel.              *)
PassOn(p) ==
    /\ in_hand[p] # <<>>
    /\ in_hand' = [in_hand EXCEPT ![p] = <<>>]
    /\ LET last == Last(in_hand[p])
       IN  IF MoreCanonical(tip, last) \/ BeatsChampion(last)
           THEN /\ HasRoom
                /\ to_main' = Append(to_main, [type |-> "NewBlocks", blocks |-> in_hand[p]])
           ELSE UNCHANGED to_main
    /\ UNCHANGED <<tip, stored, sync_anchor, mainVars, connected, fork_reconciliation_blocks,
                   sync_challenge>>

-----------------------------------------------------------------------------
(* The main loop                                                           *)

Claimed == {peer_sync_states[p] : p \in Peers} \ {None}

(* `stay_in_sync_mode', as the set of its possible results: among claims   *)
(* of equal work the order of the hash map decides.                        *)
stay_in_sync_mode(own, claimed) ==
    LET best == {c \in claimed : \A d \in claimed : Work[c] >= Work[d]}
        Stay(c) == Work[own] < Work[c] /\ Height(c) - Height(own) > Threshold \div 2
    IN  IF best = {} THEN {FALSE} ELSE {Stay(c) : c \in best}

(* The anchor after a decision to stay or to leave.                        *)
Kept(anchor, own, claimed) ==
    IF anchor = None THEN {None}
    ELSE {IF stay THEN anchor ELSE None : stay \in stay_in_sync_mode(own, claimed)}

(* The anchor when a new tip is set.                                       *)
Progressed == IF sync_anchor = None THEN None ELSE [sync_anchor EXCEPT !.idle = FALSE]

(* `SyncAnchor::catch_up'.                                                 *)
catch_up(anchor, b) == [anchor EXCEPT !.champion = b, !.expired = FALSE, !.idle = FALSE]

(* Blocks that do not beat the tip are stored if they beat the champion.   *)
StoreNotTip(blocks) ==
    LET last == Last(blocks)
    IN  /\ BeatsChampion(last)
        /\ sync_anchor' = catch_up(sync_anchor, last)
        /\ stored' = stored \cup {blocks[i] : i \in 1..Len(blocks)}

(* Mutant: the fork choice of the peer task is relied on.                  *)
NewBlocksUnchecked(blocks) ==
    /\ tip' = Last(blocks)
    /\ stored' = stored \cup {blocks[i] : i \in 1..Len(blocks)}
    /\ sync_anchor' \in Kept(Progressed, Last(blocks), Claimed)

(* `PeerTaskToMain::NewBlocks'.                                            *)
NewBlocks(blocks) ==
    IF MoreCanonical(tip, Last(blocks))
    THEN /\ tip' = Last(blocks)
         /\ stored' = stored \cup {blocks[i] : i \in 1..Len(blocks)}
         /\ sync_anchor' \in Kept(Progressed, Last(blocks), Claimed)
    ELSE /\ tip' = tip
         /\ \/ StoreNotTip(blocks)
            \/ ~BeatsChampion(Last(blocks)) /\ UNCHANGED <<stored, sync_anchor>>

MainNewBlocks ==
    /\ up
    /\ to_main # <<>>
    /\ Head(to_main).type = "NewBlocks"
    /\ NewBlocks(Head(to_main).blocks)
    /\ to_main' = Tail(to_main)
    /\ UNCHANGED <<mainVars, taskVars>>

(* `PeerTaskToMain::AddPeerMaxBlockHeight'.                                *)
MainAddsClaim ==
    /\ up
    /\ to_main # <<>>
    /\ Head(to_main).type = "AddPeerMaxBlockHeight"
    /\ LET p == Head(to_main).peer
           claim == Head(to_main).claim
       IN  /\ peer_sync_states' = [peer_sync_states EXCEPT ![p] = claim]
           /\ IF /\ sync_mode_criterion(tip, claim)
                 /\ sync_anchor = None \/ sync_anchor.cumulative_proof_of_work < Work[claim]
              THEN sync_anchor' = [ cumulative_proof_of_work |-> Work[claim], block_mmr |-> claim,
                                    champion |-> None, expired |-> FALSE, idle |-> FALSE ]
              ELSE UNCHANGED sync_anchor
    /\ to_main' = Tail(to_main)
    /\ UNCHANGED <<tip, stored, up, last_sync_request, taskVars>>

(* `PeerTaskToMain::RemovePeerMaxBlockHeight'.                             *)
MainRemovesClaim ==
    /\ up
    /\ to_main # <<>>
    /\ Head(to_main).type = "RemovePeerMaxBlockHeight"
    /\ peer_sync_states' = [peer_sync_states EXCEPT ![Head(to_main).peer] = None]
    /\ sync_anchor' \in
          Kept(sync_anchor, tip, {peer_sync_states[p] : p \in Peers \ {Head(to_main).peer}} \ {None})
    /\ to_main' = Tail(to_main)
    /\ UNCHANGED <<tip, stored, up, last_sync_request, taskVars>>

(* `handle_self_guessed_block': a block found by the own miner or by an    *)
(* external one, built on a block that is or was the tip.                  *)
SelfGuessedBlock ==
    /\ up
    /\ \E b \in Mined :
          /\ Prev(b) \in stored
          /\ MoreCanonical(tip, b)
          /\ tip' = b
          /\ stored' = stored \cup {b}
    /\ sync_anchor' = Progressed
    /\ UNCHANGED <<mainVars, to_main, taskVars>>

(* `get_potential_peers_for_sync_request'.                                 *)
SyncCandidates ==
    {p \in Peers : peer_sync_states[p] # None /\ Work[peer_sync_states[p]] > Work[tip]}

(* `get_status_of_last_request': whether to wait for an earlier request.   *)
AwaitingAnswer ==
    /\ last_sync_request # None
    /\ last_sync_request.height >= Height(tip)
    /\ ~last_sync_request.expired

(* Mutant: sync mode is never given up.                                    *)
NeverAbandon == FALSE /\ UNCHANGED <<up, sync_anchor, last_sync_request>>

(* Sync mode has timed out.                                                *)
Abandon ==
    /\ sync_anchor.expired
    /\ sync_anchor' = None
    /\ UNCHANGED <<up, last_sync_request>>

(* A request is sent to some peer; without one, the assertion fails.       *)
RequestBatch ==
    /\ ~sync_anchor.expired
    /\ ~AwaitingAnswer
    /\ IF SyncCandidates = {}
       THEN up' = FALSE /\ UNCHANGED last_sync_request
       ELSE /\ last_sync_request' = [height |-> Height(tip) + 1, expired |-> FALSE]
            /\ UNCHANGED up
    /\ UNCHANGED sync_anchor

(* `block_sync', run by a timer.                                           *)
BlockSync ==
    /\ up
    /\ sync_anchor # None
    /\ Abandon \/ RequestBatch
    /\ UNCHANGED <<tip, stored, peer_sync_states, to_main, taskVars>>

(* INDIVIDUAL_PEER_SYNCHRONIZATION_TIMEOUT elapses.                        *)
RequestExpires ==
    /\ last_sync_request # None
    /\ ~last_sync_request.expired
    /\ last_sync_request' = [last_sync_request EXCEPT !.expired = TRUE]
    /\ UNCHANGED <<tip, stored, sync_anchor, up, peer_sync_states, to_main, taskVars>>

(* GLOBAL_SYNCHRONIZATION_TIMEOUT elapses.                                 *)
AnchorExpires ==
    /\ sync_anchor # None
    /\ ~(sync_anchor.expired /\ sync_anchor.idle)
    /\ sync_anchor' = [sync_anchor EXCEPT !.expired = TRUE, !.idle = TRUE]
    /\ UNCHANGED <<tip, stored, mainVars, to_main, taskVars>>

-----------------------------------------------------------------------------
PeerTask(p) ==
    \/ Connect(p)
    \/ Close(p)
    \/ BlockNotification(p)
    \/ SyncChallengeResponse(p)
    \/ ReceiveBlock(p)
    \/ ReceiveBatch(p)
    \/ PassOn(p)

MainReceives == MainNewBlocks \/ MainAddsClaim \/ MainRemovesClaim

Next ==
    \/ \E p \in Peers : PeerTask(p)
    \/ MainReceives
    \/ SelfGuessedBlock
    \/ BlockSync
    \/ RequestExpires
    \/ AnchorExpires

(* The main loop's `select!' takes every message and every tick, and time  *)
(* passes.  Nothing is asked of the peers.                                 *)
Fairness == WF_vars(MainReceives) /\ WF_vars(BlockSync) /\ WF_vars(AnchorExpires)

Spec == Init /\ [][Next]_vars /\ Fairness

-----------------------------------------------------------------------------
(* Properties                                                              *)

(* Every variable has its type.                                            *)
TypeOK ==
    /\ tip \in Blocks
    /\ stored \subseteq Blocks
    /\ sync_anchor \in SyncAnchors \cup {None}
    /\ up \in BOOLEAN
    /\ peer_sync_states \in [Peers -> Blocks \cup {None}]
    /\ last_sync_request \in Requests \cup {None}
    /\ to_main \in Seq(Messages)
    /\ Len(to_main) <= Capacity
    /\ connected \in [Peers -> BOOLEAN]
    /\ fork_reconciliation_blocks \in [Peers -> Seq(Blocks)]
    /\ sync_challenge \in [Peers -> Blocks \cup {None}]
    /\ in_hand \in [Peers -> Seq(Blocks)]

(* Whatever blocks, forks and batches arrive in whatever order, the block  *)
(* index has the predecessor of each of its blocks, the tip and the        *)
(* champion that the next request builds on are in it, and a single tip    *)
(* update never skips a block: `set_new_tip' and `find_path' rely on it.   *)
NoOrphans ==
    /\ \A b \in stored \ {Genesis} : Prev(b) \in stored
    /\ tip \in stored
    /\ sync_anchor # None /\ sync_anchor.champion # None => sync_anchor.champion \in stored

(* The fork choice made by a peer task is out of date when its blocks      *)
(* reach the main loop; the tip is still never replaced by a block that    *)
(* loses against it.                                                       *)
TipNeverWorse == [][tip' # tip => MoreCanonical(tip, tip')]_vars

(* A claim whose peer is gone is about to be removed: the main loop cannot *)
(* be left waiting for blocks that nobody offers any more.                 *)
ClaimsHavePeers ==
    \A p \in Peers :
        peer_sync_states[p] # None /\ ~connected[p] =>
            \E i \in 1..Len(to_main) :
                to_main[i] = [type |-> "RemovePeerMaxBlockHeight", peer |-> p]

(* Synchronization ends, whatever the peers do or fail to do, unless the   *)
(* main loop panics.                                                       *)
SyncEnds == (sync_anchor # None) ~> (sync_anchor = None \/ ~up)

==============================================================================
