------------------------------ MODULE NodeTasks ------------------------------
(***************************************************************************)
(* What the node's tasks wait for. Every task is a loop around a select!;  *)
(* what it picks up there makes it take the global state lock, send to the *)
(* main task over a bounded channel, or write to a peer's socket, in the   *)
(* order the code does. The data is left out altogether: a handler is the  *)
(* set of its paths, a path the sequence of its waiting points, a channel  *)
(* to the main task the number of messages in it.                          *)
(*                                                                         *)
(* Sends that never wait are left out: the main task's try_send to the     *)
(* miner and its broadcast to the peers. The main task sends nothing else. *)
(***************************************************************************)
EXTENDS Naturals, Sequences, FiniteSets

CONSTANTS Others,   \* tasks beside the main task
          Capacity  \* of each channel to the main task

Main == "main"
Tasks == Others \cup {Main}
Roles == {"peer", "miner", "prover", "rpc", "rest"}

VARIABLES
    role,     \* what each other task is
    path,     \* what each task still has to do before its next select!
    guard,    \* the guard each task holds: "none", "read" or "write"
    queue,    \* tasks waiting for the global state lock, in order
    channel,  \* number of messages to the main task, per channel
    open,     \* peer tasks that run their peer loop
    running   \* the main task has not ended

vars == <<role, path, guard, queue, channel, open, running>>

ChannelOf(t) ==
    CASE role[t] = "peer" -> "peer_task_to_main"
      [] role[t] = "miner" -> "miner_to_main"
      [] OTHER -> "rpc_server_to_main"
Channels == {"peer_task_to_main", "rpc_server_to_main", "miner_to_main"}

(***************************************************************************)
(* Waiting points. A guard lives until its scope ends; Reads and Writes    *)
(* are scopes in which nothing else is awaited.                            *)
(***************************************************************************)
Nothing == << >>
Read == <<"read">>
Write == <<"write">>
Drop == <<"drop">>
Run == <<"run">>      \* enter the peer loop
Abort == <<"abort">>  \* end the main task
Reads == <<Read, Drop>>
Writes == <<Write, Drop>>
PeerSend == << <<"peer">> >>
ToMain == << <<"main">> >>

(***************************************************************************)
(* The paths of a handler that waits at all. Scopes of one kind in a row   *)
(* wait for the same thing, with nothing held in between, and are taken as *)
(* one.                                                                    *)
(***************************************************************************)
Repeats(s, i) == i > 2 /\ s[i] \in {Read, Write} /\ s[i-1] = Drop /\ s[i-2] = s[i]
Merged(s) ==
    LET kept == {i \in DOMAIN s : ~Repeats(s, i) /\ ~Repeats(s, i - 1)}
    IN  [n \in 1..Cardinality(kept) |->
            s[CHOOSE i \in kept : Cardinality({j \in kept : j <= i}) = n]]
Paths(handler) == {Merged(s) : s \in handler \ {Nothing}}

-----------------------------------------------------------------------------
(* The main task, per message.                                             *)

NewBlocks == {Writes}
AddPeerMaxBlockHeight == {Writes}
RemovePeerMaxBlockHeight == {Writes}
PeerDiscoveryAnswer == {Nothing}
PeerTransaction == {Writes}
PeerBlockProposal == {Writes}
DisconnectFromLongestLivedPeer == {Reads}

SelfGuessedBlock == {Writes}
MinerBlockProposal == {Reads, Reads \o Writes}

BroadcastTx == {Nothing}
BroadcastMempoolTransactions == {Reads}
BroadcastNotification == {Nothing}
ClearMempool == {Writes}
ProofOfWorkSolution == SelfGuessedBlock
MiningRequest == {Nothing}
PeerConnected == {Reads}
PeerDisconnected == {Nothing, <<Abort>>}

(***************************************************************************)
(* graceful_shutdown: the databases are flushed, then every task aborted.  *)
(***************************************************************************)
Shutdown == {Writes \o <<Abort>>}

PeerTaskMessages ==
    NewBlocks \cup AddPeerMaxBlockHeight \cup RemovePeerMaxBlockHeight \cup PeerDiscoveryAnswer
        \cup PeerTransaction \cup PeerBlockProposal \cup DisconnectFromLongestLivedPeer
MinerMessages == SelfGuessedBlock \cup MinerBlockProposal \cup Shutdown
RpcServerMessages ==
    BroadcastTx \cup BroadcastMempoolTransactions \cup BroadcastNotification \cup ClearMempool
        \cup ProofOfWorkSolution \cup MiningRequest \cup PeerConnected \cup PeerDisconnected
        \cup Shutdown
MainHandles == [peer_task_to_main |-> PeerTaskMessages,
                miner_to_main |-> MinerMessages,
                rpc_server_to_main |-> RpcServerMessages]

(* What else wakes the main task. *)
AcceptConnection == {Nothing, Reads}
prune_peers == Reads
reconnect == {Reads, Reads \o Reads \o Reads}  \* at most one lost peer
discover_peers == Reads
PeerDiscoveryTick == {Nothing} \cup {prune_peers \o r \o discover_peers : r \in reconnect}
BlockSyncTick == {Reads, Reads \o Writes}
MempoolTicks == {Writes}
UpgradeTick == {Reads}
UpdatedMempoolTxs == {Writes}

MainWakes ==
    AcceptConnection \cup PeerDiscoveryTick \cup BlockSyncTick \cup MempoolTicks
        \cup UpgradeTick \cup UpdatedMempoolTxs \cup Shutdown

-----------------------------------------------------------------------------
(* The peer tasks. Each handler first reads whether the node is syncing    *)
(* and may ignore the message. An error ends the loop where it happens, so *)
(* a path may end after any sanction.                                      *)

punish == Writes
reward == Writes

handle_blocks ==
    {punish, Reads \o Reads, Reads \o Reads \o ToMain \o reward}

try_ensure_path ==
    {punish, Reads \o punish, Reads \o PeerSend}
        \cup {Reads \o h : h \in handle_blocks}
        \cup {Reads \o h \o PeerSend : h \in handle_blocks}

PeerList == {Reads \o PeerSend, punish, ToMain}

(***************************************************************************)
(* The one handler that writes to the socket under a guard.                *)
(***************************************************************************)
BlockNotificationRequest == {<<Read>> \o PeerSend \o <<Drop>>}

BlockNotification == {Reads, Reads \o PeerSend}
SyncChallenge == {Reads \o punish, Reads \o PeerSend}
SyncChallengeResponse ==
    {punish, Reads \o punish, Reads \o ToMain}
BlockRequest == {Reads, Reads \o PeerSend, Reads \o Reads \o punish, Reads \o Reads \o PeerSend}
Block == {punish} \cup try_ensure_path
BlockRequestBatch ==
    {punish, Reads \o punish \o PeerSend, Reads \o punish, Reads \o PeerSend}
BlockResponseBatch ==
    {punish, Reads \o punish, Reads \o Reads \o punish}
        \cup {Reads \o Reads \o h : h \in handle_blocks}
UnexpectedMessage == {Nothing, punish}
Transaction ==
    {punish, Reads, Reads \o Reads, Reads \o Reads \o punish,
     Reads \o Reads \o ToMain}
Notification == {Reads, Reads \o PeerSend}
BlockProposalRequest == {Reads \o PeerSend, Reads \o punish}
BlockProposal == {Reads \o punish, Reads \o ToMain \o reward}

PeerMessage ==
    {Reads} \cup {Reads \o h :
        h \in PeerList \cup BlockNotificationRequest \cup BlockNotification
             \cup SyncChallenge \cup SyncChallengeResponse \cup BlockRequest \cup Block
             \cup BlockRequestBatch \cup BlockResponseBatch \cup UnexpectedMessage
             \cup Transaction \cup Notification \cup BlockProposalRequest
             \cup BlockProposal}

MainToPeerTask == {Nothing, PeerSend, punish}

check_if_connection_is_allowed == Reads

answer_peer ==
    {PeerSend \o check_if_connection_is_allowed \o PeerSend \o m :
        m \in {Nothing, ToMain}}

call_peer == {PeerSend \o check_if_connection_is_allowed \o PeerSend}

run_wrapper ==
    {Reads \o Writes} \cup {Reads \o Writes \o Reads \o s \o <<Run>> : s \in {Nothing, PeerSend}}

(***************************************************************************)
(* Mutant: the guard is not dropped before the message is sent.            *)
(***************************************************************************)
guard_kept_in_callback == <<Write>> \o ToMain \o <<Drop>>

close_peer_connected_callback == Writes \o ToMain

(***************************************************************************)
(* A graceful goodbye is registered before the callback.                   *)
(***************************************************************************)
PeerLoopEnds ==
    {close_peer_connected_callback, Writes \o close_peer_connected_callback}

-----------------------------------------------------------------------------
(* The miner: what its select! picks up, then the top of its next loop.    *)

MineLoopSelect ==
    {Nothing, Writes, ToMain \o Writes, Reads \o Writes, Reads \o ToMain \o Writes}

set_mining_status == Writes
StartGuessing == {m \o Reads \o Reads : m \in {Nothing, set_mining_status}}
StartComposing == set_mining_status \o Reads
MineLoopTop ==
    {Reads \o set_mining_status}
        \cup {Reads \o Reads \o w : w \in {Nothing, StartComposing} \cup StartGuessing}

MineLoop == {s \o t : s \in MineLoopSelect, t \in MineLoopTop}

(* The proving tasks: no guard is held while a proof is made. *)
create_block_transaction == {Reads \o Reads \o Reads}
handle_upgrade == {Writes \o Reads, Writes \o Reads \o Writes}

-----------------------------------------------------------------------------
(* The RPC server, per call.                                               *)

ChainQueries == {Reads}
BlockQueries == {Reads}
PeerQueries == {Reads}
WalletQueries == {Reads}
KeyQueries == {Reads}
list_own_coins == {Reads}
MempoolQueries == {Reads}
DashboardQueries == {Reads}
BlockStatistics == {Reads}

StandingsCalls == {Writes}
next_receiving_address == {Writes}
prune_abandoned_monitored_utxos == {Writes}
claim_utxo_inner == Reads
claim_utxo == {claim_utxo_inner, claim_utxo_inner \o Writes}

check_proceed_with_send == {Nothing, Reads}
broadcast_transaction == ToMain
record_transaction == Writes
record_and_broadcast_transaction ==
    {r \o t : r \in check_proceed_with_send, t \in {Nothing, record_transaction \o broadcast_transaction}}
spendable_inputs == {Reads}
generate_tx_outputs == {Reads}
generate_tx_details == {Nothing, Reads, Writes}
send ==
    check_proceed_with_send \cup
    {Reads \o g \o t : g \in {Reads, Writes}, t \in {Nothing} \cup record_and_broadcast_transaction}
upgrade_tx_proof == {Writes}

MainRequests == {ToMain}
PeerRequests == {ToMain}
broadcast_all_mempool_txs == {ToMain}
pow_puzzle_inner == Reads \o Writes
pow_puzzle == {Reads, Reads \o pow_puzzle_inner, Reads \o Reads \o pow_puzzle_inner}
provide_pow_solution ==
    {Reads, Reads \o Reads, Reads \o Reads \o ToMain}

(***************************************************************************)
(* The regtest call polls for its block: at most twice here.               *)
(***************************************************************************)
wait_until_block_in_chain == {Reads, Reads \o Reads}
mine_regtest_block_to_wallet ==
    {Nothing} \cup
    {Reads \o Writes \o ToMain \o w : w \in wait_until_block_in_chain}

RpcCall ==
    ChainQueries \cup BlockQueries \cup PeerQueries \cup WalletQueries \cup KeyQueries
        \cup list_own_coins \cup MempoolQueries \cup DashboardQueries \cup BlockStatistics
        \cup StandingsCalls \cup next_receiving_address \cup prune_abandoned_monitored_utxos
        \cup claim_utxo \cup record_and_broadcast_transaction \cup send
        \cup spendable_inputs \cup generate_tx_outputs \cup generate_tx_details
        \cup upgrade_tx_proof \cup MainRequests \cup PeerRequests
        \cup broadcast_all_mempool_txs \cup pow_puzzle \cup provide_pow_solution
        \cup mine_regtest_block_to_wallet

-----------------------------------------------------------------------------
(* The REST server.                                                        *)

get_block == {Reads}
get_utxo_digest == {Reads}
get_block_info == {Reads}
get_mempool == {Reads}
BlockRangeQueries == {Reads}
get_last_blocks == {Reads}
get_owner_blocks == {Reads}
generate_restore_membership_proof == {Reads}

(***************************************************************************)
(* get_batch_block takes a guard per block, two blocks at most here.       *)
(***************************************************************************)
get_batch_block == {Reads, Reads \o Reads}

(***************************************************************************)
(* The write guard lives until the handler returns: it is held over the    *)
(* send to the main task.                                                  *)
(***************************************************************************)
rest_broadcast_transaction == {<<Write>> \o ToMain \o <<Drop>>}

send_transaction == {Nothing, Reads}

RestCall ==
    get_block \cup get_utxo_digest \cup get_block_info \cup get_mempool
        \cup BlockRangeQueries \cup get_last_blocks \cup get_owner_blocks \cup generate_restore_membership_proof \cup get_batch_block \cup rest_broadcast_transaction \cup send_transaction

-----------------------------------------------------------------------------
(* The lock: tokio's fair RwLock. A request waits behind every earlier one *)
(* that has not been granted.                                              *)

Excludes(mode, held) == held = "write" \/ (mode = "write" /\ held = "read")

Free(mode) == \A u \in Tasks : ~Excludes(mode, guard[u])

HasNext(t, kind) == running /\ path[t] # << >> /\ Head(path[t])[1] = kind

Queued(t) == \E i \in 1..Len(queue) : queue[i] = t

Acquired(t, mode) ==
    /\ guard' = [guard EXCEPT ![t] = mode]
    /\ path' = [path EXCEPT ![t] = Tail(@)]

(***************************************************************************)
(* lock_guard and lock_guard_mut.                                          *)
(***************************************************************************)
Lock(t, mode) ==
    /\ HasNext(t, mode) /\ ~Queued(t)
    /\ IF queue = << >> /\ Free(mode)
       THEN Acquired(t, mode) /\ UNCHANGED queue
       ELSE queue' = Append(queue, t) /\ UNCHANGED <<guard, path>>
    /\ UNCHANGED <<role, channel, open, running>>

Granted ==
    /\ running /\ queue # << >>
    /\ LET t == Head(queue)
           mode == Head(path[t])[1]
       IN  Free(mode) /\ Acquired(t, mode)
    /\ queue' = Tail(queue)
    /\ UNCHANGED <<role, channel, open, running>>

DropGuard(t) ==
    /\ HasNext(t, "drop")
    /\ guard' = [guard EXCEPT ![t] = "none"]
    /\ path' = [path EXCEPT ![t] = Tail(@)]
    /\ UNCHANGED <<role, queue, channel, open, running>>

-----------------------------------------------------------------------------
(* Sends.                                                                  *)

Full(c) == channel[c] = Capacity

SendToMain(t) ==
    /\ HasNext(t, "main") /\ ~Full(ChannelOf(t))
    /\ channel' = [channel EXCEPT ![ChannelOf(t)] = @ + 1]
    /\ path' = [path EXCEPT ![t] = Tail(@)]
    /\ UNCHANGED <<role, guard, queue, open, running>>

(***************************************************************************)
(* The socket takes the message when the remote reads: some day or never.  *)
(***************************************************************************)
SendToPeer(p) ==
    /\ HasNext(p, "peer")
    /\ path' = [path EXCEPT ![p] = Tail(@)]
    /\ UNCHANGED <<role, guard, queue, channel, open, running>>

(***************************************************************************)
(* The socket fails: the peer loop ends and its guard is dropped. Before   *)
(* the loop is entered, the task just ends, without the callback.          *)
(***************************************************************************)
SendFails(p) ==
    /\ HasNext(p, "peer")
    /\ guard' = [guard EXCEPT ![p] = "none"]
    /\ path' = [path EXCEPT ![p] = IF p \in open THEN close_peer_connected_callback ELSE << >>]
    /\ open' = open \ {p}
    /\ UNCHANGED <<role, queue, channel, running>>

-----------------------------------------------------------------------------
(* select!: what an idle task starts on.                                   *)

Idle(t) == running /\ path[t] = << >>

Begin(t, paths) ==
    /\ Idle(t)
    /\ \E s \in paths : path' = [path EXCEPT ![t] = s]
    /\ UNCHANGED <<role, guard, queue, running>>

Is(t, r) == t \in Others /\ role[t] = r

MainReceives(c) ==
    /\ Idle(Main) /\ channel[c] > 0
    /\ \E s \in MainHandles[c] : path' = [path EXCEPT ![Main] = s]
    /\ channel' = [channel EXCEPT ![c] = @ - 1]
    /\ UNCHANGED <<role, guard, queue, open, running>>

MainTicks == Begin(Main, Paths(MainWakes)) /\ UNCHANGED <<channel, open>>

(***************************************************************************)
(* The end of run: every other task is aborted where it waits.             *)
(***************************************************************************)
MainEnds ==
    /\ HasNext(Main, "abort")
    /\ running' = FALSE
    /\ path' = [t \in Tasks |-> << >>]
    /\ guard' = [t \in Tasks |-> "none"]
    /\ queue' = << >>
    /\ open' = {}
    /\ UNCHANGED <<role, channel>>

(***************************************************************************)
(* A connection attempt: either side may refuse after the check, and       *)
(* run_wrapper bails out when the peer map does not admit the peer.        *)
(***************************************************************************)
PeerConnects(p) ==
    /\ Is(p, "peer") /\ p \notin open
    /\ Begin(p, Paths(call_peer \cup {h \o r : h \in answer_peer \cup call_peer, r \in run_wrapper}))
    /\ UNCHANGED <<channel, open>>

EnterPeerLoop(p) ==
    /\ HasNext(p, "run")
    /\ path' = [path EXCEPT ![p] = Tail(@)]
    /\ open' = open \cup {p}
    /\ UNCHANGED <<role, guard, queue, channel, running>>

PeerHandles(p) ==
    p \in open /\ Begin(p, Paths(PeerMessage \cup MainToPeerTask)) /\ UNCHANGED <<channel, open>>

PeerCloses(p) ==
    p \in open /\ Begin(p, Paths(PeerLoopEnds)) /\ open' = open \ {p} /\ UNCHANGED channel

MinerLoops(t) == Is(t, "miner") /\ Begin(t, Paths(MineLoop)) /\ UNCHANGED <<channel, open>>
ProverRuns(t) ==
    /\ Is(t, "prover")
    /\ Begin(t, Paths(create_block_transaction \cup handle_upgrade))
    /\ UNCHANGED <<channel, open>>
RpcServes(t) == Is(t, "rpc") /\ Begin(t, Paths(RpcCall)) /\ UNCHANGED <<channel, open>>
RestServes(t) == Is(t, "rest") /\ Begin(t, Paths(RestCall)) /\ UNCHANGED <<channel, open>>

Init ==
    /\ role \in [Others -> Roles]
    /\ Cardinality({t \in Others : role[t] = "miner"}) <= 1
    /\ path = [t \in Tasks |-> << >>]
    /\ guard = [t \in Tasks |-> "none"]
    /\ queue = << >>
    /\ channel = [c \in Channels |-> 0]
    /\ open = {}
    /\ running = TRUE

Next ==
    \/ \E t \in Tasks : \/ \E mode \in {"read", "write"} : Lock(t, mode)
                       \/ DropGuard(t)
    \/ Granted
    \/ \E c \in Channels : MainReceives(c)
    \/ MainTicks \/ MainEnds
    \/ \E t \in Others :
          \/ SendToMain(t) \/ SendToPeer(t) \/ SendFails(t)
          \/ PeerConnects(t) \/ EnterPeerLoop(t) \/ PeerHandles(t) \/ PeerCloses(t)
          \/ MinerLoops(t) \/ ProverRuns(t) \/ RpcServes(t) \/ RestServes(t)

Spec == Init /\ [][Next]_vars

-----------------------------------------------------------------------------
(* Who waits for whom.                                                     *)

Place(t) == CHOOSE i \in 1..Len(queue) : queue[i] = t

Waits(t, u) ==
    \/ /\ Queued(t)
       /\ \/ Excludes(Head(path[t])[1], guard[u])
          \/ Queued(u) /\ Place(u) < Place(t)
    \/ u = Main /\ HasNext(t, "main") /\ Full(ChannelOf(t))

CircularWait(S) == \A t \in S : \E u \in S : Waits(t, u)

(***************************************************************************)
(* No set of tasks waits for each other only, as long as the REST server's *)
(* broadcast is not among them: locks are not held across a send that may  *)
(* wait for the main task ("locks should not be held across it",           *)
(* main_loop.rs). The REST server's broadcast_transaction does hold the    *)
(* write guard across such a send, and with a full channel it and the main *)
(* task wait for each other for ever.                                      *)
(***************************************************************************)
NoCircularWait ==
    \A S \in SUBSET {t \in Tasks : ~Is(t, "rest")} : CircularWait(S) => S = {}
=============================================================================
