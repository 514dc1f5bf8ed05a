------------------------------ MODULE MineLoop -------------------------------
(***************************************************************************)
(* The mining task (`mine_loop::mine'), its composer and guesser, and the  *)
(* part of the main loop that talks to it: the two bounded channels, the   *)
(* block proposal, the proposals exported to external guessers, and the    *)
(* task that updates the mempool, reduced to whether it runs.              *)
(*                                                                         *)
(* A proposal is named by the block it builds on and its guesser fee.      *)
(***************************************************************************)
EXTENDS ForkChoice, FiniteSets

CONSTANTS
    Roles,              \* the command line flags `compose' and `guess' to consider
    Capacity,           \* MINER_CHANNEL_CAPACITY
    MaxExported,        \* MAX_NUM_EXPORTED_BLOCK_PROPOSAL_STORED
    Fees,               \* guesser fees of block proposals
    None,               \* no block, no proposal
    MaxEvents           \* bound: requests and events from outside the node

ASSUME MineLoopAssumption ==
    /\ Roles \subseteq {r \in [compose : BOOLEAN, guess : BOOLEAN] : r.compose \/ r.guess}
    /\ Capacity \in Nat \ {0}
    /\ MaxExported \in Nat
    /\ Fees \subseteq Nat
    /\ None \notin Blocks
    /\ MaxEvents \in Nat

VARIABLES
    cli,                    \* the role this node was started in
    \* global state
    tip, block_proposal, exported_block_proposals, mining_status,
    syncing,                \* sync_anchor is set
    connected,              \* peer_map is not empty
    \* the main loop, and messages on their way to it
    main, updater, from_peer, puzzle, solution,
    to_miner, to_main,
    \* the mining task
    pc, pause_mine, wait_for_confirmation,
    saw_syncing,            \* is_syncing, as read at the top of the loop
    guesser,                \* the block that the guesser's proposal builds on
    composer,
    \* history and bound
    user_wants,             \* the last mining request by RPC
    lost,                   \* the last Continue was dropped, the channel being full
    lost_stop,              \* the last StopMining was dropped
    events

globalVars == <<tip, block_proposal, exported_block_proposals, syncing, connected>>
mainVars   == <<main, updater, from_peer, puzzle, solution>>
minerVars  == <<pc, pause_mine, wait_for_confirmation, saw_syncing, guesser, composer, mining_status>>
history    == <<user_wants, lost, lost_stop>>
vars == <<cli, globalVars, mainVars, minerVars, to_miner, to_main, history, events>>

Proposals == [prev : Blocks, fee : Fees]

MainToMiner == {"Shutdown", "NewBlock", "NewBlockProposal", "WaitForContinue", "Continue",
                "StopMining", "StartMining", "StopSyncing", "StartSyncing"}

(* A block proposal is sent as the block it builds on.                     *)
MinerToMain == [type : {"NewBlockFound", "BlockProposal", "Shutdown"}, block : Blocks]

(* The composer task: what it has sent over its channel or failed with,    *)
(* and whether its join handle is finished.                                *)
NoComposer == [state |-> "none", on |-> None, finished |-> TRUE]

Composer == [state : {"proving", "sent", "limit", "failed"}, on : Blocks, finished : BOOLEAN]
                \cup {NoComposer}

TypeOK ==
    /\ cli \in Roles
    /\ tip \in Blocks
    /\ block_proposal \in Proposals \cup {None}
    /\ exported_block_proposals \subseteq Proposals
    /\ mining_status \in {"Inactive", "Guessing", "Composing"}
    /\ syncing \in BOOLEAN /\ connected \in BOOLEAN
    /\ main \in {"running", "stopped"}
    /\ updater \in {"idle", "running", "dead"}
    /\ from_peer \in Proposals \cup {None}
    /\ puzzle \in Proposals \cup {None}
    /\ solution \in Blocks \cup {None}
    /\ to_miner \in Seq(MainToMiner) /\ Len(to_miner) <= Capacity
    /\ to_main \in Seq(MinerToMain) /\ Len(to_main) <= Capacity
    /\ pc \in {"top", "spawn", "select", "stopped"}
    /\ pause_mine \in BOOLEAN /\ wait_for_confirmation \in BOOLEAN
    /\ saw_syncing \in BOOLEAN
    /\ guesser \in Blocks \cup {None}
    /\ composer \in Composer
    /\ user_wants \in {"run", "pause"}
    /\ lost \in BOOLEAN /\ lost_stop \in BOOLEAN
    /\ events \in 0..MaxEvents

Init ==
    /\ cli \in Roles
    /\ tip = Genesis
    /\ block_proposal = None /\ exported_block_proposals = {}
    /\ mining_status = "Inactive"
    /\ syncing = FALSE /\ connected = TRUE
    /\ main = "running" /\ updater = "idle"
    /\ from_peer = None /\ puzzle = None /\ solution = None
    /\ to_miner = <<>> /\ to_main = <<>>
    /\ pc = "top" /\ pause_mine = FALSE /\ wait_for_confirmation = FALSE
    /\ saw_syncing = FALSE
    /\ guesser = None /\ composer = NoComposer
    /\ user_wants = "run" /\ lost = FALSE /\ lost_stop = FALSE
    /\ events = 0
------------------------------------------------------------------------------

(* `MainToMinerChannel::send': try_send, and a message that does not fit   *)
(* is logged and forgotten.                                                *)
Fits(q) == pc # "stopped" /\ Len(q) < Capacity

Send(q, m) == IF Fits(q) THEN Append(q, m) ELSE q

SendToMiner(m) ==
    /\ to_miner' = Send(to_miner, m)
    /\ lost' = IF m = "Continue" THEN ~Fits(to_miner) ELSE lost
    /\ lost_stop' = CASE m = "StopMining"  -> ~Fits(to_miner)
                      [] m = "StartMining" -> FALSE
                      [] OTHER -> lost_stop

External ==
    /\ main = "running"
    /\ events < MaxEvents /\ events' = events + 1
    /\ UNCHANGED cli

(* The part of `set_new_tip' and `spawn_mempool_txs_update_job' that the   *)
(* miner can see.  A task still updating for the previous tip is aborted.  *)
AdoptTip(b) ==
    /\ tip' = b
    /\ block_proposal' = None
    /\ exported_block_proposals' = {}
    /\ updater' = "running"

(* `handle_peer_task_message' for NewBlocks that end in b.  `left' is the  *)
(* outcome of `stay_in_sync_mode', a matter of the peers' claims.          *)
NewBlocks(b, left) ==
    /\ External
    /\ MoreCanonical(tip, b)
    /\ left => syncing
    /\ to_miner' = LET waiting == Send(to_miner, "WaitForContinue")
                       synced  == IF left THEN Send(waiting, "StopSyncing") ELSE waiting
                   IN  Send(synced, "NewBlock")
    /\ syncing' = (syncing /\ ~left)
    /\ AdoptTip(b)
    /\ UNCHANGED <<connected, main, from_peer, puzzle, solution, minerVars, to_main, history>>

(* Mutant: the mempool is not updated to a block of one's own.             *)
AdoptWithoutUpdate(b) ==
    \/ /\ MoreCanonical(tip, b)
       /\ tip' = b /\ block_proposal' = None /\ exported_block_proposals' = {}
       /\ UNCHANGED <<to_miner, lost, lost_stop, updater>>
    \/ /\ ~MoreCanonical(tip, b)
       /\ SendToMiner("Continue")
       /\ UNCHANGED <<tip, block_proposal, exported_block_proposals, updater>>

(* `handle_self_guessed_block'.                                            *)
HandleSelfGuessedBlock(b) ==
    \/ /\ MoreCanonical(tip, b)
       /\ AdoptTip(b)
       /\ UNCHANGED <<to_miner, lost, lost_stop>>
    \/ /\ ~MoreCanonical(tip, b)
       /\ SendToMiner("Continue")
       /\ UNCHANGED <<tip, block_proposal, exported_block_proposals, updater>>

(* The main loop breaks; what is left in its channels is never read.       *)
LoopEnds ==
    /\ main' = "stopped"
    /\ SendToMiner("Shutdown")
    /\ to_main' = <<>> /\ updater' = "idle"
    /\ from_peer' = None /\ puzzle' = None /\ solution' = None

(* Mutant: a proposal that is taken is not confirmed.                      *)
AcceptSilently(m, fee) ==
    /\ m.type = "BlockProposal"
    /\ \/ /\ m.block = tip /\ block_proposal' = [prev |-> tip, fee |-> fee]
          /\ UNCHANGED <<to_miner, lost, lost_stop>>
       \/ UNCHANGED block_proposal /\ SendToMiner("Continue")
    /\ to_main' = Tail(to_main)
    /\ UNCHANGED <<tip, exported_block_proposals, main, updater, from_peer, puzzle, solution>>

(* `handle_miner_task_message'.                                            *)
NewBlockFound(m) ==
    /\ m.type = "NewBlockFound"
    /\ HandleSelfGuessedBlock(m.block)
    /\ to_main' = Tail(to_main)
    /\ UNCHANGED <<main, from_peer, puzzle, solution>>

(* A proposal for another tip, or an invalid one, is rejected.             *)
BlockProposal(m, fee) ==
    /\ m.type = "BlockProposal"
    /\ \/ m.block = tip /\ block_proposal' = [prev |-> tip, fee |-> fee]
       \/ UNCHANGED block_proposal
    /\ SendToMiner("Continue")
    /\ to_main' = Tail(to_main)
    /\ UNCHANGED <<tip, exported_block_proposals, main, updater, from_peer, puzzle, solution>>

MinerShutdown(m) ==
    /\ m.type = "Shutdown"
    /\ LoopEnds
    /\ UNCHANGED <<tip, block_proposal, exported_block_proposals>>

HandleMinerMessage ==
    /\ main = "running" /\ to_main # <<>>
    /\ \/ NewBlockFound(Head(to_main))
       \/ \E fee \in Fees : BlockProposal(Head(to_main), fee)
       \/ MinerShutdown(Head(to_main))
    /\ UNCHANGED <<syncing, connected, minerVars, user_wants, events, cli>>
------------------------------------------------------------------------------
(* Mutant: the miner is not told.                                          *)
UpdateDoneSilently ==
    /\ main = "running" /\ updater = "running"
    /\ updater' = "idle"
    /\ UNCHANGED <<globalVars, main, from_peer, puzzle, solution, minerVars, to_miner, to_main, history, events, cli>>

(* The update task finishes, and `handle_updated_mempool_txs' tells the    *)
(* miner; or the task panics and nobody is told.                           *)
UpdateDone ==
    /\ main = "running" /\ updater = "running"
    /\ updater' = "idle"
    /\ SendToMiner("Continue")
    /\ UNCHANGED <<globalVars, main, from_peer, puzzle, solution, minerVars, to_main, user_wants, events, cli>>

UpdateDies ==
    /\ updater = "running"
    /\ updater' = "dead"
    /\ UNCHANGED <<globalVars, main, from_peer, puzzle, solution, minerVars, to_miner, to_main, history, events, cli>>

(* `favor_incoming_block_proposal'.                                        *)
Favor(p) ==
    /\ ~cli.compose
    /\ Height(p.prev) = Height(tip)
    /\ block_proposal # None => block_proposal.fee < p.fee
    /\ p.fee # 0

(* The peer loop checks that a proposal is a valid child of the tip and    *)
(* passes it on; one with the fee of the present proposal goes unchecked   *)
(* ...                                                                     *)
PeerLoopBlockProposal(p) ==
    /\ External /\ from_peer = None
    /\ \/ Favor(p) /\ p.prev = tip
       \/ /\ ~cli.compose /\ Height(p.prev) = Height(tip)
          /\ block_proposal # None /\ block_proposal.fee = p.fee
    /\ from_peer' = p
    /\ UNCHANGED <<globalVars, main, updater, puzzle, solution, minerVars, to_miner, to_main, history>>

(* ... and the main loop checks again before it takes it.                  *)
PeerBlockProposal ==
    /\ main = "running" /\ from_peer # None
    /\ from_peer' = None
    /\ \/ /\ Favor(from_peer)
          /\ block_proposal' = from_peer
          /\ SendToMiner("NewBlockProposal")
       \/ /\ ~Favor(from_peer)
          /\ UNCHANGED <<block_proposal, to_miner, lost, lost_stop>>
    /\ UNCHANGED <<tip, exported_block_proposals, syncing, connected, main, updater, puzzle, solution,
                   minerVars, to_main, user_wants, events, cli>>

(* The RPC `pow_puzzle' reads the proposal under one lock and records it   *)
(* as exported under another.                                              *)
PowPuzzle ==
    /\ External /\ puzzle = None
    /\ block_proposal # None
    /\ puzzle' = block_proposal
    /\ UNCHANGED <<globalVars, main, updater, from_peer, solution, minerVars, to_miner, to_main, history>>

PowPuzzleInner ==
    /\ puzzle # None
    /\ exported_block_proposals' = IF Cardinality(exported_block_proposals) >= MaxExported
                                   THEN exported_block_proposals
                                   ELSE exported_block_proposals \cup {puzzle}
    /\ puzzle' = None
    /\ UNCHANGED <<tip, block_proposal, syncing, connected, main, updater, from_peer, solution,
                   minerVars, to_miner, to_main, history, events, cli>>

(* The RPC `provide_pow_solution' turns an exported proposal into a block. *)
ProvidePowSolution(p, b) ==
    /\ External /\ solution = None
    /\ p \in exported_block_proposals /\ b # Genesis /\ Prev(b) = p.prev
    /\ solution' = b
    /\ UNCHANGED <<globalVars, main, updater, from_peer, puzzle, minerVars, to_miner, to_main, history>>

ProofOfWorkSolution ==
    /\ main = "running" /\ solution # None
    /\ solution' = None
    /\ HandleSelfGuessedBlock(solution)
    /\ UNCHANGED <<syncing, connected, main, from_peer, puzzle, minerVars, to_main, user_wants, events, cli>>

(* RPC requests to stop and to start mining.                               *)
MiningRequest(wants, m) ==
    /\ External
    /\ SendToMiner(m)
    /\ user_wants' = wants
    /\ UNCHANGED <<globalVars, mainVars, minerVars, to_main>>

PauseMiner   == MiningRequest("pause", "StopMining")
RestartMiner == MiningRequest("run", "StartMining")

(* AddPeerMaxBlockHeight with a claim that starts synchronization.         *)
EnterSyncMode ==
    /\ External
    /\ syncing' = TRUE
    /\ SendToMiner("StartSyncing")
    /\ UNCHANGED <<tip, block_proposal, exported_block_proposals, connected, mainVars, minerVars, to_main, user_wants>>

(* RemovePeerMaxBlockHeight and the time-out in `block_sync' leave sync    *)
(* mode without a message.                                                 *)
AbandonSyncMode ==
    /\ External
    /\ syncing /\ syncing' = FALSE
    /\ UNCHANGED <<tip, block_proposal, exported_block_proposals, connected, mainVars, minerVars, to_miner, to_main, history>>

(* The last peer leaves, or a first one comes.                             *)
PeerMapChanges ==
    /\ External
    /\ connected' = ~connected
    /\ UNCHANGED <<tip, block_proposal, exported_block_proposals, syncing, mainVars, minerVars, to_miner, to_main, history>>

(* A signal or an RPC request ends the main loop.  `graceful_shutdown'     *)
(* then aborts the tasks that are still running.                           *)
GracefulShutdown ==
    /\ External
    /\ LoopEnds
    /\ UNCHANGED <<globalVars, minerVars, user_wants>>
------------------------------------------------------------------------------
(* The end of the mining task: a break, an error, or its abortion, after   *)
(* the status was set to inactive or before.                               *)
MinerEnds(inactive) ==
    /\ pc' = "stopped" /\ guesser' = None /\ composer' = NoComposer
    /\ mining_status' = IF inactive THEN "Inactive" ELSE mining_status
    /\ to_miner' = <<>>
    /\ UNCHANGED saw_syncing

AbortTasks ==
    /\ main = "stopped" /\ pc # "stopped"
    /\ MinerEnds(FALSE)
    /\ UNCHANGED <<globalVars, mainVars, pause_mine, wait_for_confirmation, to_main, history, events, cli>>

(* Mutant: the pause is forgotten at the top of the loop.                  *)
MayMineUnpaused == ~wait_for_confirmation /\ ~saw_syncing

(* The top of the loop up to the check of the connection.                  *)
LoopTop ==
    /\ pc = "top"
    /\ \/ /\ ~connected
          /\ mining_status' = "Inactive"
          /\ UNCHANGED <<pc, saw_syncing>>
       \/ /\ connected
          /\ saw_syncing' = syncing
          /\ pc' = "spawn"
          /\ UNCHANGED mining_status
    /\ UNCHANGED <<globalVars, mainVars, pause_mine, wait_for_confirmation, guesser, composer,
                   to_miner, to_main, history, events, cli>>

MayMine == ~wait_for_confirmation /\ ~saw_syncing /\ ~pause_mine

ShouldGuess   == MayMine /\ cli.guess /\ block_proposal # None
ShouldCompose == MayMine /\ cli.compose /\ ~ShouldGuess

SpawnWork ==
    /\ pc = "spawn" /\ pc' = "select"
    /\ guesser' = IF ShouldGuess THEN block_proposal.prev ELSE None
    /\ composer' = IF ShouldCompose
                   THEN [state |-> "proving", on |-> tip, finished |-> FALSE]
                   ELSE NoComposer
    /\ mining_status' = CASE ShouldCompose -> "Composing"
                          [] ShouldGuess /\ mining_status = "Inactive" -> "Guessing"
                          [] OTHER -> mining_status
    /\ UNCHANGED <<globalVars, mainVars, pause_mine, wait_for_confirmation, saw_syncing,
                   to_miner, to_main, history, events, cli>>

(* The composer task.  Its last cancel receiver and, if it fails, its      *)
(* channel to the miner are gone before its join handle is finished.       *)
ComposerStep(state) ==
    /\ composer.state = "proving"
    /\ composer' = [composer EXCEPT !.state = state]
    /\ UNCHANGED <<globalVars, mainVars, pc, pause_mine, wait_for_confirmation, saw_syncing, guesser,
                   mining_status, to_miner, to_main, history, events, cli>>

ComposerFinishes ==
    /\ composer.state \in {"sent", "limit", "failed"} /\ ~composer.finished
    /\ composer' = [composer EXCEPT !.finished = TRUE]
    /\ UNCHANGED <<globalVars, mainVars, pc, pause_mine, wait_for_confirmation, saw_syncing, guesser,
                   mining_status, to_miner, to_main, history, events, cli>>
------------------------------------------------------------------------------
(* The end of a round of the loop drops the tasks of the round.  `rest' is *)
(* what remains in the channel from the main loop.                         *)
NextRound(stop, rest) ==
    /\ pc' = "top" /\ guesser' = None /\ composer' = NoComposer
    /\ mining_status' = IF stop THEN "Inactive" ELSE mining_status
    /\ to_miner' = rest
    /\ UNCHANGED saw_syncing

(* To stop a composer whose last cancel receiver is gone is an error that  *)
(* ends the mining task.  The guesser is stopped before the composer.      *)
CancelFails == composer.state # "proving" /\ ~composer.finished

StopComposing(stop_guessing, rest) ==
    IF CancelFails THEN MinerEnds(stop_guessing) ELSE NextRound(TRUE, rest)

(* A send to the main loop waits for room in the channel.                  *)
SendToMain(type, b) ==
    /\ Len(to_main) < Capacity
    /\ to_main' = Append(to_main, [type |-> type, block |-> b])

Select == pc = "select"

RestartGuessing ==
    /\ Select /\ guesser # None
    /\ NextRound(FALSE, to_miner)
    /\ UNCHANGED <<globalVars, mainVars, pause_mine, wait_for_confirmation, to_main, history, events, cli>>

(* The join handle of the composer gives an error.                         *)
ComposerTaskFailed ==
    /\ Select /\ composer.finished
    /\ \/ /\ composer.state = "limit"
          /\ pause_mine' = TRUE
          /\ UNCHANGED to_main
       \/ /\ composer.state = "failed"
          /\ SendToMain("Shutdown", tip)
          /\ UNCHANGED pause_mine
    /\ NextRound(TRUE, to_miner)
    /\ UNCHANGED <<globalVars, mainVars, wait_for_confirmation, history, events, cli>>

(* The channel from the composer gives a block, or turns out to be closed. *)
NewComposition ==
    /\ Select
    /\ \/ /\ composer.state = "sent"
          /\ SendToMain("BlockProposal", composer.on)
          /\ wait_for_confirmation' = TRUE
       \/ /\ composer.state \in {"limit", "failed"}
          /\ UNCHANGED <<to_main, wait_for_confirmation>>
    /\ StopComposing(FALSE, to_miner)
    /\ UNCHANGED <<globalVars, mainVars, pause_mine, history, events, cli>>

(* `guess_worker' can turn its proposal into b.                            *)
Guesses(b) == guesser # None /\ b # Genesis /\ Prev(b) = guesser

(* The guesser's block is checked against the tip; it may also be invalid  *)
(* because it comes too soon after its predecessor.                        *)
NewBlockGuessed(b) ==
    /\ Select /\ Guesses(b)
    /\ \/ /\ guesser = tip
          /\ SendToMain("NewBlockFound", b)
          /\ wait_for_confirmation' = TRUE
       \/ UNCHANGED <<to_main, wait_for_confirmation>>
    /\ NextRound(TRUE, to_miner)
    /\ UNCHANGED <<globalVars, mainVars, pause_mine, history, events, cli>>

Stops(m) == m \in {"NewBlock", "NewBlockProposal", "WaitForContinue",
                   "StopMining", "StartSyncing"}

ReceiveFromMain ==
    /\ Select /\ to_miner # <<>>
    /\ LET m == Head(to_miner) IN
       /\ wait_for_confirmation' = CASE m = "WaitForContinue" -> TRUE
                                     [] m = "Continue" -> FALSE
                                     [] OTHER -> wait_for_confirmation
       /\ pause_mine' = CASE m = "StopMining"  -> TRUE
                          [] m = "StartMining" -> FALSE
                          [] OTHER -> pause_mine
       /\ CASE m = "Shutdown" -> MinerEnds(TRUE)
            [] Stops(m) -> StopComposing(TRUE, Tail(to_miner))
            [] OTHER -> NextRound(FALSE, Tail(to_miner))
    /\ UNCHANGED <<globalVars, mainVars, to_main, history, events, cli>>
------------------------------------------------------------------------------
MainStep ==
    \/ HandleMinerMessage \/ UpdateDone \/ PeerBlockProposal \/ ProofOfWorkSolution

MinerStep ==
    \/ LoopTop \/ SpawnWork
    \/ RestartGuessing \/ ComposerTaskFailed \/ NewComposition \/ ReceiveFromMain
    \/ \E b \in Blocks : NewBlockGuessed(b)

ComposerTask ==
    \/ \E state \in {"sent", "limit", "failed"} : ComposerStep(state)
    \/ ComposerFinishes

Outside ==
    \/ \E b \in Blocks, left \in BOOLEAN : NewBlocks(b, left)
    \/ \E p \in Proposals : PeerLoopBlockProposal(p)
    \/ PowPuzzle \/ PowPuzzleInner
    \/ \E p \in exported_block_proposals, b \in Blocks : ProvidePowSolution(p, b)
    \/ PauseMiner \/ RestartMiner
    \/ EnterSyncMode \/ AbandonSyncMode \/ PeerMapChanges
    \/ GracefulShutdown

Next == MainStep \/ MinerStep \/ ComposerTask \/ Outside \/ UpdateDies \/ AbortTasks

(* The main loop and the miner are tasks of a runtime that polls every     *)
(* ready task, and the `select!' of each picks at random among the ready   *)
(* branches, so none of them is passed over for ever.  The composer ends   *)
(* one way or another, and so does the update task.                        *)
Fairness ==
    /\ WF_vars(HandleMinerMessage) /\ WF_vars(UpdateDone)
    /\ WF_vars(PeerBlockProposal) /\ WF_vars(ProofOfWorkSolution)
    /\ WF_vars(connected /\ LoopTop) /\ WF_vars(SpawnWork)
    /\ SF_vars(ReceiveFromMain)
    /\ WF_vars(ComposerTask) /\ WF_vars(AbortTasks)

Spec == Init /\ [][Next]_vars /\ Fairness
------------------------------------------------------------------------------
(* A Continue is among the messages of q and no order to wait follows it.  *)
ContinueIn(q) ==
    \E i \in 1..Len(q) :
        /\ q[i] = "Continue"
        /\ \A j \in (i + 1)..Len(q) : q[j] # "WaitForContinue"

WaitIn(q) == \E i \in 1..Len(q) : q[i] = "WaitForContinue"

(* A miner that waits for confirmation, or is about to, will be told to    *)
(* go on: the Continue is in its channel, or a message of its own or the   *)
(* end of the mempool update will bring it, unless the update task died or *)
(* the Continue was dropped because the channel was full.                  *)
WaitIsAnswered ==
    pc # "stopped" /\ main = "running" /\ (wait_for_confirmation \/ WaitIn(to_miner)) =>
        ContinueIn(to_miner) \/ to_main # <<>> \/ updater # "idle" \/ lost

(* A composer at work on a block that is no longer the tip is interrupted: *)
(* a message waits for the miner, or the mempool update that the new tip   *)
(* started will send one (or died).                                        *)
StaleCompositionIsInterrupted ==
    composer.state = "proving" /\ composer.on # tip => to_miner # <<>> \/ updater # "idle"

(* The wait does end, if there are peers (the loop reads no message while  *)
(* there are none).                                                        *)
WaitEnds ==
    wait_for_confirmation ~>
        \/ ~wait_for_confirmation
        \/ ~connected \/ pc = "stopped" \/ updater = "dead" \/ lost

Working == guesser # None \/ composer.state # "none"

(* A request to stop mining that found room in the channel stops all work  *)
(* until the next request to start.                                        *)
PauseIsHonoured == <>[](user_wants = "pause" /\ ~lost_stop) => <>[]~Working

==============================================================================
