--------------------------- MODULE MineLoopProofs ----------------------------
(***************************************************************************)
(* The safety properties of `MineLoop', for every tree of blocks, channel  *)
(* capacity, set of fees and number of outside events.                     *)
(***************************************************************************)
EXTENDS MineLoop, TLAPS

(* What a send to the miner leaves in the channel.                         *)
LEMMA SendType ==
    ASSUME NEW q \in Seq(MainToMiner), Len(q) <= Capacity, NEW m \in MainToMiner
    PROVE  /\ Send(q, m) \in Seq(MainToMiner)
           /\ Len(Send(q, m)) <= Capacity
           /\ q # <<>> => Send(q, m) # <<>>
           /\ pc # "stopped" => Send(q, m) # <<>>
  <1>1. CASE Fits(q)
    BY <1>1, MineLoopAssumption DEF Send, Fits
  <1>2. CASE ~Fits(q)
    BY <1>2, MineLoopAssumption DEF Send, Fits
  <1> QED BY <1>1, <1>2

(* So a send keeps the types of what it writes.                            *)
LEMMA SendToMinerType ==
    ASSUME TypeOK, NEW m \in MainToMiner, SendToMiner(m)
    PROVE  /\ to_miner' \in Seq(MainToMiner) /\ Len(to_miner') <= Capacity
           /\ lost' \in BOOLEAN /\ lost_stop' \in BOOLEAN
  <1>1. to_miner' \in Seq(MainToMiner) /\ Len(to_miner') <= Capacity
    BY SendType DEF TypeOK, SendToMiner
  <1>2. lost' \in BOOLEAN /\ lost_stop' \in BOOLEAN
    BY DEF TypeOK, SendToMiner, Fits
  <1> QED BY <1>1, <1>2

(* A new tip from a peer: up to three messages, each of which may be lost. *)
LEMMA NewBlocksType ==
    ASSUME TypeOK, NEW b \in Blocks, NEW left \in BOOLEAN, NewBlocks(b, left)
    PROVE  TypeOK'
  <1> DEFINE waiting == Send(to_miner, "WaitForContinue")
             synced  == IF left THEN Send(waiting, "StopSyncing") ELSE waiting
  <1>1. waiting \in Seq(MainToMiner) /\ Len(waiting) <= Capacity
    BY SendType DEF TypeOK, MainToMiner
  <1> HIDE DEF waiting
  <1>2. synced \in Seq(MainToMiner) /\ Len(synced) <= Capacity
    BY <1>1, SendType DEF MainToMiner
  <1> HIDE DEF synced
  <1>3. Send(synced, "NewBlock") \in Seq(MainToMiner) /\ Len(Send(synced, "NewBlock")) <= Capacity
    BY <1>2, SendType DEF MainToMiner
  <1>4. to_miner' = Send(synced, "NewBlock")
    BY DEF NewBlocks, synced, waiting
  <1>5. events' \in 0..MaxEvents
    BY MineLoopAssumption DEF NewBlocks, External, TypeOK
  <1> QED BY <1>3, <1>4, <1>5
          DEF TypeOK, NewBlocks, External, AdoptTip, minerVars, history

(* A block of the node's own, adopted or not.                              *)
LEMMA SelfGuessedType ==
    ASSUME TypeOK, NEW b \in Blocks, HandleSelfGuessedBlock(b)
    PROVE  /\ tip' \in Blocks
           /\ block_proposal' \in Proposals \cup {None}
           /\ exported_block_proposals' \subseteq Proposals
           /\ updater' \in {"idle", "running", "dead"}
           /\ to_miner' \in Seq(MainToMiner) /\ Len(to_miner') <= Capacity
           /\ lost' \in BOOLEAN /\ lost_stop' \in BOOLEAN
  <1>1. CASE MoreCanonical(tip, b)
    BY <1>1 DEF HandleSelfGuessedBlock, AdoptTip, TypeOK
  <1>2. CASE ~MoreCanonical(tip, b)
    <2>1. /\ SendToMiner("Continue")
          /\ UNCHANGED <<tip, block_proposal, exported_block_proposals, updater>>
      BY <1>2 DEF HandleSelfGuessedBlock
    <2> QED BY <2>1, SendToMinerType DEF TypeOK, MainToMiner
  <1> QED BY <1>1, <1>2

(* The end of the main loop.                                               *)
LEMMA LoopEndsType ==
    ASSUME TypeOK, LoopEnds
    PROVE  /\ main' \in {"running", "stopped"} /\ updater' \in {"idle", "running", "dead"}
           /\ to_main' \in Seq(MinerToMain) /\ Len(to_main') <= Capacity
           /\ from_peer' \in Proposals \cup {None} /\ puzzle' \in Proposals \cup {None}
           /\ solution' \in Blocks \cup {None}
           /\ to_miner' \in Seq(MainToMiner) /\ Len(to_miner') <= Capacity
           /\ lost' \in BOOLEAN /\ lost_stop' \in BOOLEAN
  <1>1. /\ to_miner' \in Seq(MainToMiner) /\ Len(to_miner') <= Capacity
        /\ lost' \in BOOLEAN /\ lost_stop' \in BOOLEAN
    BY SendToMinerType DEF LoopEnds, MainToMiner
  <1>2. <<>> \in Seq(MinerToMain) /\ Len(<<>>) <= Capacity
    BY MineLoopAssumption
  <1> QED BY <1>1, <1>2 DEF LoopEnds

(* Messages from the miner.                                                *)
LEMMA MinerMessageType ==
    ASSUME TypeOK, HandleMinerMessage
    PROVE  TypeOK'
  <1> DEFINE m == Head(to_main)
  <1>1. /\ m \in MinerToMain /\ m.block \in Blocks
        /\ Tail(to_main) \in Seq(MinerToMain) /\ Len(Tail(to_main)) <= Capacity
    <2>1. to_main \in Seq(MinerToMain) /\ to_main # <<>> /\ Len(to_main) <= Capacity
      BY DEF HandleMinerMessage, TypeOK
    <2>2. /\ m \in MinerToMain /\ Tail(to_main) \in Seq(MinerToMain)
          /\ Len(Tail(to_main)) = Len(to_main) - 1
      BY <2>1
    <2> QED BY <2>1, <2>2, MineLoopAssumption DEF MinerToMain
  <1>2. UNCHANGED <<syncing, connected, minerVars, user_wants, events, cli>>
    BY DEF HandleMinerMessage
  <1> HIDE DEF m
  <1>3. CASE NewBlockFound(m)
    <2>1. HandleSelfGuessedBlock(m.block) /\ to_main' = Tail(to_main)
          /\ UNCHANGED <<main, from_peer, puzzle, solution>>
      BY <1>3 DEF NewBlockFound
    <2> QED BY <1>1, <1>2, <2>1, SelfGuessedType DEF TypeOK, minerVars
  <1>4. ASSUME NEW fee \in Fees, BlockProposal(m, fee) PROVE TypeOK'
    <2>1. /\ SendToMiner("Continue") /\ to_main' = Tail(to_main)
          /\ block_proposal' \in Proposals \cup {None}
          /\ UNCHANGED <<tip, exported_block_proposals, main, updater, from_peer, puzzle, solution>>
      BY <1>4 DEF BlockProposal, Proposals, TypeOK
    <2>2. /\ to_miner' \in Seq(MainToMiner) /\ Len(to_miner') <= Capacity
          /\ lost' \in BOOLEAN /\ lost_stop' \in BOOLEAN
      BY <2>1, SendToMinerType DEF MainToMiner
    <2> QED BY <1>1, <1>2, <2>1, <2>2 DEF TypeOK, minerVars
  <1>5. CASE MinerShutdown(m)
    <2>1. LoopEnds /\ UNCHANGED <<tip, block_proposal, exported_block_proposals>>
      BY <1>5 DEF MinerShutdown
    <2> QED BY <1>2, <2>1, LoopEndsType DEF TypeOK, minerVars
  <1> QED BY <1>3, <1>4, <1>5 DEF HandleMinerMessage, m

(* Steps of the main loop keep the types.                                  *)
LEMMA MainStepType ==
    ASSUME TypeOK, MainStep
    PROVE  TypeOK'
  <1>1. CASE HandleMinerMessage
    BY <1>1, MinerMessageType
  <1>2. CASE UpdateDone
    <2>1. SendToMiner("Continue")
      BY <1>2 DEF UpdateDone
    <2> QED BY <1>2, <2>1, SendToMinerType
            DEF UpdateDone, TypeOK, globalVars, minerVars, MainToMiner
  <1>3. CASE PeerBlockProposal
    <2>1. CASE Favor(from_peer)
      <3>1. SendToMiner("NewBlockProposal") /\ block_proposal' = from_peer
        BY <1>3, <2>1 DEF PeerBlockProposal
      <3> QED BY <1>3, <3>1, SendToMinerType
              DEF PeerBlockProposal, TypeOK, minerVars, MainToMiner
    <2>2. CASE ~Favor(from_peer)
      BY <1>3, <2>2 DEF PeerBlockProposal, TypeOK, minerVars
    <2> QED BY <2>1, <2>2
  <1>4. CASE ProofOfWorkSolution
    <2>1. solution \in Blocks /\ HandleSelfGuessedBlock(solution)
      BY <1>4 DEF ProofOfWorkSolution, TypeOK
    <2> QED BY <1>4, <2>1, SelfGuessedType DEF ProofOfWorkSolution, TypeOK, minerVars
  <1> QED BY <1>1, <1>2, <1>3, <1>4 DEF MainStep

(* Events from outside keep the types.                                     *)
LEMMA OutsideType ==
    ASSUME TypeOK, Outside
    PROVE  TypeOK'
  <1>1. ASSUME External PROVE events' \in 0..MaxEvents /\ cli' = cli
    BY <1>1, MineLoopAssumption DEF External, TypeOK
  <1>2. ASSUME NEW b \in Blocks, NEW left \in BOOLEAN, NewBlocks(b, left) PROVE TypeOK'
    BY <1>2, NewBlocksType
  <1>3. ASSUME NEW p \in Proposals, PeerLoopBlockProposal(p) PROVE TypeOK'
    BY <1>1, <1>3 DEF PeerLoopBlockProposal, TypeOK, globalVars, minerVars, history
  <1>4. CASE PowPuzzle
    BY <1>1, <1>4 DEF PowPuzzle, TypeOK, globalVars, minerVars, history
  <1>5. CASE PowPuzzleInner
    BY <1>5 DEF PowPuzzleInner, TypeOK, minerVars, history
  <1>6. ASSUME NEW p \in exported_block_proposals, NEW b \in Blocks, ProvidePowSolution(p, b)
        PROVE  TypeOK'
    BY <1>1, <1>6 DEF ProvidePowSolution, TypeOK, globalVars, minerVars, history
  <1>7. ASSUME NEW wants \in {"run", "pause"}, NEW m \in MainToMiner, MiningRequest(wants, m)
        PROVE  TypeOK'
    BY <1>1, <1>7, SendToMinerType DEF MiningRequest, TypeOK, globalVars, mainVars, minerVars
  <1>8. CASE PauseMiner \/ RestartMiner
    BY <1>7, <1>8 DEF PauseMiner, RestartMiner, MainToMiner
  <1>9. CASE EnterSyncMode
    <2>1. SendToMiner("StartSyncing") /\ External
      BY <1>9 DEF EnterSyncMode
    <2> QED BY <1>1, <1>9, <2>1, SendToMinerType
            DEF EnterSyncMode, TypeOK, mainVars, minerVars, MainToMiner
  <1>10. CASE AbandonSyncMode
    <2>1. syncing' \in BOOLEAN
      BY <1>10 DEF AbandonSyncMode
    <2>2. External /\ UNCHANGED <<tip, block_proposal, exported_block_proposals, connected, mainVars,
                                  minerVars, to_miner, to_main, history>>
      BY <1>10 DEF AbandonSyncMode
    <2> QED BY <1>1, <2>1, <2>2 DEF TypeOK, mainVars, minerVars, history
  <1>12. CASE PeerMapChanges
    <2>1. connected' \in BOOLEAN
      BY <1>12 DEF PeerMapChanges, TypeOK
    <2>2. External /\ UNCHANGED <<tip, block_proposal, exported_block_proposals, syncing, mainVars,
                                  minerVars, to_miner, to_main, history>>
      BY <1>12 DEF PeerMapChanges
    <2> QED BY <1>1, <2>1, <2>2 DEF TypeOK, mainVars, minerVars, history
  <1>11. CASE GracefulShutdown
    <2>1. LoopEnds /\ External /\ UNCHANGED <<globalVars, minerVars, user_wants>>
      BY <1>11 DEF GracefulShutdown
    <2> QED BY <1>1, <2>1, LoopEndsType DEF TypeOK, globalVars, minerVars
  <1> QED BY <1>2, <1>3, <1>4, <1>5, <1>6, <1>8, <1>9, <1>10, <1>11, <1>12 DEF Outside

(* The miner's own variables at the end of a round, and of the task.       *)
LEMMA RoundType ==
    ASSUME TypeOK, NEW rest \in Seq(MainToMiner), Len(rest) <= Capacity,
           \E stop \in BOOLEAN :
               MinerEnds(stop) \/ StopComposing(stop, rest) \/ NextRound(stop, rest)
    PROVE  /\ pc' \in {"top", "stopped"} /\ guesser' = None /\ composer' = NoComposer
           /\ composer' \in Composer
           /\ mining_status' \in {"Inactive", "Guessing", "Composing"}
           /\ saw_syncing' = saw_syncing
           /\ to_miner' \in Seq(MainToMiner) /\ Len(to_miner') <= Capacity
           /\ pc' = "top" => to_miner' = rest
  <1>1. <<>> \in Seq(MainToMiner) /\ Len(<<>>) <= Capacity /\ NoComposer \in Composer
    BY MineLoopAssumption DEF NoComposer, Composer
  <1>2. ASSUME NEW stop \in BOOLEAN, MinerEnds(stop)
        PROVE  /\ pc' = "stopped" /\ guesser' = None /\ composer' = NoComposer
               /\ mining_status' \in {"Inactive", "Guessing", "Composing"}
               /\ saw_syncing' = saw_syncing /\ to_miner' = <<>>
    BY <1>2 DEF MinerEnds, TypeOK
  <1>3. ASSUME NEW stop \in BOOLEAN, NextRound(stop, rest)
        PROVE  /\ pc' = "top" /\ guesser' = None /\ composer' = NoComposer
               /\ mining_status' \in {"Inactive", "Guessing", "Composing"}
               /\ saw_syncing' = saw_syncing /\ to_miner' = rest
    BY <1>3 DEF NextRound, TypeOK
  <1>4. ASSUME NEW stop \in BOOLEAN, StopComposing(stop, rest)
        PROVE  MinerEnds(stop) \/ NextRound(TRUE, rest)
    BY <1>4 DEF StopComposing
  <1> QED BY <1>1, <1>2, <1>3, <1>4

(* Steps of the mining task keep the types.                                *)
LEMMA MinerStepType ==
    ASSUME TypeOK, MinerStep
    PROVE  TypeOK'
  <1>1. CASE LoopTop
    BY <1>1 DEF LoopTop, TypeOK, globalVars, mainVars, history
  <1>2. CASE SpawnWork
    <2>1. guesser' \in Blocks \cup {None}
      BY <1>2 DEF SpawnWork, ShouldGuess, TypeOK, Proposals
    <2>2. composer' \in Composer
      BY <1>2 DEF SpawnWork, TypeOK, Composer, NoComposer
    <2>3. mining_status' \in {"Inactive", "Guessing", "Composing"}
      BY <1>2 DEF SpawnWork, TypeOK
    <2>4. /\ pc' = "select"
          /\ UNCHANGED <<globalVars, mainVars, pause_mine, wait_for_confirmation, saw_syncing,
                         to_miner, to_main, history, events, cli>>
      BY <1>2 DEF SpawnWork
    <2> QED BY <2>1, <2>2, <2>3, <2>4 DEF TypeOK, globalVars, mainVars, history
  <1>3. ASSUME NEW type \in {"NewBlockFound", "BlockProposal", "Shutdown"}, NEW b \in Blocks,
               SendToMain(type, b)
        PROVE  to_main' \in Seq(MinerToMain) /\ Len(to_main') <= Capacity
    <2>1. [type |-> type, block |-> b] \in MinerToMain
      BY DEF MinerToMain
    <2> QED BY <1>3, <2>1, MineLoopAssumption DEF SendToMain, TypeOK
  <1>4. ASSUME NEW rest \in Seq(MainToMiner), Len(rest) <= Capacity,
               \E stop \in BOOLEAN :
                   MinerEnds(stop) \/ StopComposing(stop, rest) \/ NextRound(stop, rest),
               to_main' \in Seq(MinerToMain), Len(to_main') <= Capacity,
               pause_mine' \in BOOLEAN, wait_for_confirmation' \in BOOLEAN,
               UNCHANGED <<globalVars, mainVars, history, events, cli>>
        PROVE  TypeOK'
    BY <1>4, RoundType DEF TypeOK, globalVars, mainVars, history
  <1>5. to_miner \in Seq(MainToMiner) /\ Len(to_miner) <= Capacity
    BY DEF TypeOK
  <1>6. CASE RestartGuessing
    BY <1>4, <1>5, <1>6 DEF RestartGuessing, TypeOK
  <1>7. CASE ComposerTaskFailed
    <2>1. to_main' \in Seq(MinerToMain) /\ Len(to_main') <= Capacity /\ pause_mine' \in BOOLEAN
      BY <1>3, <1>7 DEF ComposerTaskFailed, TypeOK
    <2> QED BY <1>4, <1>5, <1>7, <2>1 DEF ComposerTaskFailed, TypeOK
  <1>8. CASE NewComposition
    <2>1. CASE composer.state = "sent"
      <3>1. composer.on \in Blocks
        BY <2>1 DEF TypeOK, Composer, NoComposer
      <3>2. SendToMain("BlockProposal", composer.on) /\ wait_for_confirmation' = TRUE
        BY <1>8, <2>1 DEF NewComposition
      <3>3. to_main' \in Seq(MinerToMain) /\ Len(to_main') <= Capacity
        BY <1>3, <3>1, <3>2
      <3> QED BY <1>4, <1>5, <1>8, <3>2, <3>3 DEF NewComposition, TypeOK
    <2>2. CASE composer.state # "sent"
      <3>1. UNCHANGED <<to_main, wait_for_confirmation>>
        BY <1>8, <2>2 DEF NewComposition
      <3> QED BY <1>4, <1>5, <1>8, <3>1 DEF NewComposition, TypeOK
    <2> QED BY <2>1, <2>2
  <1>9. ASSUME NEW b \in Blocks, NewBlockGuessed(b) PROVE TypeOK'
    <2>1. to_main' \in Seq(MinerToMain) /\ Len(to_main') <= Capacity
      BY <1>3, <1>9 DEF NewBlockGuessed, TypeOK
    <2>2. wait_for_confirmation' \in BOOLEAN
      BY <1>9 DEF NewBlockGuessed, TypeOK
    <2> QED BY <1>4, <1>5, <1>9, <2>1, <2>2 DEF NewBlockGuessed, TypeOK
  <1>10. CASE ReceiveFromMain
    <2>1. Tail(to_miner) \in Seq(MainToMiner) /\ Len(Tail(to_miner)) <= Capacity
      <3>1. Tail(to_miner) \in Seq(MainToMiner) /\ Len(Tail(to_miner)) = Len(to_miner) - 1
        BY <1>5, <1>10 DEF ReceiveFromMain
      <3> QED BY <1>5, <3>1, MineLoopAssumption
    <2>2. wait_for_confirmation' \in BOOLEAN /\ pause_mine' \in BOOLEAN
      BY <1>10 DEF ReceiveFromMain, TypeOK
    <2>3. \E stop \in BOOLEAN : \/ MinerEnds(stop) \/ StopComposing(stop, Tail(to_miner))
                                 \/ NextRound(stop, Tail(to_miner))
      BY <1>10 DEF ReceiveFromMain
    <2> QED BY <1>4, <1>10, <2>1, <2>2, <2>3 DEF ReceiveFromMain, TypeOK
  <1> QED BY <1>1, <1>2, <1>6, <1>7, <1>8, <1>9, <1>10 DEF MinerStep

(* Every step keeps the types.                                             *)
LEMMA StepType ==
    ASSUME TypeOK, [Next]_vars
    PROVE  TypeOK'
  <1>1. CASE UNCHANGED vars
    BY <1>1 DEF vars, TypeOK, globalVars, mainVars, minerVars, history
  <1>2. CASE ComposerTask
    <2>1. composer' \in Composer
      <3>1. composer # NoComposer
        BY <1>2 DEF ComposerTask, ComposerStep, ComposerFinishes, NoComposer
      <3>2. composer \in [state : {"proving", "sent", "limit", "failed"}, on : Blocks,
                          finished : BOOLEAN]
        BY <3>1 DEF TypeOK, Composer
      <3>3. ASSUME NEW state \in {"sent", "limit", "failed"}, ComposerStep(state)
            PROVE  composer' \in Composer
        BY <3>2, <3>3 DEF ComposerStep, Composer
      <3>4. CASE ComposerFinishes
        BY <3>2, <3>4 DEF ComposerFinishes, Composer
      <3> QED BY <1>2, <3>3, <3>4 DEF ComposerTask
    <2>2. UNCHANGED <<globalVars, mainVars, pc, pause_mine, wait_for_confirmation, saw_syncing, guesser,
                      mining_status, to_miner, to_main, history, events, cli>>
      BY <1>2 DEF ComposerTask, ComposerStep, ComposerFinishes
    <2> QED BY <2>1, <2>2 DEF TypeOK, globalVars, mainVars, history
  <1>3. CASE UpdateDies
    BY <1>3 DEF UpdateDies, TypeOK, globalVars, minerVars, history
  <1>4. CASE AbortTasks
    <2>1. MinerEnds(FALSE)
      BY <1>4 DEF AbortTasks
    <2>2. to_miner \in Seq(MainToMiner) /\ Len(to_miner) <= Capacity
      BY DEF TypeOK
    <2>3. \E stop \in BOOLEAN :
              MinerEnds(stop) \/ StopComposing(stop, to_miner) \/ NextRound(stop, to_miner)
      BY <2>1
    <2>4. /\ pc' \in {"top", "stopped"} /\ guesser' = None /\ composer' \in Composer
          /\ mining_status' \in {"Inactive", "Guessing", "Composing"} /\ saw_syncing' = saw_syncing
          /\ to_miner' \in Seq(MainToMiner) /\ Len(to_miner') <= Capacity
      BY <2>2, <2>3, RoundType
    <2> QED BY <1>4, <2>4 DEF AbortTasks, TypeOK, globalVars, mainVars, history
  <1> QED BY <1>1, <1>2, <1>3, <1>4, MainStepType, MinerStepType, OutsideType DEF Next

(* Every value stays in its type, and neither channel between the main     *)
(* loop and the miner grows past its capacity.                             *)
THEOREM MineLoopTypeCorrect == Spec => []TypeOK
  <1>1. Init => TypeOK
    <2> SUFFICES ASSUME Init PROVE TypeOK
      OBVIOUS
    <2>1. /\ to_miner \in Seq(MainToMiner) /\ Len(to_miner) <= Capacity
          /\ to_main \in Seq(MinerToMain) /\ Len(to_main) <= Capacity
      BY MineLoopAssumption DEF Init
    <2>2. composer \in Composer
      BY DEF Init, Composer
    <2>3. events \in 0..MaxEvents
      BY MineLoopAssumption DEF Init
    <2> QED BY <2>1, <2>2, <2>3, ChainAssumption DEF Init, TypeOK
  <1> QED BY <1>1, StepType, PTL DEF Spec
------------------------------------------------------------------------------
(* A Continue that is sent last, and one that another message follows.     *)
LEMMA AppendMessage ==
    ASSUME NEW q \in Seq(MainToMiner), NEW m \in MainToMiner
    PROVE  /\ m = "Continue" => ContinueIn(Append(q, m))
           /\ m # "WaitForContinue" /\ ContinueIn(q) => ContinueIn(Append(q, m))
           /\ m # "WaitForContinue" /\ WaitIn(Append(q, m)) => WaitIn(q)
  <1> DEFINE r == Append(q, m)
  <1>1. /\ Len(r) = Len(q) + 1 /\ r[Len(r)] = m /\ Len(q) \in Nat
        /\ \A i \in 1..Len(q) : r[i] = q[i]
    OBVIOUS
  <1> HIDE DEF r
  <1>2. ASSUME m = "Continue" PROVE ContinueIn(r)
    BY <1>1, <1>2 DEF ContinueIn
  <1>3. ASSUME m # "WaitForContinue", ContinueIn(q) PROVE ContinueIn(r)
    <2>1. PICK i \in 1..Len(q) : /\ q[i] = "Continue"
                                 /\ \A j \in (i + 1)..Len(q) : q[j] # "WaitForContinue"
      BY <1>3 DEF ContinueIn
    <2>2. i \in 1..Len(r) /\ r[i] = "Continue"
      BY <1>1, <2>1
    <2>3. \A j \in (i + 1)..Len(r) : r[j] # "WaitForContinue"
      BY <1>1, <1>3, <2>1
    <2> QED BY <2>2, <2>3 DEF ContinueIn
  <1>4. ASSUME m # "WaitForContinue", WaitIn(r) PROVE WaitIn(q)
    BY <1>1, <1>4 DEF WaitIn
  <1> QED BY <1>2, <1>3, <1>4 DEF r

(* What the messages say once the first of them is taken.                  *)
LEMMA TakeMessage ==
    ASSUME NEW q \in Seq(MainToMiner), q # <<>>
    PROVE  /\ Head(q) = "WaitForContinue" => WaitIn(q)
           /\ WaitIn(Tail(q)) => WaitIn(q)
           /\ ContinueIn(q) /\ (Head(q) # "Continue" \/ WaitIn(Tail(q))) => ContinueIn(Tail(q))
  <1> DEFINE r == Tail(q)
  <1>1. /\ Len(r) = Len(q) - 1 /\ Len(q) \in Nat \ {0} /\ Head(q) = q[1]
        /\ \A i \in 1..Len(r) : r[i] = q[i + 1]
    OBVIOUS
  <1> HIDE DEF r
  <1>2. ASSUME Head(q) = "WaitForContinue" PROVE WaitIn(q)
    BY <1>1, <1>2 DEF WaitIn
  <1>3. ASSUME WaitIn(r) PROVE WaitIn(q)
    <2>1. PICK i \in 1..Len(r) : r[i] = "WaitForContinue"
      BY <1>3 DEF WaitIn
    <2>2. i + 1 \in 1..Len(q) /\ q[i + 1] = "WaitForContinue"
      BY <1>1, <2>1
    <2> QED BY <2>2 DEF WaitIn
  <1>4. ASSUME ContinueIn(q), Head(q) # "Continue" \/ WaitIn(r) PROVE ContinueIn(r)
    <2>1. PICK i \in 1..Len(q) : /\ q[i] = "Continue"
                                 /\ \A j \in (i + 1)..Len(q) : q[j] # "WaitForContinue"
      BY <1>4 DEF ContinueIn
    <2>2. i # 1
      <3>1. ASSUME i = 1, WaitIn(r) PROVE FALSE
        <4>1. PICK k \in 1..Len(r) : r[k] = "WaitForContinue"
          BY <3>1 DEF WaitIn
        <4>2. k + 1 \in (i + 1)..Len(q) /\ q[k + 1] = "WaitForContinue"
          BY <1>1, <3>1, <4>1
        <4> QED BY <2>1, <4>2
      <3> QED BY <1>1, <1>4, <2>1, <3>1
    <2>3. i - 1 \in 1..Len(r) /\ r[i - 1] = "Continue"
      BY <1>1, <2>1, <2>2
    <2>4. \A j \in ((i - 1) + 1)..Len(r) : r[j] # "WaitForContinue"
      BY <1>1, <2>1, <2>2
    <2> QED BY <2>3, <2>4 DEF ContinueIn
  <1> QED BY <1>2, <1>3, <1>4 DEF r

(* A Continue that is sent arrives or is noted as lost; another message    *)
(* takes nothing back.                                                     *)
LEMMA SendAnswers ==
    ASSUME TypeOK, NEW m \in MainToMiner \ {"WaitForContinue"}, SendToMiner(m)
    PROVE  /\ m = "Continue" => ContinueIn(to_miner') \/ lost'
           /\ m # "Continue" => lost' = lost
           /\ ContinueIn(to_miner) => ContinueIn(to_miner')
           /\ WaitIn(to_miner') => WaitIn(to_miner)
  <1>1. to_miner \in Seq(MainToMiner)
    BY DEF TypeOK
  <1>2. CASE Fits(to_miner)
    <2>1. to_miner' = Append(to_miner, m)
      BY <1>2 DEF SendToMiner, Send
    <2> QED BY <1>1, <2>1, AppendMessage DEF SendToMiner
  <1>3. CASE ~Fits(to_miner)
    <2>1. to_miner' = to_miner /\ (m = "Continue" => lost')
      BY <1>3 DEF SendToMiner, Send
    <2> QED BY <2>1 DEF SendToMiner
  <1> QED BY <1>2, <1>3

(* The main loop's own steps keep the answer to a wait in sight.           *)
LEMMA MainStepAnswers ==
    ASSUME TypeOK, WaitIsAnswered, MainStep
    PROVE  WaitIsAnswered'
  <1>1. ASSUME SendToMiner("Continue") PROVE WaitIsAnswered'
    BY <1>1, SendAnswers DEF MainToMiner, WaitIsAnswered
  <1>2. ASSUME NEW b \in Blocks, HandleSelfGuessedBlock(b) PROVE WaitIsAnswered'
    <2>1. CASE MoreCanonical(tip, b)
      BY <1>2, <2>1 DEF HandleSelfGuessedBlock, AdoptTip, WaitIsAnswered
    <2>2. CASE ~MoreCanonical(tip, b)
      BY <1>1, <1>2, <2>2 DEF HandleSelfGuessedBlock
    <2> QED BY <2>1, <2>2
  <1>3. CASE HandleMinerMessage
    <2>1. Head(to_main) \in MinerToMain /\ Head(to_main).block \in Blocks
      <3>1. to_main \in Seq(MinerToMain) /\ to_main # <<>>
        BY <1>3 DEF HandleMinerMessage, TypeOK
      <3>2. Head(to_main) \in MinerToMain
        BY <3>1
      <3> QED BY <3>2 DEF MinerToMain
    <2>2. CASE NewBlockFound(Head(to_main))
      BY <1>2, <2>1, <2>2 DEF NewBlockFound
    <2>3. ASSUME NEW fee \in Fees, BlockProposal(Head(to_main), fee) PROVE WaitIsAnswered'
      BY <1>1, <2>3 DEF BlockProposal
    <2>4. CASE MinerShutdown(Head(to_main))
      BY <2>4 DEF MinerShutdown, LoopEnds, WaitIsAnswered
    <2> QED BY <1>3, <2>2, <2>3, <2>4 DEF HandleMinerMessage
  <1>4. CASE UpdateDone
    BY <1>1, <1>4 DEF UpdateDone
  <1>5. CASE PeerBlockProposal
    <2>1. CASE Favor(from_peer)
      <3>1. SendToMiner("NewBlockProposal")
        BY <1>5, <2>1 DEF PeerBlockProposal
      <3> QED BY <1>5, <3>1, SendAnswers DEF MainToMiner, PeerBlockProposal, minerVars, WaitIsAnswered
    <2>2. CASE ~Favor(from_peer)
      BY <1>5, <2>2 DEF PeerBlockProposal, minerVars, WaitIsAnswered
    <2> QED BY <2>1, <2>2
  <1>6. CASE ProofOfWorkSolution
    BY <1>2, <1>6 DEF ProofOfWorkSolution, TypeOK
  <1> QED BY <1>3, <1>4, <1>5, <1>6 DEF MainStep

(* So do events from outside.                                              *)
LEMMA OutsideAnswers ==
    ASSUME TypeOK, WaitIsAnswered, Outside
    PROVE  WaitIsAnswered'
  <1>1. ASSUME NEW b \in Blocks, NEW left \in BOOLEAN, NewBlocks(b, left) PROVE WaitIsAnswered'
    BY <1>1 DEF NewBlocks, AdoptTip, WaitIsAnswered
  <1>2. ASSUME UNCHANGED <<mainVars, minerVars, to_main>>,
               NEW m \in MainToMiner \ {"WaitForContinue", "Continue"}, SendToMiner(m)
        PROVE  WaitIsAnswered'
    BY <1>2, SendAnswers DEF mainVars, minerVars, WaitIsAnswered
  <1>3. CASE PauseMiner \/ RestartMiner
    BY <1>2, <1>3 DEF PauseMiner, RestartMiner, MiningRequest, MainToMiner
  <1>4. CASE EnterSyncMode
    BY <1>2, <1>4 DEF EnterSyncMode, MainToMiner
  <1>5. CASE GracefulShutdown
    BY <1>5 DEF GracefulShutdown, LoopEnds, WaitIsAnswered
  <1>6. ASSUME UNCHANGED <<main, updater, minerVars, to_miner, to_main, history>> PROVE WaitIsAnswered'
    BY <1>6 DEF minerVars, history, WaitIsAnswered
  <1>7. ASSUME NEW p \in Proposals, PeerLoopBlockProposal(p) PROVE WaitIsAnswered'
    BY <1>6, <1>7 DEF PeerLoopBlockProposal
  <1>8. ASSUME NEW p \in exported_block_proposals, NEW b \in Blocks, ProvidePowSolution(p, b)
        PROVE  WaitIsAnswered'
    BY <1>6, <1>8 DEF ProvidePowSolution
  <1>9. CASE PowPuzzle \/ PowPuzzleInner \/ AbandonSyncMode \/ PeerMapChanges
    BY <1>6, <1>9 DEF PowPuzzle, PowPuzzleInner, AbandonSyncMode, PeerMapChanges, mainVars
  <1> QED BY <1>1, <1>3, <1>4, <1>5, <1>7, <1>8, <1>9 DEF Outside

(* So do the miner's own: a wait that it starts itself is for an answer to *)
(* the message it sends, and a Continue is never used up before the order  *)
(* to wait that it answers.                                                *)
LEMMA MinerStepAnswers ==
    ASSUME TypeOK, WaitIsAnswered, MinerStep
    PROVE  WaitIsAnswered'
  <1>1. to_miner \in Seq(MainToMiner) /\ Len(to_miner) <= Capacity /\ to_main \in Seq(MinerToMain)
    BY DEF TypeOK
  <1>2. ASSUME NEW type, NEW b, SendToMain(type, b) PROVE to_main' # <<>>
    BY <1>1, <1>2 DEF SendToMain
  <1>3. ASSUME to_main' # <<>> PROVE WaitIsAnswered'
    BY <1>3 DEF WaitIsAnswered
  <1>4. ASSUME pc # "stopped", UNCHANGED <<mainVars, to_main, wait_for_confirmation, history>>,
               pc' # "stopped" => to_miner' = to_miner
        PROVE  WaitIsAnswered'
    BY <1>4 DEF WaitIsAnswered, mainVars, history
  <1>5. ASSUME \E stop \in BOOLEAN : StopComposing(stop, to_miner) \/ NextRound(stop, to_miner)
        PROVE  pc' # "stopped" => to_miner' = to_miner
    BY <1>1, <1>5, RoundType
  <1>6. CASE LoopTop \/ SpawnWork
    BY <1>4, <1>6 DEF LoopTop, SpawnWork
  <1>7. CASE RestartGuessing
    BY <1>4, <1>5, <1>7 DEF RestartGuessing, Select
  <1>8. CASE ComposerTaskFailed
    <2>1. CASE composer.state = "limit"
      BY <1>4, <1>5, <1>8, <2>1 DEF ComposerTaskFailed, Select
    <2>2. CASE composer.state # "limit"
      BY <1>2, <1>3, <1>8, <2>2 DEF ComposerTaskFailed
    <2> QED BY <2>1, <2>2
  <1>9. CASE NewComposition
    <2>1. CASE composer.state = "sent"
      BY <1>2, <1>3, <1>9, <2>1 DEF NewComposition
    <2>2. CASE composer.state # "sent"
      BY <1>4, <1>5, <1>9, <2>2 DEF NewComposition, Select
    <2> QED BY <2>1, <2>2
  <1>10. ASSUME NEW b \in Blocks, NewBlockGuessed(b) PROVE WaitIsAnswered'
    <2>1. CASE UNCHANGED <<to_main, wait_for_confirmation>>
      BY <1>4, <1>5, <1>10, <2>1 DEF NewBlockGuessed, Select
    <2>2. CASE SendToMain("NewBlockFound", b)
      BY <1>2, <1>3, <2>2
    <2> QED BY <1>10, <2>1, <2>2 DEF NewBlockGuessed
  <1>11. CASE ReceiveFromMain
    <2> DEFINE m == Head(to_miner)
               rest == Tail(to_miner)
    <2>1. /\ rest \in Seq(MainToMiner) /\ Len(rest) <= Capacity
          /\ to_miner # <<>> /\ pc = "select"
      <3>1. to_miner # <<>> /\ pc = "select"
        BY <1>11 DEF ReceiveFromMain, Select
      <3>2. rest \in Seq(MainToMiner) /\ Len(rest) = Len(to_miner) - 1
        BY <1>1, <3>1
      <3> QED BY <1>1, <3>1, <3>2, MineLoopAssumption
    <2>2. \E stop \in BOOLEAN : MinerEnds(stop) \/ StopComposing(stop, rest) \/ NextRound(stop, rest)
      BY <1>11 DEF ReceiveFromMain
    <2> HIDE DEF rest
    <2>3. pc' \in {"top", "stopped"} /\ (pc' = "top" => to_miner' = rest)
      BY <2>1, <2>2, RoundType
    <2>4. wait_for_confirmation' = CASE m = "WaitForContinue" -> TRUE
                                     [] m = "Continue" -> FALSE
                                     [] OTHER -> wait_for_confirmation
      BY <1>11 DEF ReceiveFromMain
    <2>5. UNCHANGED <<mainVars, to_main, history>>
      BY <1>11 DEF ReceiveFromMain
    <2>6. /\ m = "WaitForContinue" => WaitIn(to_miner)
          /\ WaitIn(rest) => WaitIn(to_miner)
          /\ ContinueIn(to_miner) /\ (m # "Continue" \/ WaitIn(rest)) => ContinueIn(rest)
      BY <1>1, <2>1, TakeMessage DEF rest
    <2> HIDE DEF m
    <2>7. CASE m = "Continue"
      BY <2>1, <2>3, <2>4, <2>5, <2>6, <2>7 DEF WaitIsAnswered, mainVars, history
    <2>8. CASE m # "Continue"
      BY <2>1, <2>3, <2>4, <2>5, <2>6, <2>8 DEF WaitIsAnswered, mainVars, history
    <2> QED BY <2>7, <2>8
  <1> QED BY <1>6, <1>7, <1>8, <1>9, <1>10, <1>11 DEF MinerStep

(* A miner that waits is always answered, unless the task that updates the *)
(* mempool died or the answer met a full channel.                          *)
THEOREM MineLoopWaitIsAnswered == Spec => []WaitIsAnswered
  <1>1. Init => WaitIsAnswered
    BY DEF Init, WaitIsAnswered, WaitIn
  <1>2. TypeOK /\ WaitIsAnswered /\ [Next]_vars => WaitIsAnswered'
    <2> SUFFICES ASSUME TypeOK, WaitIsAnswered, [Next]_vars PROVE WaitIsAnswered'
      OBVIOUS
    <2>1. CASE UNCHANGED vars
      BY <2>1 DEF vars, mainVars, minerVars, history, WaitIsAnswered
    <2>2. CASE ComposerTask
      BY <2>2 DEF ComposerTask, ComposerStep, ComposerFinishes, mainVars, history, WaitIsAnswered
    <2>3. CASE UpdateDies
      BY <2>3 DEF UpdateDies, WaitIsAnswered
    <2>4. CASE AbortTasks
      BY <2>4 DEF AbortTasks, MinerEnds, WaitIsAnswered
    <2> QED BY <2>1, <2>2, <2>3, <2>4, MainStepAnswers, MinerStepAnswers, OutsideAnswers DEF Next
  <1> QED BY <1>1, <1>2, MineLoopTypeCorrect, PTL DEF Spec
------------------------------------------------------------------------------
(* The composer lives only while the miner is in its `select!', which is   *)
(* what makes a message sent to it arrive.                                 *)
ComposerSelects == composer.state # "none" => pc = "select"

(* What the main loop does to a stale composition.                         *)
LEMMA MainStepInterrupts ==
    ASSUME TypeOK, ComposerSelects, StaleCompositionIsInterrupted, MainStep
    PROVE  StaleCompositionIsInterrupted' /\ UNCHANGED minerVars
  <1>1. UNCHANGED minerVars
    BY DEF MainStep, HandleMinerMessage, UpdateDone, PeerBlockProposal, ProofOfWorkSolution
  <1>2. ASSUME NEW m \in MainToMiner, SendToMiner(m)
        PROVE  /\ to_miner # <<>> => to_miner' # <<>>
               /\ composer.state = "proving" => to_miner' # <<>>
    BY <1>2, SendType DEF SendToMiner, TypeOK, ComposerSelects
  <1>3. ASSUME NEW m \in MainToMiner, SendToMiner(m) PROVE StaleCompositionIsInterrupted'
    BY <1>1, <1>2, <1>3 DEF StaleCompositionIsInterrupted, minerVars
  <1>4. ASSUME NEW b, HandleSelfGuessedBlock(b) PROVE StaleCompositionIsInterrupted'
    <2>1. CASE MoreCanonical(tip, b)
      BY <1>4, <2>1 DEF HandleSelfGuessedBlock, AdoptTip, StaleCompositionIsInterrupted
    <2>2. CASE ~MoreCanonical(tip, b)
      BY <1>3, <1>4, <2>2 DEF HandleSelfGuessedBlock, MainToMiner
    <2> QED BY <2>1, <2>2
  <1>5. CASE HandleMinerMessage
    BY <1>3, <1>4, <1>5
       DEF HandleMinerMessage, NewBlockFound, BlockProposal, MinerShutdown, LoopEnds, MainToMiner
  <1>6. CASE UpdateDone
    BY <1>3, <1>6 DEF UpdateDone, MainToMiner
  <1>7. CASE PeerBlockProposal
    <2>1. CASE Favor(from_peer)
      BY <1>3, <1>7, <2>1 DEF PeerBlockProposal, MainToMiner
    <2>2. CASE ~Favor(from_peer)
      BY <1>7, <2>2 DEF PeerBlockProposal, minerVars, StaleCompositionIsInterrupted
    <2> QED BY <2>1, <2>2
  <1>8. CASE ProofOfWorkSolution
    BY <1>4, <1>8 DEF ProofOfWorkSolution
  <1> QED BY <1>1, <1>5, <1>6, <1>7, <1>8 DEF MainStep

(* What an event from outside does to it.                                  *)
LEMMA OutsideInterrupts ==
    ASSUME TypeOK, ComposerSelects, StaleCompositionIsInterrupted, Outside
    PROVE  StaleCompositionIsInterrupted' /\ UNCHANGED minerVars
  <1>1. UNCHANGED minerVars
    BY DEF Outside, NewBlocks, PeerLoopBlockProposal, PowPuzzle, PowPuzzleInner, ProvidePowSolution,
           PauseMiner, RestartMiner, MiningRequest, EnterSyncMode, AbandonSyncMode, PeerMapChanges,
           GracefulShutdown
  <1>2. ASSUME NEW m \in MainToMiner, SendToMiner(m) PROVE StaleCompositionIsInterrupted'
    BY <1>1, <1>2, SendType
       DEF SendToMiner, TypeOK, ComposerSelects, StaleCompositionIsInterrupted, minerVars
  <1>3. ASSUME NEW b, NEW left, NewBlocks(b, left) PROVE StaleCompositionIsInterrupted'
    BY <1>3 DEF NewBlocks, AdoptTip, StaleCompositionIsInterrupted
  <1>4. ASSUME UNCHANGED <<tip, updater, to_miner>> PROVE StaleCompositionIsInterrupted'
    BY <1>1, <1>4 DEF StaleCompositionIsInterrupted, minerVars
  <1>5. CASE PauseMiner \/ RestartMiner \/ EnterSyncMode \/ GracefulShutdown
    BY <1>2, <1>5 DEF PauseMiner, RestartMiner, MiningRequest, EnterSyncMode, GracefulShutdown,
                      LoopEnds, MainToMiner
  <1>6. ASSUME NEW p, PeerLoopBlockProposal(p) PROVE StaleCompositionIsInterrupted'
    BY <1>4, <1>6 DEF PeerLoopBlockProposal, globalVars
  <1>7. ASSUME NEW p, NEW b, ProvidePowSolution(p, b) PROVE StaleCompositionIsInterrupted'
    BY <1>4, <1>7 DEF ProvidePowSolution, globalVars
  <1>8. CASE PowPuzzle \/ PowPuzzleInner \/ AbandonSyncMode \/ PeerMapChanges
    BY <1>4, <1>8 DEF PowPuzzle, PowPuzzleInner, AbandonSyncMode, PeerMapChanges, globalVars, mainVars
  <1> QED BY <1>1, <1>3, <1>5, <1>6, <1>7, <1>8 DEF Outside

(* A composer never goes on for ever with a block that lost its place at   *)
(* the tip: a message is there to stop it, or the mempool update will send *)
(* one unless it died.                                                     *)
THEOREM MineLoopStaleCompositionIsInterrupted == Spec => []StaleCompositionIsInterrupted
  <1> DEFINE IInv == ComposerSelects /\ StaleCompositionIsInterrupted
  <1>1. Init => IInv
    BY DEF Init, ComposerSelects, StaleCompositionIsInterrupted, NoComposer
  <1>2. TypeOK /\ IInv /\ [Next]_vars => IInv'
    <2> SUFFICES ASSUME TypeOK, IInv, [Next]_vars PROVE IInv'
      OBVIOUS
    <2>1. CASE MainStep \/ Outside
      BY <2>1, MainStepInterrupts, OutsideInterrupts DEF ComposerSelects, minerVars
    <2>2. ASSUME composer' = NoComposer PROVE IInv'
      BY <2>2 DEF NoComposer, ComposerSelects, StaleCompositionIsInterrupted
    <2>3. CASE MinerStep
      <3>1. CASE LoopTop
        <4>1. composer.state = "none" /\ composer' = composer
          BY <3>1 DEF LoopTop, ComposerSelects
        <4> QED BY <4>1 DEF ComposerSelects, StaleCompositionIsInterrupted
      <3>2. CASE SpawnWork
        BY <2>2, <3>2 DEF SpawnWork, ComposerSelects, StaleCompositionIsInterrupted, globalVars
      <3>3. CASE RestartGuessing \/ ComposerTaskFailed \/ \E b \in Blocks : NewBlockGuessed(b)
        BY <2>2, <3>3 DEF RestartGuessing, ComposerTaskFailed, NewBlockGuessed, NextRound
      <3>4. CASE NewComposition \/ ReceiveFromMain
        BY <2>2, <3>4 DEF NewComposition, ReceiveFromMain, StopComposing, NextRound, MinerEnds
      <3> QED BY <2>3, <3>1, <3>2, <3>3, <3>4 DEF MinerStep
    <2>4. CASE ComposerTask
      <3>1. composer \in Composer /\ composer # NoComposer /\ composer.state # "none"
        BY <2>4 DEF TypeOK, ComposerTask, ComposerStep, ComposerFinishes, NoComposer
      <3>2. composer'.state # "proving" /\ pc' = pc
        BY <2>4, <3>1 DEF ComposerTask, ComposerStep, ComposerFinishes, Composer
      <3> QED BY <3>1, <3>2 DEF ComposerSelects, StaleCompositionIsInterrupted
    <2>5. CASE UpdateDies
      BY <2>5 DEF UpdateDies, ComposerSelects, StaleCompositionIsInterrupted, minerVars
    <2>6. CASE AbortTasks
      BY <2>2, <2>6 DEF AbortTasks, MinerEnds
    <2>7. CASE UNCHANGED vars
      BY <2>7 DEF vars, globalVars, mainVars, minerVars, ComposerSelects, StaleCompositionIsInterrupted
    <2> QED BY <2>1, <2>3, <2>4, <2>5, <2>6, <2>7 DEF Next
  <1> QED BY <1>1, <1>2, MineLoopTypeCorrect, PTL DEF Spec
==============================================================================
