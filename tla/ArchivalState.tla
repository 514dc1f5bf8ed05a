---------------------------- MODULE ArchivalState ----------------------------
(***************************************************************************)
(* The chain databases of a node and the operations that write them:       *)
(* `GlobalState::set_new_tip', `store_block_not_tip', `flush_databases',   *)
(* the mutator-set search of the proof upgrader, start-up and the ways a   *)
(* process ends.  All operations hold the write lock of the global state,  *)
(* so they do not interleave with each other; each is a sequence of steps  *)
(* because the process can be killed between any two of them.              *)
(*                                                                         *)
(* The archival mutator set is a function of the blocks applied to it, in  *)
(* order, and is modelled by that sequence of blocks.  A leveldb batch is  *)
(* written with `sync', hence durable and atomic.                          *)
(***************************************************************************)
EXTENDS BlockTree

CONSTANTS
    NoBlock,        \* no digest: the sync label of an empty database
    FileCapacity,   \* blocks that fit in one block file
    MaxFile,        \* bound: index of the last block file
    SearchDepth,    \* SEARCH_DEPTH_FOR_BLOCKS_FOR_MS_UPDATE_PROOF
    MaxKills,       \* bound: how often the process is killed
    KillPoints,     \* the steps at which it is killed
    CancelSearch    \* whether shutdown may find the upgrader searching

Steps == {"down", "check", "idle", "store", "index", "mmr", "ams", "wallet",
          "flush_ams", "flush_mmr", "search"}

ASSUME ArchivalAssumption ==
    /\ NoBlock \notin Blocks
    /\ FileCapacity \in Nat \ {0}
    /\ MaxFile \in Nat
    /\ SearchDepth \in Nat
    /\ MaxKills \in Nat
    /\ KillPoints \subseteq Steps
    /\ CancelSearch \in BOOLEAN

VARIABLES
    (* on disk *)
    stored,     \* blocks with a record in the block-index database
    tip,        \* BlockTipDigest, genesis when absent
    lastFile,   \* LastFile record
    fileRec,    \* blocks counted by each FileRecord, 0 when there is none
    fileLen,    \* blocks written into each block file
    amsDisk,    \* persisted archival mutator set and its sync label
    mmrDisk,    \* persisted archival block-MMR
    (* in memory *)
    amsMem, mmrMem, light,
    (* control *)
    pc,         \* next step of the operation under way
    job,        \* the block being written, whether as tip, and into which file
    exiting,    \* GlobalState is being dropped
    (* history *)
    kills,      \* kills so far
    torn,       \* the process ended inside a window that recovery cannot mend
    panicked    \* an assertion has failed

diskVars == <<stored, tip, lastFile, fileRec, fileLen, amsDisk, mmrDisk>>
memVars  == <<amsMem, mmrMem, light>>
histVars == <<kills, torn, panicked>>
vars     == <<diskVars, memVars, pc, job, exiting, histVars>>

Files    == 0..MaxFile
NoFile   == -1
NoJob    == [block |-> NoBlock, asTip |-> FALSE, file |-> NoFile]
EmptyAms == [content |-> <<>>, label |-> NoBlock]

(* A mutator set that is the one of no block: a half-finished update.      *)
Garbled  == <<NoBlock>>

(* Digests `get_block_header' finds: indexed blocks and, as code, genesis. *)
Known == stored \cup {Genesis}
------------------------------------------------------------------------------
(* A data directory that does not exist yet.                               *)
Init ==
    /\ stored = {} /\ tip = Genesis
    /\ lastFile = 0
    /\ fileRec = [f \in Files |-> 0]
    /\ fileLen = [f \in Files |-> 0]
    /\ amsDisk = EmptyAms /\ amsMem = EmptyAms
    /\ mmrDisk = <<>> /\ mmrMem = <<>>
    /\ light = Genesis
    /\ pc = "down" /\ job = NoJob /\ exiting = FALSE
    /\ kills = 0 /\ torn = FALSE /\ panicked = FALSE

(* A failed assertion unwinds the process; dropping GlobalState flushes.   *)
Panic ==
    /\ pc' = "flush_ams" /\ exiting' = TRUE
    /\ panicked' = TRUE
    /\ UNCHANGED <<kills, torn>>

------------------------------------------------------------------------------

(* Start-up.  `ArchivalState::new' fills empty databases with genesis; it  *)
(* persists the mutator set and leaves the block-MMR in memory.            *)
Open ==
    /\ pc = "down"
    /\ amsDisk' = IF amsDisk.content = <<>>
                  THEN [content |-> Chain[Genesis], label |-> Genesis]
                  ELSE amsDisk
    /\ amsMem' = amsDisk'
    /\ mmrMem' = IF mmrDisk = <<>> THEN <<Genesis>> ELSE mmrDisk
    /\ light' = tip
    /\ pc' = "check"
    /\ UNCHANGED <<stored, tip, lastFile, fileRec, fileLen, mmrDisk, job, exiting, histVars>>

(* `restore_monitored_utxos_from_recovery_data' panics when the sync label *)
(* is not the tip.                                                         *)
CheckSyncLabel ==
    /\ pc = "check"
    /\ IF light = amsMem.label
       THEN pc' = "idle" /\ UNCHANGED <<exiting, histVars>>
       ELSE Panic
    /\ UNCHANGED <<diskVars, memVars, job>>

------------------------------------------------------------------------------
(* `set_new_tip' and `store_block_not_tip'.  The callers have established  *)
(* that the parent is known.                                               *)
Begin(b, asTip) ==
    /\ pc = "idle"
    /\ b # Genesis /\ Prev(b) \in Known
    /\ job' = [block |-> b, asTip |-> asTip, file |-> NoFile]
    /\ pc' = "store"
    /\ UNCHANGED <<diskVars, memVars, exiting, histVars>>

BeginSetNewTip(b) == Begin(b, TRUE)
BeginStoreBlockNotTip(b) == Begin(b, FALSE)

(* The file `store_block' writes to, given the index and the file sizes.   *)
TargetFile == IF fileLen[lastFile] + 1 > FileCapacity THEN lastFile + 1 ELSE lastFile

(* First half of `write_block_internal': the block goes into a block file, *)
(* unless it is indexed already.  A file without a record must be empty.   *)
StoreBlock ==
    /\ pc = "store"
    /\ \/ /\ job.block \in Known
          /\ pc' = "index"
          /\ UNCHANGED <<fileLen, job, exiting, histVars>>
       \/ /\ job.block \notin Known
          /\ TargetFile \in Files
          /\ IF fileRec[TargetFile] = 0 /\ fileLen[TargetFile] # 0
             THEN Panic /\ UNCHANGED <<fileLen, job>>
             ELSE /\ fileLen' = [fileLen EXCEPT ![TargetFile] = @ + 1]
                  /\ job' = [job EXCEPT !.file = TargetFile]
                  /\ pc' = "index"
                  /\ UNCHANGED <<exiting, histVars>>
    /\ UNCHANGED <<stored, tip, lastFile, fileRec, amsDisk, mmrDisk, memVars>>

(* Mutant: the batch lacks the block record.                               *)
WriteBlockIndexWithoutBlockRecord ==
    /\ pc = "index"
    /\ IF job.file = NoFile
       THEN UNCHANGED <<lastFile, fileRec>>
       ELSE /\ lastFile' = job.file
            /\ fileRec' = [fileRec EXCEPT ![job.file] = @ + 1]
    /\ tip' = IF job.asTip THEN job.block ELSE tip
    /\ pc' = IF job.asTip THEN "mmr" ELSE "flush_ams"
    /\ UNCHANGED <<stored, fileLen, amsDisk, mmrDisk, memVars, job, exiting, histVars>>

(* Second half: file record, block record, last-file record and, for a     *)
(* tip, the tip digest, in one batch.                                      *)
WriteBlockIndex ==
    /\ pc = "index"
    /\ IF job.file = NoFile
       THEN UNCHANGED <<stored, lastFile, fileRec>>
       ELSE /\ stored' = stored \cup {job.block}
            /\ lastFile' = job.file
            /\ fileRec' = [fileRec EXCEPT ![job.file] = @ + 1]
    /\ tip' = IF job.asTip THEN job.block ELSE tip
    /\ pc' = IF job.asTip THEN "mmr" ELSE "flush_ams"
    /\ UNCHANGED <<fileLen, amsDisk, mmrDisk, memVars, job, exiting, histVars>>

(* The leaf digests left by `prune_to_num_leafs'.                          *)
prune_to_num_leafs(mmr, n) == IF Len(mmr) > n THEN SubSeq(mmr, 1, n) ELSE mmr

(* Mutant: the leaves of the abandoned fork are not removed.               *)
RolledToParentKeepingFork(mmr, b) ==
    LET pruned == prune_to_num_leafs(mmr, Height(b))
        latest == pruned[Len(pruned)]
    IN  IF latest = Prev(b) THEN pruned ELSE pruned \o find_path(latest, Prev(b)).forwards

(* The block-MMR rolled to the predecessor of block b.                     *)
RolledToParent(mmr, b) ==
    LET pruned == prune_to_num_leafs(mmr, Height(b))
        latest == pruned[Len(pruned)]
        path   == find_path(latest, Prev(b))
    IN  IF latest = Prev(b)
        THEN pruned
        ELSE SubSeq(pruned, 1, Len(pruned) - Len(path.backwards)) \o path.forwards

(* `append_to_archival_block_mmr', in memory only.  It panics when the     *)
(* MMR is empty, its latest leaf unknown, or the parent not reached.       *)
AppendToArchivalBlockMmr ==
    /\ pc = "mmr"
    /\ LET b      == job.block
           pruned == prune_to_num_leafs(mmrMem, Height(b))
           sound  == /\ Len(pruned) > 0
                     /\ pruned[Len(pruned)] \in Known
                     /\ Len(RolledToParent(mmrMem, b)) > 0
                     /\ LET r == RolledToParent(mmrMem, b) IN r[Len(r)] = Prev(b)
       IN  IF sound
           THEN /\ mmrMem' = Append(RolledToParent(mmrMem, b), b)
                /\ pc' = "ams"
                /\ UNCHANGED <<exiting, histVars>>
           ELSE Panic /\ mmrMem' = pruned
    /\ UNCHANGED <<diskVars, amsMem, light, job>>

(* The mutator set `content' ends in the blocks to roll back, so that every *)
(* addition record is reversible.                                          *)
Reversible(content, backwards) ==
    /\ Len(backwards) <= Len(content)
    /\ \A i \in 1..Len(backwards) : content[Len(content) + 1 - i] = backwards[i]

RolledBack(content, n) == SubSeq(content, 1, Len(content) - n)

(* Mutant: the new block is taken to extend the mutator set's block.       *)
UpdatePathWithoutReorganisation(from, b) ==
    [backwards |-> <<>>, luca |-> Prev(b), forwards |-> <<>>]

(* From the mutator set's block to the parent of the new block.            *)
UpdatePath(from, b) ==
    IF from = Prev(b)
    THEN [backwards |-> <<>>, luca |-> Prev(b), forwards |-> <<>>]
    ELSE find_path(from, Prev(b))

(* `update_mutator_set': path from the sync label to the new block, roll   *)
(* back, apply, compare with the commitment in the block, persist.         *)
UpdateMutatorSet ==
    /\ pc = "ams"
    /\ LET b    == job.block
           path == UpdatePath(amsMem.label, b)
           new  == RolledBack(amsMem.content, Len(path.backwards)) \o Append(path.forwards, b)
       IN  IF Reversible(amsMem.content, path.backwards) /\ new = Chain[b]
           THEN /\ amsMem' = [content |-> new, label |-> b]
                /\ amsDisk' = amsMem'
                /\ pc' = "wallet"
                /\ UNCHANGED <<exiting, histVars>>
           ELSE Panic /\ amsMem' = [amsMem EXCEPT !.content = Garbled] /\ UNCHANGED amsDisk
    /\ UNCHANGED <<stored, tip, lastFile, fileRec, fileLen, mmrDisk, mmrMem, light, job>>

(* Mempool, wallet and light state; the first two are modules of their own. *)
UpdateLightState ==
    /\ pc = "wallet"
    /\ light' = job.block
    /\ pc' = "flush_ams"
    /\ UNCHANGED <<diskVars, amsMem, mmrMem, job, exiting, histVars>>

(* The wallet update returns an error (its recovery file cannot be         *)
(* written); the error ends the main loop.                                 *)
WalletUpdateFails ==
    /\ pc = "wallet"
    /\ pc' = "flush_ams" /\ exiting' = TRUE
    /\ UNCHANGED <<diskVars, memVars, job, histVars>>
------------------------------------------------------------------------------
(* `flush_databases': the sync label is set to the tip before persisting.  *)
FlushMutatorSet ==
    /\ pc = "flush_ams"
    /\ amsMem' = [amsMem EXCEPT !.label = tip]
    /\ amsDisk' = amsMem'
    /\ pc' = "flush_mmr"
    /\ UNCHANGED <<stored, tip, lastFile, fileRec, fileLen, mmrDisk, mmrMem, light,
                   job, exiting, histVars>>

(* Mutant: the block-MMR is not among the databases flushed.               *)
FlushWithoutBlockMmr ==
    /\ pc = "flush_mmr"
    /\ pc' = IF exiting THEN "down" ELSE "idle"
    /\ exiting' = FALSE
    /\ job' = NoJob
    /\ UNCHANGED <<diskVars, memVars, histVars>>

(* ... then the block-MMR is persisted; the operation or the process ends. *)
FlushBlockMmr ==
    /\ pc = "flush_mmr"
    /\ mmrDisk' = mmrMem
    /\ pc' = IF exiting THEN "down" ELSE "idle"
    /\ exiting' = FALSE
    /\ job' = NoJob
    /\ UNCHANGED <<stored, tip, lastFile, fileRec, fileLen, amsDisk, memVars, histVars>>
------------------------------------------------------------------------------
(* `get_mutator_set_update_to_tip', called by the proof upgrader: persist, *)
(* then roll the mutator set back to ancestor x of the tip in memory...    *)
SearchMutatorSetUpdate(x) ==
    /\ pc = "idle"
    /\ Height(tip) - Height(x) \in 0..SearchDepth
    /\ Chain[tip][Len(Chain[x])] = x
    /\ LET leave == find_path(tip, x).backwards
       IN  amsMem' = [amsMem EXCEPT !.content = IF Reversible(amsMem.content, leave)
                                                THEN RolledBack(amsMem.content, Len(leave))
                                                ELSE Garbled]
    /\ amsDisk' = amsMem
    /\ pc' = "search"
    /\ UNCHANGED <<stored, tip, lastFile, fileRec, fileLen, mmrDisk, mmrMem, light,
                   job, exiting, histVars>>

(* Mutant: the ephemeral changes are kept.                                 *)
KeepUnpersisted ==
    /\ pc = "search"
    /\ pc' = "idle"
    /\ UNCHANGED <<diskVars, memVars, job, exiting, histVars>>

(* ... and `drop_unpersisted' once the removal records have been read.     *)
DropUnpersisted ==
    /\ pc = "search"
    /\ amsMem' = amsDisk
    /\ pc' = "idle"
    /\ UNCHANGED <<diskVars, mmrMem, light, job, exiting, histVars>>
------------------------------------------------------------------------------
(* `graceful_shutdown' while no operation is under way; GlobalState is     *)
(* dropped at the end of main.                                             *)
Shutdown ==
    /\ pc = "idle"
    /\ pc' = "flush_ams" /\ exiting' = TRUE
    /\ UNCHANGED <<diskVars, memVars, job, histVars>>

(* Nothing joins the proof-upgrader task at shutdown: the runtime cancels  *)
(* it at an await point of the search, then GlobalState is dropped.        *)
CancelSearchAtShutdown ==
    /\ CancelSearch
    /\ pc = "search"
    /\ pc' = "flush_ams" /\ exiting' = TRUE
    /\ torn' = (torn \/ amsMem.content # amsDisk.content)
    /\ UNCHANGED <<diskVars, memVars, job, kills, panicked>>

(* A tip whose mutator set is not persisted yet, or a block file begun     *)
(* without a record.                                                       *)
TipAheadOfMutatorSet == tip # amsDisk.label /\ amsDisk.label # NoBlock
FileWithoutRecord == \E f \in Files : fileRec[f] = 0 /\ fileLen[f] # 0

(* The process is killed: memory is gone, nothing is flushed.              *)
Kill ==
    /\ pc \in KillPoints \ {"down"}
    /\ kills < MaxKills
    /\ kills' = kills + 1
    /\ torn' = (torn \/ TipAheadOfMutatorSet \/ FileWithoutRecord)
    /\ amsMem' = amsDisk /\ mmrMem' = mmrDisk /\ light' = Genesis
    /\ pc' = "down" /\ job' = NoJob /\ exiting' = FALSE
    /\ UNCHANGED <<diskVars, panicked>>

Next ==
    \/ Open \/ CheckSyncLabel
    \/ \E b \in Blocks : BeginSetNewTip(b) \/ BeginStoreBlockNotTip(b)
    \/ StoreBlock \/ WriteBlockIndex \/ AppendToArchivalBlockMmr \/ UpdateMutatorSet
    \/ UpdateLightState \/ WalletUpdateFails
    \/ FlushMutatorSet \/ FlushBlockMmr
    \/ \E x \in Blocks : SearchMutatorSetUpdate(x)
    \/ DropUnpersisted
    \/ Shutdown \/ CancelSearchAtShutdown \/ Kill

Spec == Init /\ [][Next]_vars
------------------------------------------------------------------------------
Ams == [content : Seq(Blocks \cup {NoBlock}), label : Blocks \cup {NoBlock}]

(* Every variable stays in its domain; in particular the tip and the light *)
(* state are blocks and the block-MMR holds block digests only.            *)
TypeOK ==
    /\ stored \subseteq Blocks \ {Genesis} /\ tip \in Blocks /\ light \in Blocks
    /\ lastFile \in Files
    /\ fileRec \in [Files -> Nat] /\ fileLen \in [Files -> Nat]
    /\ amsDisk \in Ams /\ amsMem \in Ams
    /\ mmrDisk \in Seq(Blocks) /\ mmrMem \in Seq(Blocks)
    /\ pc \in Steps
    /\ job \in [block : Blocks \cup {NoBlock}, asTip : BOOLEAN, file : Files \cup {NoFile}]
    /\ exiting \in BOOLEAN /\ kills \in 0..MaxKills
    /\ torn \in BOOLEAN /\ panicked \in BOOLEAN

(* When a node serves requests, its light state, its tip, and its mutator  *)
(* set in memory and on disk all describe the same block, through any      *)
(* reorganisation, kill and restart, unless the process once ended inside  *)
(* one of the windows that `torn' records.                                 *)
ServesOneTip ==
    pc = "idle" /\ ~torn =>
        /\ light = tip
        /\ amsMem = [content |-> Chain[tip], label |-> tip]
        /\ amsDisk = amsMem

(* The block-MMR, in memory and on disk, is the path to some known block,  *)
(* even when the process was killed between writing the tip and flushing:  *)
(* this is what lets `append_to_archival_block_mmr' find a way back.       *)
MmrIsPathToKnownBlock ==
    /\ mmrDisk = <<>> \/ \E b \in Known : mmrDisk = Chain[b]
    /\ mmrMem = <<>> \/ \E b \in Known : mmrMem = Chain[b]

(* No assertion of set_new_tip, of store_block or of start-up ever fails,  *)
(* unless the process once ended inside one of the windows.                *)
PanicOnlyAfterTornUpdate == panicked => torn

(* The block index never leads to nothing: the tip and every ancestor of   *)
(* an indexed block are known, and an indexed block's bytes are in a file. *)
IndexIsComplete ==
    /\ tip \in Known
    /\ \A b \in stored : Prev(b) \in Known
    /\ \A f \in Files : fileRec[f] <= fileLen[f]

(* A set_new_tip that runs to its end leaves the persisted block-MMR equal *)
(* to the canonical chain, however stale it was before.                    *)
NewTipMendsBlockMmr ==
    [][pc = "flush_mmr" /\ pc' = "idle" /\ job.asTip => mmrDisk' = Chain[tip]]_vars

==============================================================================
