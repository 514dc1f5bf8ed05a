------------------------- MODULE ArchivalStateProofs -------------------------
(***************************************************************************)
(* Proofs about module ArchivalState, for every block tree, file capacity, *)
(* search depth and number and place of kills.                             *)
(***************************************************************************)
EXTENDS ArchivalState, BlockTreeTheorems

(* The index is closed under ancestors, not only under parents.            *)
AncestorsKnown == \A b \in Known : \A i \in 1..Len(Chain[b]) : Chain[b][i] \in Known

(* What the step under way knows about its job.                            *)
JobInv ==
    /\ pc \in {"store", "index"} =>
          job.block \in Blocks \ {Genesis} /\ Prev(job.block) \in Known
    /\ pc \in {"mmr", "ams", "wallet"} =>
          job.asTip /\ tip = job.block /\ job.block \in Known \ {Genesis}
    /\ pc \in {"down", "check", "idle", "search"} => job = NoJob
    /\ pc = "store" => job.file = NoFile
    /\ pc = "index" /\ job.file = NoFile => job.block \in Known
    /\ pc = "index" /\ job.file # NoFile => fileRec[job.file] < fileLen[job.file]
    /\ exiting => pc \in {"flush_ams", "flush_mmr"}

(* The block-MMR is the path to a known block, and the path to the tip     *)
(* once set_new_tip has appended to it.                                    *)
MmrInv ==
    /\ mmrDisk = <<>> \/ \E b \in Known : mmrDisk = Chain[b]
    /\ pc # "down" => \E b \in Known : mmrMem = Chain[b]
    /\ pc = "down" => mmrMem = <<>> \/ \E b \in Known : mmrMem = Chain[b]
    /\ pc \in {"ams", "wallet"} => mmrMem = Chain[tip]
    /\ pc \in {"flush_ams", "flush_mmr"} /\ job.asTip /\ ~exiting => mmrMem = Chain[tip]

(* The mutator set, as long as nothing was torn.                           *)
AmsInv ==
    /\ amsDisk = EmptyAms => pc = "down" /\ tip = Genesis
    /\ amsDisk # EmptyAms =>
          amsDisk.label \in Blocks /\ amsDisk.content = Chain[amsDisk.label]
    /\ amsDisk # EmptyAms /\ pc \notin {"mmr", "ams"} => amsDisk.label = tip
    /\ pc # "search" => amsMem = amsDisk
    /\ pc = "search" => amsMem.label = amsDisk.label
    /\ pc \in {"check", "idle", "store", "index", "search"} => light = tip
    /\ pc \in {"flush_ams", "flush_mmr"} /\ ~exiting => light = tip

(* A block file without a record is empty, except for the block that is    *)
(* being stored, as long as nothing was torn.                              *)
FileInv ==
    \A f \in Files : fileRec[f] = 0 /\ fileLen[f] # 0 => pc = "index" /\ job.file = f

IInv ==
    /\ TypeOK
    /\ tip \in Known
    /\ AncestorsKnown
    /\ \A f \in Files : fileRec[f] <= fileLen[f]
    /\ JobInv
    /\ MmrInv
    /\ ~torn => ~panicked /\ AmsInv /\ FileInv

(* The path to genesis is genesis alone; no path is empty.                 *)
LEMMA GenesisFacts ==
    /\ Genesis \in Blocks
    /\ Chain[Genesis] = <<Genesis>>
    /\ <<Genesis>> \in Seq(Blocks)
    /\ \A b \in Blocks : /\ Chain[b] \in Seq(Blocks)
                         /\ Chain[b] \in Seq(Blocks \cup {NoBlock})
                         /\ Chain[b] # <<>>
  <1>1. Genesis \in Blocks /\ Chain[Genesis] = <<Genesis>>
    BY ChainAssumption
  <1>2. ASSUME NEW b \in Blocks
        PROVE  Chain[b] \in Seq(Blocks) /\ Chain[b] # <<>>
    BY ChainFacts
  <1>3. ASSUME NEW b \in Blocks
        PROVE  Chain[b] \in Seq(Blocks \cup {NoBlock})
    BY <1>2, SeqMonotonic, Blocks \subseteq Blocks \cup {NoBlock}
  <1> QED BY <1>1, <1>2, <1>3

(* An empty data directory satisfies the invariant.                        *)
LEMMA InitIInv == Init => IInv
  <1> SUFFICES ASSUME Init PROVE IInv
    OBVIOUS
  <1> USE ArchivalAssumption, GenesisFacts DEF Init
  <1>1. TypeOK
    <2>1. amsDisk \in Ams /\ amsMem \in Ams
      BY DEF Ams, EmptyAms
    <2>2. job \in [block : Blocks \cup {NoBlock}, asTip : BOOLEAN, file : Files \cup {NoFile}]
      BY DEF NoJob
    <2>3. lastFile \in Files /\ fileRec \in [Files -> Nat] /\ fileLen \in [Files -> Nat]
      BY DEF Files
    <2>4. mmrDisk \in Seq(Blocks) /\ mmrMem \in Seq(Blocks) /\ kills \in 0..MaxKills
      OBVIOUS
    <2>5. stored \subseteq Blocks \ {Genesis} /\ tip \in Blocks /\ light \in Blocks
      OBVIOUS
    <2>6. pc \in Steps /\ exiting \in BOOLEAN /\ torn \in BOOLEAN /\ panicked \in BOOLEAN
      BY DEF Steps
    <2> QED BY <2>1, <2>2, <2>3, <2>4, <2>5, <2>6 DEF TypeOK
  <1>2. AncestorsKnown
    BY DEF AncestorsKnown, Known
  <1>3. JobInv /\ MmrInv
    BY DEF JobInv, MmrInv
  <1>4. AmsInv /\ FileInv
    BY DEF AmsInv, FileInv
  <1> QED BY <1>1, <1>2, <1>3, <1>4 DEF IInv, Known

(* Start-up.                                                               *)
LEMMA OpenIInv == IInv /\ Open => IInv'
  <1> SUFFICES ASSUME IInv, Open PROVE IInv'
    OBVIOUS
  <1> USE GenesisFacts DEF IInv, Open, histVars
  <1>1. TypeOK'
    BY ArchivalAssumption DEF TypeOK, Ams, Steps
  <1>2. tip' \in Known' /\ AncestorsKnown' /\ \A f \in Files' : fileRec'[f] <= fileLen'[f]
    BY DEF AncestorsKnown, Known, Files
  <1>3. JobInv'
    BY DEF JobInv, Known
  <1>4. MmrInv'
    BY DEF MmrInv, Known
  <1>5. ~torn' => AmsInv'
    <2> SUFFICES ASSUME ~torn PROVE AmsInv'
      OBVIOUS
    <2>1. CASE amsDisk = EmptyAms
      BY <2>1 DEF AmsInv, EmptyAms
    <2>2. CASE amsDisk # EmptyAms
      <3>1. amsDisk' = amsDisk /\ amsMem' = amsDisk
        BY <2>2 DEF AmsInv
      <3> QED BY <2>2, <3>1 DEF AmsInv, EmptyAms
    <2> QED BY <2>1, <2>2
  <1>6. ~torn' => ~panicked' /\ FileInv'
    BY DEF FileInv, Files
  <1> QED BY <1>1, <1>2, <1>3, <1>4, <1>5, <1>6

LEMMA CheckSyncLabelIInv == IInv /\ CheckSyncLabel => IInv'
  <1> SUFFICES ASSUME IInv, CheckSyncLabel PROVE IInv'
    OBVIOUS
  <1> USE DEF IInv, CheckSyncLabel, Panic, diskVars, memVars, histVars
  <1>1. TypeOK'
    BY DEF TypeOK, Ams, Steps
  <1>2. tip' \in Known' /\ AncestorsKnown' /\ \A f \in Files' : fileRec'[f] <= fileLen'[f]
    BY DEF AncestorsKnown, Known, Files
  <1>3. JobInv'
    BY DEF JobInv, Known
  <1>4. MmrInv'
    BY DEF MmrInv, Known, JobInv, NoJob
  <1>5. ~torn' => ~panicked' /\ AmsInv' /\ FileInv'
    BY DEF AmsInv, FileInv, Files, JobInv
  <1> QED BY <1>1, <1>2, <1>3, <1>4, <1>5

(* set_new_tip or store_block_not_tip is called.                           *)
LEMMA BeginIInv ==
    ASSUME IInv, NEW b \in Blocks, NEW asTip \in BOOLEAN, Begin(b, asTip)
    PROVE  IInv'
  <1> USE DEF IInv, Begin, diskVars, memVars, histVars
  <1>1. TypeOK'
    BY DEF TypeOK, Ams, Steps
  <1>2. tip' \in Known' /\ AncestorsKnown' /\ \A f \in Files' : fileRec'[f] <= fileLen'[f]
    BY DEF AncestorsKnown, Known, Files
  <1>3. JobInv'
    BY DEF JobInv, Known
  <1>4. MmrInv'
    BY DEF MmrInv, Known
  <1>5. ~torn' => ~panicked' /\ AmsInv' /\ FileInv'
    BY DEF AmsInv, FileInv, Files
  <1> QED BY <1>1, <1>2, <1>3, <1>4, <1>5

(* The block file is written before the index: for one step a file may     *)
(* hold a block more than its record counts.                               *)
LEMMA StoreBlockIInv == IInv /\ StoreBlock => IInv'
  <1> SUFFICES ASSUME IInv, StoreBlock PROVE IInv'
    OBVIOUS
  <1> USE DEF IInv
  <1>1. CASE job.block \in Known
    <2> USE <1>1 DEF StoreBlock, memVars, histVars
    <2>1. TypeOK'
      BY DEF TypeOK, Ams, Steps
    <2>2. tip' \in Known' /\ AncestorsKnown' /\ \A f \in Files' : fileRec'[f] <= fileLen'[f]
      BY DEF AncestorsKnown, Known, Files
    <2>3. JobInv'
      BY DEF JobInv, Known
    <2>4. MmrInv'
      BY DEF MmrInv, Known
    <2>5. ~torn' => ~panicked' /\ AmsInv' /\ FileInv'
      BY DEF AmsInv, FileInv, Files, JobInv
    <2> QED BY <2>1, <2>2, <2>3, <2>4, <2>5
  <1>2. CASE job.block \notin Known /\ fileRec[TargetFile] = 0 /\ fileLen[TargetFile] # 0
    <2> USE <1>2 DEF StoreBlock, Panic, memVars, histVars
    <2>1. TypeOK'
      BY DEF TypeOK, Ams, Steps
    <2>2. tip' \in Known' /\ AncestorsKnown' /\ \A f \in Files' : fileRec'[f] <= fileLen'[f]
      BY DEF AncestorsKnown, Known, Files
    <2>3. JobInv'
      BY DEF JobInv, Known
    <2>4. MmrInv'
      BY DEF MmrInv, Known
    <2>5. torn
      BY DEF FileInv, JobInv
    <2> QED BY <2>1, <2>2, <2>3, <2>4, <2>5
  <1>3. CASE job.block \notin Known /\ ~(fileRec[TargetFile] = 0 /\ fileLen[TargetFile] # 0)
    <2> DEFINE t == TargetFile
    <2>1. /\ t \in Files /\ pc = "store" /\ pc' = "index"
          /\ fileLen' = [fileLen EXCEPT ![t] = @ + 1]
          /\ job' = [job EXCEPT !.file = t]
          /\ UNCHANGED <<stored, tip, lastFile, fileRec, amsDisk, mmrDisk, amsMem, mmrMem,
                         light, exiting, kills, torn, panicked>>
      BY <1>3 DEF StoreBlock, memVars, histVars
    <2>2. ~(fileRec[t] = 0 /\ fileLen[t] # 0)
      BY <1>3
    <2> HIDE DEF t
    <2> USE <2>1
    <2>3. TypeOK'
      <3>1. fileLen' \in [Files -> Nat]
        BY DEF TypeOK
      <3>2. job' \in [block : Blocks \cup {NoBlock}, asTip : BOOLEAN, file : Files \cup {NoFile}]
        BY DEF TypeOK
      <3> QED BY <3>1, <3>2 DEF TypeOK, Ams, Steps, Files
    <2>4. /\ job'.block = job.block /\ job'.file = t /\ job'.asTip = job.asTip
          /\ fileRec'[t] < fileLen'[t] /\ t # NoFile
          /\ \A f \in Files : f # t => fileLen'[f] = fileLen[f]
      BY DEF TypeOK, Files, NoFile
    <2>5. tip' \in Known' /\ AncestorsKnown'
      BY DEF AncestorsKnown, Known
    <2>6. \A f \in Files' : fileRec'[f] <= fileLen'[f]
      BY <2>4 DEF TypeOK, Files
    <2>7. JobInv'
      BY <2>4 DEF JobInv, Known
    <2>8. MmrInv'
      BY DEF MmrInv, Known
    <2>9. ~torn' => ~panicked' /\ AmsInv' /\ FileInv'
      BY <2>4 DEF AmsInv, FileInv, Files
    <2> QED BY <2>3, <2>5, <2>6, <2>7, <2>8, <2>9
  <1> QED BY <1>1, <1>2, <1>3 DEF StoreBlock

(* One batch writes the records and the tip: the index stays closed under  *)
(* ancestors because the parent was known.                                 *)
LEMMA WriteBlockIndexIInv == IInv /\ WriteBlockIndex => IInv'
  <1> SUFFICES ASSUME IInv, WriteBlockIndex PROVE IInv'
    OBVIOUS
  <1> DEFINE b == job.block
  <1> USE DEF IInv
  <1>0. /\ pc = "index" /\ b \in Blocks /\ b # Genesis /\ Prev(b) \in Known
        /\ UNCHANGED <<fileLen, amsDisk, mmrDisk, amsMem, mmrMem, light, job,
                       exiting, kills, torn, panicked>>
        /\ pc' = IF job.asTip THEN "mmr" ELSE "flush_ams"
        /\ tip' = IF job.asTip THEN b ELSE tip
        /\ ~exiting
    BY DEF WriteBlockIndex, memVars, histVars, JobInv
  <1>1. /\ Known' = Known \cup {b}
        /\ stored' \subseteq Blocks \ {Genesis}
        /\ Known \subseteq Blocks
    BY <1>0, GenesisFacts DEF WriteBlockIndex, Known, JobInv, TypeOK
  <1>2. /\ lastFile' \in Files /\ fileRec' \in [Files -> Nat]
        /\ \A f \in Files : fileRec'[f] <= fileLen'[f]
        /\ \A f \in Files : fileRec'[f] = 0 => fileRec[f] = 0 /\ f # job.file
    <2>1. CASE job.file = NoFile
      BY <2>1, <1>0 DEF WriteBlockIndex, TypeOK, Files, NoFile
    <2>2. CASE job.file # NoFile
      <3>1. job.file \in Files /\ fileRec[job.file] < fileLen[job.file]
        BY <2>2, <1>0 DEF TypeOK, JobInv
      <3>2. lastFile' = job.file /\ fileRec' = [fileRec EXCEPT ![job.file] = @ + 1]
        BY <2>2 DEF WriteBlockIndex
      <3> QED BY <3>1, <3>2, <1>0 DEF TypeOK, Files
    <2> QED BY <2>1, <2>2
  <1>3. TypeOK'
    BY <1>0, <1>1, <1>2 DEF TypeOK, Ams, Steps, Files
  <1>4. tip' \in Known'
    BY <1>0, <1>1
  <1>5. AncestorsKnown'
    <2> SUFFICES ASSUME NEW c \in Known', NEW i \in 1..Len(Chain[c])
                 PROVE  Chain[c][i] \in Known'
      BY DEF AncestorsKnown
    <2>1. CASE c \in Known
      BY <2>1, <1>1 DEF AncestorsKnown
    <2>2. CASE c = b
      <3>1. /\ Len(Chain[b]) \in Nat /\ Chain[b][Len(Chain[b])] = b
            /\ Len(Chain[Prev(b)]) = Len(Chain[b]) - 1
            /\ \A j \in 1..(Len(Chain[b]) - 1) : Chain[Prev(b)][j] = Chain[b][j]
        BY <1>0, ChainFacts, ParentFacts
      <3>2. CASE i = Len(Chain[b])
        BY <3>1, <3>2, <2>2, <1>1
      <3>3. CASE i # Len(Chain[b])
        <4>1. i \in 1..(Len(Chain[b]) - 1)
          BY <3>1, <3>3, <2>2
        <4>2. Chain[Prev(b)][i] \in Known
          BY <4>1, <3>1, <1>0 DEF AncestorsKnown
        <4> QED BY <4>1, <4>2, <3>1, <2>2, <1>1
      <3> QED BY <3>2, <3>3
    <2> QED BY <2>1, <2>2, <1>1
  <1>6. JobInv'
    BY <1>0, <1>1, <1>4 DEF JobInv, TypeOK
  <1>7. MmrInv'
    BY <1>0, <1>1 DEF MmrInv
  <1>8. ~torn' => ~panicked' /\ AmsInv' /\ FileInv'
    BY <1>0, <1>2 DEF AmsInv, FileInv, Files
  <1> QED BY <1>2, <1>3, <1>4, <1>5, <1>6, <1>7, <1>8 DEF Files

(* The block-MMR holds the path to a known block; pruning it to the height *)
(* of the new block leaves the path to an ancestor of that block, and the  *)
(* rest is `find_path'.                                                    *)
LEMMA RolledToParentIsPath ==
    ASSUME NEW c \in Blocks, NEW b \in Blocks, b # Genesis
    PROVE  LET pruned == prune_to_num_leafs(Chain[c], Height(b))
           IN  /\ \E i \in 1..Len(Chain[c]) : pruned = Chain[Chain[c][i]]
               /\ RolledToParent(Chain[c], b) = Chain[Prev(b)]
  <1> DEFINE pruned == prune_to_num_leafs(Chain[c], Height(b))
  <1>1. /\ Chain[c] \in Seq(Blocks) /\ Len(Chain[c]) \in Nat /\ Len(Chain[c]) > 0
        /\ Chain[c][Len(Chain[c])] = c
    BY ChainFacts
  <1>2. Height(b) \in Nat /\ Height(b) > 0 /\ Prev(b) \in Blocks
    <2>1. Len(Chain[b]) - 1 \in 1..Len(Chain[b]) /\ Len(Chain[b]) \in Nat /\ Prev(b) \in Blocks
      BY ParentFacts, ChainFacts
    <2> QED BY <2>1 DEF Height
  <1>3. PICK i \in 1..Len(Chain[c]) : pruned = Chain[Chain[c][i]]
    <2>1. CASE Len(Chain[c]) > Height(b)
      <3>1. pruned = SubSeq(Chain[c], 1, Height(b))
        BY <2>1 DEF prune_to_num_leafs
      <3>2. Height(b) \in 1..Len(Chain[c])
        BY <2>1, <1>1, <1>2
      <3>3. Chain[Chain[c][Height(b)]] = SubSeq(Chain[c], 1, Height(b))
        BY <3>2, ChainPrefix
      <3> QED BY <3>1, <3>2, <3>3
    <2>2. CASE ~(Len(Chain[c]) > Height(b))
      <3>1. pruned = Chain[c]
        BY <2>2 DEF prune_to_num_leafs
      <3>2. Len(Chain[c]) \in 1..Len(Chain[c])
        BY <1>1
      <3> QED BY <3>1, <3>2, <1>1
    <2> QED BY <2>1, <2>2
  <1> DEFINE a == Chain[c][i]
  <1>4. a \in Blocks /\ pruned = Chain[a]
    BY <1>1, <1>3
  <1>5. pruned[Len(pruned)] = a
    BY <1>4, ChainFacts
  <1> HIDE DEF a
  <1>6. RolledToParent(Chain[c], b) = Chain[Prev(b)]
    <2>1. CASE a = Prev(b)
      BY <2>1, <1>4, <1>5 DEF RolledToParent
    <2>2. CASE a # Prev(b)
      <3>1. RolledToParent(Chain[c], b)
              = SubSeq(pruned, 1, Len(pruned) - Len(find_path(a, Prev(b)).backwards))
                  \o find_path(a, Prev(b)).forwards
        BY <2>2, <1>5 DEF RolledToParent
      <3> HIDE DEF pruned
      <3> QED BY <3>1, <1>2, <1>4, PathLeads
    <2> QED BY <2>1, <2>2
  <1> QED BY <1>3, <1>6

(* append_to_archival_block_mmr never panics and reaches the tip's path,   *)
(* from whatever known block the block-MMR was left at.                    *)
LEMMA AppendIInv == IInv /\ AppendToArchivalBlockMmr => IInv'
  <1> SUFFICES ASSUME IInv, AppendToArchivalBlockMmr PROVE IInv'
    OBVIOUS
  <1> DEFINE b == job.block
             pruned == prune_to_num_leafs(mmrMem, Height(b))
             rolled == RolledToParent(mmrMem, b)
  <1> USE DEF IInv
  <1>0. /\ pc = "mmr" /\ job.asTip /\ tip = b /\ b \in Known /\ b # Genesis
        /\ Known \subseteq Blocks
        /\ UNCHANGED <<stored, tip, lastFile, fileRec, fileLen, amsDisk, mmrDisk,
                       amsMem, light, job>>
    BY GenesisFacts DEF AppendToArchivalBlockMmr, diskVars, JobInv, TypeOK, Known
  <1>1. PICK c \in Known : mmrMem = Chain[c]
    BY <1>0 DEF MmrInv
  <1>2. PICK i \in 1..Len(Chain[c]) : pruned = Chain[Chain[c][i]]
    BY <1>0, <1>1, RolledToParentIsPath
  <1>3. rolled = Chain[Prev(b)]
    BY <1>0, <1>1, RolledToParentIsPath
  <1>4. Chain[c][i] \in Known
    BY <1>1 DEF AncestorsKnown
  <1>5. Len(pruned) > 0 /\ pruned[Len(pruned)] \in Known
    BY <1>0, <1>2, <1>4, ChainFacts
  <1>6. Prev(b) \in Blocks /\ Chain[b] = Append(Chain[Prev(b)], b)
    BY <1>0, ParentFacts
  <1>7. Len(rolled) > 0 /\ rolled[Len(rolled)] = Prev(b)
    BY <1>3, <1>6, ChainFacts
  <1>8. /\ mmrMem' = Append(rolled, b) /\ pc' = "ams"
        /\ UNCHANGED <<exiting, kills, torn, panicked>>
    BY <1>5, <1>7 DEF AppendToArchivalBlockMmr, histVars
  <1>9. mmrMem' = Chain[b]
    BY <1>3, <1>6, <1>8
  <1> HIDE DEF pruned, rolled
  <1> USE <1>0, <1>8, <1>9
  <1>10. TypeOK'
    BY GenesisFacts DEF TypeOK, Ams, Steps
  <1>11. tip' \in Known' /\ AncestorsKnown' /\ \A f \in Files' : fileRec'[f] <= fileLen'[f]
    BY DEF AncestorsKnown, Known, Files
  <1>12. JobInv'
    BY DEF JobInv, Known
  <1>13. MmrInv'
    BY DEF MmrInv, Known
  <1>14. ~torn' => ~panicked' /\ AmsInv' /\ FileInv'
    BY DEF AmsInv, FileInv, Files
  <1> QED BY <1>10, <1>11, <1>12, <1>13, <1>14

(* The update from the mutator set of block a to that of block b succeeds  *)
(* for any two blocks: everything rolled back is reversible and the result *)
(* is the mutator set the new block commits to.                            *)
LEMMA UpdateReachesBlock ==
    ASSUME NEW a \in Blocks, NEW b \in Blocks, b # Genesis
    PROVE  LET path == UpdatePath(a, b)
           IN  /\ Reversible(Chain[a], path.backwards)
               /\ RolledBack(Chain[a], Len(path.backwards)) \o Append(path.forwards, b)
                    = Chain[b]
  <1>1. Prev(b) \in Blocks /\ Chain[b] = Append(Chain[Prev(b)], b)
    BY ParentFacts
  <1>2. Chain[a] \in Seq(Blocks) /\ Len(Chain[a]) \in Nat
    BY ChainFacts
  <1>3. CASE a = Prev(b)
    <2> DEFINE p == [backwards |-> <<>>, luca |-> Prev(b), forwards |-> <<>>]
    <2>1. p.backwards = <<>> /\ p.forwards = <<>> /\ Len(p.backwards) = 0
      OBVIOUS
    <2> HIDE DEF p
    <2>2. Reversible(Chain[a], p.backwards)
      BY <2>1, <1>2 DEF Reversible
    <2>3. RolledBack(Chain[a], Len(p.backwards)) = Chain[a]
      BY <2>1, <1>2, SubSeqFull DEF RolledBack
    <2>4. Chain[a] \o Append(p.forwards, b) = Append(Chain[a], b)
      BY <2>1, <1>2
    <2> QED BY <2>2, <2>3, <2>4, <1>1, <1>3 DEF p, UpdatePath
  <1>4. CASE a # Prev(b)
    <2> DEFINE p == find_path(a, Prev(b))
    <2>1. /\ Len(p.backwards) \in 0..(Len(Chain[a]) - 1)
          /\ \A i \in 1..Len(p.backwards) : p.backwards[i] = Chain[a][Len(Chain[a]) + 1 - i]
          /\ p.forwards \in Seq(Blocks)
          /\ SubSeq(Chain[a], 1, Len(Chain[a]) - Len(p.backwards)) \o p.forwards
               = Chain[Prev(b)]
      BY <1>1, PathLeads
    <2> HIDE DEF p
    <2>2. Reversible(Chain[a], p.backwards)
      BY <2>1, <1>2 DEF Reversible
    <2>3. RolledBack(Chain[a], Len(p.backwards)) \in Seq(Blocks)
      BY <2>1, <1>2, SubSeqProperties DEF RolledBack
    <2>4. RolledBack(Chain[a], Len(p.backwards)) \o Append(p.forwards, b)
            = Append(RolledBack(Chain[a], Len(p.backwards)) \o p.forwards, b)
      <3> DEFINE r == RolledBack(Chain[a], Len(p.backwards))
      <3>1. r \in Seq(Blocks) /\ p.forwards \in Seq(Blocks) /\ <<b>> \in Seq(Blocks)
        BY <2>1, <2>3
      <3> HIDE DEF r
      <3>2. r \o p.forwards \in Seq(Blocks)
        BY <3>1
      <3>3. Append(p.forwards, b) = p.forwards \o <<b>>
        BY <3>1, AppendIsConcat
      <3>4. Append(r \o p.forwards, b) = (r \o p.forwards) \o <<b>>
        BY <3>2, AppendIsConcat
      <3>5. (r \o p.forwards) \o <<b>> = r \o (p.forwards \o <<b>>)
        <4> DEFINE q == p.forwards
                   u == <<b>>
        <4>1. q \in Seq(Blocks) /\ u \in Seq(Blocks)
          BY <3>1
        <4> HIDE DEF q, u
        <4>2. (r \o q) \o u = r \o (q \o u)
          BY <3>1, <4>1, ConcatAssociative
        <4> QED BY <4>2 DEF q, u
      <3> QED BY <3>3, <3>4, <3>5 DEF r
    <2> QED BY <2>1, <2>2, <2>4, <1>1, <1>4 DEF p, RolledBack, UpdatePath
  <1> QED BY <1>3, <1>4

(* update_mutator_set: when nothing was torn it succeeds, so memory and    *)
(* disk hold the new tip's mutator set under the new tip's label.          *)
LEMMA UpdateMutatorSetIInv == IInv /\ UpdateMutatorSet => IInv'
  <1> SUFFICES ASSUME IInv, UpdateMutatorSet PROVE IInv'
    OBVIOUS
  <1> DEFINE b == job.block
             path == UpdatePath(amsMem.label, b)
             new  == RolledBack(amsMem.content, Len(path.backwards)) \o Append(path.forwards, b)
             good == Reversible(amsMem.content, path.backwards) /\ new = Chain[b]
  <1> USE DEF IInv
  <1>0. /\ pc = "ams" /\ job.asTip /\ tip = b /\ b \in Known /\ b \in Blocks /\ b # Genesis
        /\ mmrMem = Chain[tip] /\ ~exiting
        /\ UNCHANGED <<stored, tip, lastFile, fileRec, fileLen, mmrDisk, mmrMem, light, job,
                       kills, torn>>
    BY DEF UpdateMutatorSet, JobInv, MmrInv, TypeOK, histVars, Panic
  <1>1. IF good
        THEN /\ amsMem' = [content |-> new, label |-> b]
             /\ amsDisk' = amsMem'
             /\ pc' = "wallet"
             /\ UNCHANGED <<exiting, panicked>>
        ELSE /\ amsMem' = [amsMem EXCEPT !.content = Garbled]
             /\ pc' = "flush_ams" /\ exiting' = TRUE
             /\ panicked' = TRUE
             /\ UNCHANGED amsDisk
    BY DEF UpdateMutatorSet, histVars, Panic
  <1>2. ~torn => good
    <2> SUFFICES ASSUME ~torn PROVE good
      OBVIOUS
    <2>1. amsMem = amsDisk /\ amsDisk # EmptyAms
          /\ amsDisk.label \in Blocks /\ amsDisk.content = Chain[amsDisk.label]
      BY <1>0 DEF AmsInv
    <2>2. amsMem.label \in Blocks /\ amsMem.content = Chain[amsMem.label]
      BY <2>1
    <2> QED BY <2>2, <1>0, UpdateReachesBlock
  <1> HIDE DEF path
  <1>3. CASE good
    <2>1. /\ amsMem' = [content |-> Chain[b], label |-> b]
          /\ amsDisk' = amsMem' /\ pc' = "wallet" /\ UNCHANGED <<exiting, panicked>>
      BY <1>1, <1>3
    <2> HIDE DEF good, new
    <2> USE <1>0, <2>1
    <2>2. amsMem' \in Ams /\ amsDisk' \in Ams
      BY GenesisFacts DEF Ams
    <2>3. TypeOK'
      BY <2>2 DEF TypeOK, Steps
    <2>4. tip' \in Known' /\ AncestorsKnown' /\ \A f \in Files' : fileRec'[f] <= fileLen'[f]
      BY DEF AncestorsKnown, Known, Files
    <2>5. JobInv'
      BY DEF JobInv, Known
    <2>6. MmrInv'
      BY DEF MmrInv, Known
    <2>7. amsDisk' # EmptyAms /\ amsDisk'.label = b /\ amsDisk'.content = Chain[b]
      BY GenesisFacts DEF EmptyAms
    <2>8. ~torn' => ~panicked' /\ AmsInv' /\ FileInv'
      BY <2>7 DEF AmsInv, FileInv, Files
    <2> QED BY <2>3, <2>4, <2>5, <2>6, <2>8
  <1>4. CASE ~good
    <2>1. /\ amsMem' = [amsMem EXCEPT !.content = Garbled]
          /\ pc' = "flush_ams" /\ exiting' = TRUE /\ panicked' = TRUE
          /\ UNCHANGED amsDisk /\ torn'
      BY <1>0, <1>1, <1>2, <1>4 DEF TypeOK
    <2> HIDE DEF good, new
    <2> USE <1>0, <2>1
    <2>2. amsMem' \in Ams
      <3>1. Garbled \in Seq(Blocks \cup {NoBlock})
        BY DEF Garbled
      <3> QED BY <3>1 DEF TypeOK, Ams
    <2>3. TypeOK'
      BY <2>2 DEF TypeOK, Steps
    <2>4. tip' \in Known' /\ AncestorsKnown' /\ \A f \in Files' : fileRec'[f] <= fileLen'[f]
      BY DEF AncestorsKnown, Known, Files
    <2>5. JobInv'
      BY DEF JobInv, Known
    <2>6. MmrInv'
      BY DEF MmrInv, Known
    <2> QED BY <2>3, <2>4, <2>5, <2>6
  <1> QED BY <1>3, <1>4

(* The light state follows the tip ...                                     *)
LEMMA UpdateLightStateIInv == IInv /\ UpdateLightState => IInv'
  <1> SUFFICES ASSUME IInv, UpdateLightState PROVE IInv'
    OBVIOUS
  <1> USE DEF IInv, UpdateLightState, diskVars, histVars
  <1>1. TypeOK'
    BY DEF TypeOK, Ams, Steps, JobInv
  <1>2. tip' \in Known' /\ AncestorsKnown' /\ \A f \in Files' : fileRec'[f] <= fileLen'[f]
    BY DEF AncestorsKnown, Known, Files
  <1>3. JobInv'
    BY DEF JobInv, Known
  <1>4. MmrInv'
    BY DEF MmrInv, Known
  <1>5. ~torn' => ~panicked' /\ AmsInv' /\ FileInv'
    BY DEF AmsInv, FileInv, Files, JobInv
  <1> QED BY <1>1, <1>2, <1>3, <1>4, <1>5

(* ... or the wallet fails first and the node exits with an old one.       *)
LEMMA WalletUpdateFailsIInv == IInv /\ WalletUpdateFails => IInv'
  <1> SUFFICES ASSUME IInv, WalletUpdateFails PROVE IInv'
    OBVIOUS
  <1> USE DEF IInv, WalletUpdateFails, diskVars, memVars, histVars
  <1>1. TypeOK'
    BY DEF TypeOK, Ams, Steps
  <1>2. tip' \in Known' /\ AncestorsKnown' /\ \A f \in Files' : fileRec'[f] <= fileLen'[f]
    BY DEF AncestorsKnown, Known, Files
  <1>3. JobInv'
    BY DEF JobInv, Known
  <1>4. MmrInv'
    BY DEF MmrInv, Known
  <1>5. ~torn' => ~panicked' /\ AmsInv' /\ FileInv'
    BY DEF AmsInv, FileInv, Files, JobInv
  <1> QED BY <1>1, <1>2, <1>3, <1>4, <1>5

(* flush_databases sets the label to what it already is.                   *)
LEMMA FlushMutatorSetIInv == IInv /\ FlushMutatorSet => IInv'
  <1> SUFFICES ASSUME IInv, FlushMutatorSet PROVE IInv'
    OBVIOUS
  <1> USE DEF IInv, FlushMutatorSet, histVars
  <1>1. amsMem' \in Ams /\ amsDisk' = amsMem'
    BY DEF TypeOK, Ams
  <1>2. TypeOK'
    BY <1>1 DEF TypeOK, Steps
  <1>3. tip' \in Known' /\ AncestorsKnown' /\ \A f \in Files' : fileRec'[f] <= fileLen'[f]
    BY DEF AncestorsKnown, Known, Files
  <1>4. JobInv'
    BY DEF JobInv, Known
  <1>5. MmrInv'
    BY DEF MmrInv, Known
  <1>6. ~torn' => amsMem' = amsMem
    <2> SUFFICES ASSUME ~torn PROVE amsMem' = amsMem
      OBVIOUS
    <2>1. amsMem.label = tip
      BY DEF AmsInv
    <2> QED BY <2>1 DEF TypeOK, Ams
  <1>7. ~torn' => ~panicked' /\ AmsInv' /\ FileInv'
    BY <1>1, <1>6 DEF AmsInv, FileInv, Files
  <1> QED BY <1>2, <1>3, <1>4, <1>5, <1>7

(* The block-MMR is persisted as it is in memory.                          *)
LEMMA FlushBlockMmrIInv == IInv /\ FlushBlockMmr => IInv'
  <1> SUFFICES ASSUME IInv, FlushBlockMmr PROVE IInv'
    OBVIOUS
  <1> USE DEF IInv, FlushBlockMmr, memVars, histVars
  <1>1. TypeOK'
    BY DEF TypeOK, Ams, Steps, NoJob, NoFile
  <1>2. tip' \in Known' /\ AncestorsKnown' /\ \A f \in Files' : fileRec'[f] <= fileLen'[f]
    BY DEF AncestorsKnown, Known, Files
  <1>3. JobInv'
    BY DEF JobInv, Known, NoJob
  <1>4. MmrInv'
    BY DEF MmrInv, Known, NoJob
  <1>5. ~torn' => ~panicked' /\ AmsInv' /\ FileInv'
    BY DEF AmsInv, FileInv, Files
  <1> QED BY <1>1, <1>2, <1>3, <1>4, <1>5

(* The search leaves an ephemeral rollback in memory, and only there.      *)
LEMMA SearchIInv ==
    ASSUME IInv, NEW x \in Blocks, SearchMutatorSetUpdate(x)
    PROVE  IInv'
  <1> DEFINE leave == find_path(tip, x).backwards
             c     == IF Reversible(amsMem.content, leave)
                      THEN RolledBack(amsMem.content, Len(leave)) ELSE Garbled
  <1> USE DEF IInv
  <1>0. /\ pc = "idle" /\ pc' = "search"
        /\ amsMem' = [amsMem EXCEPT !.content = c] /\ amsDisk' = amsMem
        /\ UNCHANGED <<stored, tip, lastFile, fileRec, fileLen, mmrDisk, mmrMem, light,
                       job, exiting, kills, torn, panicked>>
    BY DEF SearchMutatorSetUpdate, histVars
  <1>1. c \in Seq(Blocks \cup {NoBlock})
    <2>1. Len(leave) \in Nat
      <3>1. Len(Chain[tip]) \in Nat /\ tip \in Blocks
        BY ChainFacts DEF TypeOK
      <3> QED BY <3>1, PathLeads
    <2>2. Garbled \in Seq(Blocks \cup {NoBlock})
      BY DEF Garbled
    <2>3. amsMem.content \in Seq(Blocks \cup {NoBlock})
      BY DEF TypeOK, Ams
    <2> HIDE DEF leave
    <2>4. ASSUME Reversible(amsMem.content, leave)
          PROVE  RolledBack(amsMem.content, Len(leave)) \in Seq(Blocks \cup {NoBlock})
      <3>1. Len(amsMem.content) - Len(leave) \in 0..Len(amsMem.content)
        BY <2>1, <2>3, <2>4 DEF Reversible
      <3> QED BY <3>1, <2>3, SubSeqProperties DEF RolledBack
    <2> QED BY <2>2, <2>4
  <1> HIDE DEF c
  <1>2. amsMem' \in Ams /\ amsDisk' \in Ams /\ amsMem'.label = amsMem.label
    BY <1>0, <1>1 DEF TypeOK, Ams
  <1>3. TypeOK'
    BY <1>0, <1>2 DEF TypeOK, Steps
  <1>4. tip' \in Known' /\ AncestorsKnown' /\ \A f \in Files' : fileRec'[f] <= fileLen'[f]
    BY <1>0 DEF AncestorsKnown, Known, Files
  <1>5. JobInv'
    BY <1>0 DEF JobInv, Known
  <1>6. MmrInv'
    BY <1>0 DEF MmrInv, Known
  <1>7. ~torn' => ~panicked' /\ AmsInv' /\ FileInv'
    BY <1>0, <1>2 DEF AmsInv, FileInv, Files
  <1> QED BY <1>3, <1>4, <1>5, <1>6, <1>7

(* `drop_unpersisted' takes the rollback back.                             *)
LEMMA DropUnpersistedIInv == IInv /\ DropUnpersisted => IInv'
  <1> SUFFICES ASSUME IInv, DropUnpersisted PROVE IInv'
    OBVIOUS
  <1> USE DEF IInv, DropUnpersisted, diskVars, histVars
  <1>1. TypeOK'
    BY DEF TypeOK, Ams, Steps
  <1>2. tip' \in Known' /\ AncestorsKnown' /\ \A f \in Files' : fileRec'[f] <= fileLen'[f]
    BY DEF AncestorsKnown, Known, Files
  <1>3. JobInv'
    BY DEF JobInv, Known
  <1>4. MmrInv'
    BY DEF MmrInv, Known
  <1>5. ~torn' => ~panicked' /\ AmsInv' /\ FileInv'
    BY DEF AmsInv, FileInv, Files
  <1> QED BY <1>1, <1>2, <1>3, <1>4, <1>5

(* A shutdown between operations.                                          *)
LEMMA ShutdownIInv == IInv /\ Shutdown => IInv'
  <1> SUFFICES ASSUME IInv, Shutdown PROVE IInv'
    OBVIOUS
  <1> USE DEF IInv, Shutdown, diskVars, memVars, histVars
  <1>1. TypeOK'
    BY DEF TypeOK, Ams, Steps
  <1>2. tip' \in Known' /\ AncestorsKnown' /\ \A f \in Files' : fileRec'[f] <= fileLen'[f]
    BY DEF AncestorsKnown, Known, Files
  <1>3. JobInv'
    BY DEF JobInv, Known, NoJob
  <1>4. MmrInv'
    BY DEF MmrInv, Known, NoJob
  <1>5. ~torn' => ~panicked' /\ AmsInv' /\ FileInv'
    BY DEF AmsInv, FileInv, Files, JobInv
  <1> QED BY <1>1, <1>2, <1>3, <1>4, <1>5

(* A cancelled search: not torn only if it had not rolled anything back.   *)
LEMMA CancelIInv == IInv /\ CancelSearchAtShutdown => IInv'
  <1> SUFFICES ASSUME IInv, CancelSearchAtShutdown PROVE IInv'
    OBVIOUS
  <1> USE DEF IInv, CancelSearchAtShutdown, diskVars, memVars
  <1>1. TypeOK'
    BY DEF TypeOK, Ams, Steps
  <1>2. tip' \in Known' /\ AncestorsKnown' /\ \A f \in Files' : fileRec'[f] <= fileLen'[f]
    BY DEF AncestorsKnown, Known, Files
  <1>3. JobInv'
    BY DEF JobInv, Known
  <1>4. MmrInv'
    BY DEF MmrInv, Known
  <1>5. ~torn' => amsMem = amsDisk
    <2> SUFFICES ASSUME ~torn' PROVE amsMem = amsDisk
      OBVIOUS
    <2>1. amsMem.content = amsDisk.content /\ amsMem.label = amsDisk.label
      BY DEF AmsInv, TypeOK
    <2>2. /\ amsMem = [content |-> amsMem.content, label |-> amsMem.label]
          /\ amsDisk = [content |-> amsDisk.content, label |-> amsDisk.label]
      BY DEF TypeOK, Ams
    <2> QED BY <2>1, <2>2
  <1>6. ~torn' => ~panicked' /\ AmsInv' /\ FileInv'
    BY <1>5 DEF AmsInv, FileInv, Files, TypeOK
  <1> QED BY <1>1, <1>2, <1>3, <1>4, <1>6

(* A kill outside the windows leaves databases that agree.                 *)
LEMMA KillIInv == IInv /\ Kill => IInv'
  <1> SUFFICES ASSUME IInv, Kill PROVE IInv'
    OBVIOUS
  <1> USE DEF IInv, Kill, diskVars
  <1>1. TypeOK'
    <2>1. job' \in [block : Blocks \cup {NoBlock}, asTip : BOOLEAN, file : Files \cup {NoFile}]
      BY DEF NoJob
    <2>2. kills' \in 0..MaxKills /\ torn' \in BOOLEAN
      BY ArchivalAssumption DEF TypeOK
    <2> QED BY <2>1, <2>2, GenesisFacts DEF TypeOK, Ams, Steps, Files
  <1>2. tip' \in Known' /\ AncestorsKnown' /\ \A f \in Files' : fileRec'[f] <= fileLen'[f]
    BY DEF AncestorsKnown, Known, Files
  <1>3. JobInv'
    BY DEF JobInv, Known
  <1>4. MmrInv'
    BY DEF MmrInv, Known, NoJob
  <1>5. ~torn' => ~panicked' /\ AmsInv' /\ FileInv'
    <2> SUFFICES ASSUME ~torn' PROVE ~panicked' /\ AmsInv' /\ FileInv'
      OBVIOUS
    <2>1. ~torn /\ ~TipAheadOfMutatorSet /\ ~FileWithoutRecord
      BY DEF TypeOK
    <2>2. AmsInv'
      BY <2>1, ArchivalAssumption DEF AmsInv, TipAheadOfMutatorSet
    <2>3. FileInv'
      BY <2>1 DEF FileInv, FileWithoutRecord, Files
    <2> QED BY <2>1, <2>2, <2>3
  <1> QED BY <1>1, <1>2, <1>3, <1>4, <1>5

------------------------------------------------------------------------------
(* The inductive invariant holds of every reachable state.                 *)
LEMMA Invariance == Spec => []IInv
  <1>1. Init => IInv
    BY InitIInv
  <1>2. IInv /\ [Next]_vars => IInv'
    <2> SUFFICES ASSUME IInv, [Next]_vars PROVE IInv'
      OBVIOUS
    <2>1. CASE Open \/ CheckSyncLabel
      BY <2>1, OpenIInv, CheckSyncLabelIInv
    <2>2. ASSUME NEW b \in Blocks, BeginSetNewTip(b) \/ BeginStoreBlockNotTip(b)
          PROVE  IInv'
      <3>1. CASE BeginSetNewTip(b)
        BY <3>1, BeginIInv DEF BeginSetNewTip
      <3>2. CASE BeginStoreBlockNotTip(b)
        BY <3>2, BeginIInv DEF BeginStoreBlockNotTip
      <3> QED BY <2>2, <3>1, <3>2
    <2>3. CASE StoreBlock \/ WriteBlockIndex
      BY <2>3, StoreBlockIInv, WriteBlockIndexIInv
    <2>4. CASE AppendToArchivalBlockMmr \/ UpdateMutatorSet
      BY <2>4, AppendIInv, UpdateMutatorSetIInv
    <2>5. CASE UpdateLightState \/ WalletUpdateFails
      BY <2>5, UpdateLightStateIInv, WalletUpdateFailsIInv
    <2>6. CASE FlushMutatorSet \/ FlushBlockMmr
      BY <2>6, FlushMutatorSetIInv, FlushBlockMmrIInv
    <2>7. ASSUME NEW x \in Blocks, SearchMutatorSetUpdate(x)
          PROVE  IInv'
      BY <2>7, SearchIInv
    <2>8. CASE DropUnpersisted
      BY <2>8, DropUnpersistedIInv
    <2>9. CASE Shutdown \/ CancelSearchAtShutdown
      BY <2>9, ShutdownIInv, CancelIInv
    <2>10. CASE Kill
      BY <2>10, KillIInv
    <2>11. CASE UNCHANGED vars
      <3> USE <2>11 DEF vars, diskVars, memVars, histVars, IInv
      <3>1. TypeOK'
        BY DEF TypeOK, Ams, Steps, Files
      <3>2. tip' \in Known' /\ AncestorsKnown' /\ \A f \in Files' : fileRec'[f] <= fileLen'[f]
        BY DEF AncestorsKnown, Known, Files
      <3>3. JobInv'
        BY DEF JobInv, Known
      <3>4. MmrInv'
        BY DEF MmrInv, Known
      <3>5. ~torn' => ~panicked' /\ AmsInv' /\ FileInv'
        BY DEF AmsInv, FileInv, Files
      <3> QED BY <3>1, <3>2, <3>3, <3>4, <3>5
    <2> QED BY <2>1, <2>2, <2>3, <2>4, <2>5, <2>6, <2>7, <2>8, <2>9, <2>10, <2>11 DEF Next
  <1> QED BY <1>1, <1>2, PTL DEF Spec

(* Every variable stays in its domain.                                     *)
THEOREM TypeCorrect == Spec => []TypeOK
  <1>1. IInv => TypeOK
    BY DEF IInv
  <1> QED BY <1>1, Invariance, PTL

(* A node that serves requests serves one block: light state, tip and      *)
(* mutator set agree after any history of reorganisations, kills and       *)
(* restarts in which no kill fell into one of the two windows.             *)
THEOREM OneTipServed == Spec => []ServesOneTip
  <1>1. IInv => ServesOneTip
    <2> SUFFICES ASSUME IInv, pc = "idle", ~torn
                 PROVE  /\ light = tip
                        /\ amsMem = [content |-> Chain[tip], label |-> tip]
                        /\ amsDisk = amsMem
      BY DEF ServesOneTip
    <2>1. /\ light = tip /\ amsMem = amsDisk
          /\ amsDisk.label = tip /\ amsDisk.content = Chain[tip]
      BY DEF IInv, AmsInv
    <2>2. amsDisk = [content |-> amsDisk.content, label |-> amsDisk.label]
      BY DEF IInv, TypeOK, Ams
    <2> QED BY <2>1, <2>2
  <1> QED BY <1>1, Invariance, PTL

(* The block-MMR is always the path to a known block, also after kills.    *)
THEOREM MmrSound == Spec => []MmrIsPathToKnownBlock
  <1>1. IInv => MmrIsPathToKnownBlock
    BY DEF IInv, MmrInv, MmrIsPathToKnownBlock
  <1> QED BY <1>1, Invariance, PTL

(* The assertions of set_new_tip, store_block and start-up hold, unless    *)
(* the process once ended inside one of the windows.                       *)
THEOREM AssertionsHold == Spec => []PanicOnlyAfterTornUpdate
  <1>1. IInv => PanicOnlyAfterTornUpdate
    BY DEF IInv, PanicOnlyAfterTornUpdate
  <1> QED BY <1>1, Invariance, PTL

(* The block index is closed under parents and never runs ahead of the     *)
(* block files.                                                            *)
THEOREM IndexComplete == Spec => []IndexIsComplete
  <1>1. IInv => IndexIsComplete
    <2> SUFFICES ASSUME IInv PROVE IndexIsComplete
      OBVIOUS
    <2>1. ASSUME NEW b \in stored PROVE Prev(b) \in Known
      <3>1. b \in Blocks /\ b # Genesis /\ b \in Known
        BY <2>1 DEF IInv, TypeOK, Known
      <3>2. Len(Chain[b]) - 1 \in 1..Len(Chain[b])
        BY <3>1, ParentFacts
      <3> QED BY <3>1, <3>2 DEF IInv, AncestorsKnown, Prev
    <2> QED BY <2>1 DEF IInv, IndexIsComplete
  <1> QED BY <1>1, Invariance, PTL

(* A set_new_tip that runs to its end leaves the canonical chain in the    *)
(* persisted block-MMR.                                                    *)
THEOREM BlockMmrMended == Spec => NewTipMendsBlockMmr
  <1>1. IInv /\ [Next]_vars =>
          [pc = "flush_mmr" /\ pc' = "idle" /\ job.asTip => mmrDisk' = Chain[tip]]_vars
    <2> SUFFICES ASSUME IInv, Next, pc = "flush_mmr", pc' = "idle", job.asTip
                 PROVE  mmrDisk' = Chain[tip]
      OBVIOUS
    <2>1. FlushBlockMmr
      BY DEF Next, Open, CheckSyncLabel, BeginSetNewTip, BeginStoreBlockNotTip, Begin,
             StoreBlock, WriteBlockIndex, AppendToArchivalBlockMmr, UpdateMutatorSet,
             UpdateLightState, WalletUpdateFails, FlushMutatorSet, SearchMutatorSetUpdate,
             DropUnpersisted, Shutdown, CancelSearchAtShutdown, Kill
    <2>2. ~exiting /\ mmrDisk' = mmrMem
      BY <2>1 DEF FlushBlockMmr, IInv, TypeOK
    <2> QED BY <2>2 DEF IInv, MmrInv
  <1> QED BY <1>1, Invariance, PTL DEF Spec, NewTipMendsBlockMmr
==============================================================================
