---------------------------- MODULE MempoolProofs ----------------------------
(***************************************************************************)
(* Proofs about module Mempool, for any transactions, fees, sizes and      *)
(* limits, any block tree and any number of upgrades under way.            *)
(***************************************************************************)
EXTENDS Mempool, BlockTreeTheorems

(* What a step may do to the mempool: keep some transactions ...           *)
Keeps(S) ==
    /\ S \subseteq Pool /\ S \cap wallet \subseteq wallet' /\ wallet' \subseteq wallet
    /\ tx_dictionary' = [u \in S |-> tx_dictionary[u]]
    /\ queue' = [u \in S |-> queue[u]]

(* ... or take in t, without those that conflict with it.                  *)
TakesIn(t, e, L) ==
    /\ L \subseteq {t} \cup (Pool \ transaction_conflicts_with(t))
    /\ tx_dictionary' = [u \in L |-> IF u = t THEN e ELSE tx_dictionary[u]]
    /\ queue' = [u \in L |-> IF u = t THEN fee_density(t, e) ELSE queue[u]]
    /\ wallet' = (wallet \ transaction_conflicts_with(t)) \cup {t}

(* Shrinking adds nothing.                                                 *)
LEMMA ShrinkSubset ==
    ASSUME NEW d, NEW q, NEW K \in shrink_to_max_size(d, q), NEW L \in shrink_to_max_length(K, q)
    PROVE  K \subseteq DOMAIN d /\ L \subseteq K
  BY DEF shrink_to_max_size, shrink_to_max_length, ShrinkOutcomes

(* `mempool_insert' leaves everything alone, or takes the transaction in.  *)
LEMMA InsertEffect ==
    ASSUME NEW t, NEW e, Insert(t, e)
    PROVE  UNCHANGED <<poolVars, wallet>> \/ \E L : TakesIn(t, e, L)
  <1> DEFINE C == transaction_conflicts_with(t)
             d == Put(t, e, Restrict(tx_dictionary, Pool \ C))
             q == Put(t, fee_density(t, e), Restrict(queue, Pool \ C))
             D == {t} \cup (Pool \ C)
  <1>1. d = [u \in D |-> IF u = t THEN e ELSE tx_dictionary[u]]
    BY DEF Restrict, Put
  <1>2. q = [u \in D |-> IF u = t THEN fee_density(t, e) ELSE queue[u]]
    BY DEF Restrict, Put
  <1>3. ASSUME NEW K \in shrink_to_max_size(d, q), NEW L \in shrink_to_max_length(K, q),
               tx_dictionary' = Restrict(d, L), queue' = Restrict(q, L), wallet' = (wallet \ C) \cup {t}
        PROVE  TakesIn(t, e, L)
    <2> HIDE DEF d, q, C
    <2>1. L \subseteq DOMAIN d
      BY <1>3, ShrinkSubset
    <2>2. L \subseteq D
      BY <2>1, <1>1
    <2>3. /\ tx_dictionary' = [u \in L |-> IF u = t THEN e ELSE tx_dictionary[u]]
          /\ queue' = [u \in L |-> IF u = t THEN fee_density(t, e) ELSE queue[u]]
      BY <2>2, <1>1, <1>2, <1>3 DEF Restrict
    <2> QED BY <2>2, <2>3, <1>3 DEF TakesIn, C
  <1>4. CASE Replaces(t, e, C)
    <2>1. \E K \in shrink_to_max_size(d, q) : \E L \in shrink_to_max_length(K, q) :
             /\ tx_dictionary' = Restrict(d, L) /\ queue' = Restrict(q, L)
             /\ wallet' = (wallet \ C) \cup {t}
      BY <1>4 DEF Insert
    <2> HIDE DEF d, q, C
    <2> QED BY <2>1, <1>3
  <1>5. CASE ~Replaces(t, e, C)
    BY <1>5 DEF Insert
  <1> QED BY <1>4, <1>5

(* What remains unchanged is kept.                                         *)
LEMMA UnchangedKeeps ==
    ASSUME TypeOK, UNCHANGED <<poolVars, wallet>>
    PROVE  Keeps(Pool)
  BY DEF TypeOK, Keeps, poolVars, Pool

LEMMA RemoveKeeps ==
    ASSUME NEW S, Remove(S)
    PROVE  Keeps(Pool \ S)
  BY DEF Remove, Keeps, Restrict

LEMMA MempoolInsertEffect ==
    ASSUME TypeOK, NEW t \in Txs, NEW proof \in Proofs, NEW x \in Blocks, NEW origin \in Origins,
           mempool_insert(t, proof, x, origin)
    PROVE  \/ Keeps(Pool)
           \/ \E e \in Entries : \E L : TakesIn(t, e, L) /\ e.synced = x
  <1> DEFINE e == [proof |-> proof, synced |-> x, origin |-> origin]
  <1>1. e \in Entries /\ e.synced = x
    BY DEF Entries
  <1>2. Insert(t, e) \/ InsertAgain(t, e)
    BY DEF mempool_insert
  <1> HIDE DEF e
  <1>3. CASE InsertAgain(t, e)
    BY <1>3, UnchangedKeeps DEF InsertAgain
  <1>4. CASE Insert(t, e)
    BY <1>4, <1>1, InsertEffect, UnchangedKeeps
  <1> QED BY <1>2, <1>3, <1>4

(* Every step keeps some transactions, takes one in that is confirmable    *)
(* for the block it is synced to, or writes the results of an update.      *)
LEMMA PoolEffect ==
    ASSUME TypeOK, Next
    PROVE  \/ \E S : Keeps(S)
           \/ \E t \in Txs, e \in Entries : \E L : TakesIn(t, e, L) /\ Confirmable(t, e.synced)
           \/ HandleUpdatedMempoolTxs
  <1> DEFINE Effect == \/ \E S : Keeps(S)
                       \/ \E t \in Txs, e \in Entries : \E L :
                             TakesIn(t, e, L) /\ Confirmable(t, e.synced)
  <1>1. ASSUME UNCHANGED <<poolVars, wallet>> PROVE Effect
    BY <1>1, UnchangedKeeps
  <1>2. ASSUME NEW t \in PeerTxs, NEW proof \in Proofs, NEW x \in Blocks, PeerTransaction(t, proof, x)
        PROVE  Effect
    <2>1. t \in Txs /\ Confirmable(t, x) /\ mempool_insert(t, proof, x, "foreign") /\ "foreign" \in Origins
      BY <1>2, MempoolAssumption DEF PeerTransaction, Origins
    <2> QED BY <2>1, MempoolInsertEffect
  <1>3. ASSUME NEW t \in OwnTxs, NEW proof \in Proofs, NEW x \in tips, NEW origin \in Origins,
               SubmitTransaction(t, proof, x, origin)
        PROVE  Effect
    <2>1. t \in Txs /\ x \in Blocks /\ Confirmable(t, x) /\ mempool_insert(t, proof, x, origin)
      BY <1>3, MempoolAssumption DEF SubmitTransaction, TypeOK
    <2> QED BY <2>1, MempoolInsertEffect
  <1>4. ASSUME ClearMempool PROVE Effect
    BY <1>4, RemoveKeeps DEF ClearMempool
  <1>5. ASSUME NEW S \in SUBSET Pool, PruneStale(S) PROVE Effect
    BY <1>5, RemoveKeeps DEF PruneStale
  <1>6. ASSUME SetNewTip PROVE Effect
    <2> DEFINE b     == Head(batch)
               start == IF tip_digest = Prev(b) THEN Pool ELSE {}
               keep  == {t \in start : Inputs[t] \cap Spends[b] = {} /\ Updatable(t)}
    <2>1. PICK K \in shrink_to_max_size(Restrict(tx_dictionary, keep), queue) :
             /\ tx_dictionary' = Restrict(tx_dictionary, K) /\ queue' = Restrict(queue, K)
             /\ wallet' = wallet \ (start \ keep)
      BY <1>6 DEF SetNewTip
    <2>2. keep \subseteq Pool /\ keep \subseteq start
      OBVIOUS
    <2> HIDE DEF keep, start
    <2>3. K \subseteq keep
      BY <2>1 DEF shrink_to_max_size, ShrinkOutcomes, Restrict
    <2>4. Keeps(K)
      BY <2>1, <2>2, <2>3 DEF Keeps, Restrict
    <2> QED BY <2>4
  <1>7. ASSUME NEW j \in upgrades, FinishUpgrade(j) PROVE Effect
    <2>1. j.tx \in Txs /\ j.proof \in Proofs /\ j.origin \in Origins /\ tip \in Blocks
      BY <1>7 DEF TypeOK
    <2>2. CASE Confirmable(j.tx, tip)
      <3>1. mempool_insert(j.tx, j.proof, tip, j.origin)
        BY <1>7, <2>2 DEF FinishUpgrade
      <3> QED BY <2>1, <2>2, <3>1, MempoolInsertEffect
    <2>3. CASE ~Confirmable(j.tx, tip)
      BY <1>7, <2>3, RemoveKeeps DEF FinishUpgrade
    <2> QED BY <2>2, <2>3
  <1>8. ASSUME \/ \E bs \in BlockLists : NewBlocks(bs)
               \/ \E b \in Blocks : SelfGuessedBlock(b)
               \/ \E j \in updater.jobs : UpdateJob(j)
               \/ UpdateFails
               \/ \E t \in Pool : \E raised \in {t, Gobbled[t]} : UpgradeProofCollection(t, raised)
               \/ \E t, u \in Pool : UpgradeByMerge(t, u)
               \/ \E j \in upgrades : RestartUpgrade(j) \/ AbandonUpgrade(j)
        PROVE  Effect
    BY <1>1, <1>8 DEF NewBlocks, SelfGuessedBlock, UpdateJob, UpdateFails, UpgradeProofCollection,
                      UpgradeByMerge, SpawnProofUpgrader, RestartUpgrade, AbandonUpgrade
  <1> QED BY <1>2, <1>3, <1>4, <1>5, <1>6, <1>7, <1>8 DEF Next
------------------------------------------------------------------------------
LEMMA FeeDensityType ==
    ASSUME NEW t \in Txs, NEW e \in Entries
    PROVE  fee_density(t, e) \in [fee : Nat, size : Nat \ {0}]
  BY MempoolAssumption DEF fee_density, SizeOf, Entries

PoolTypeOK ==
    /\ Pool \subseteq Txs /\ tx_dictionary \in [Pool -> Entries]
    /\ queue \in [Pool -> [fee : Nat, size : Nat \ {0}]]
    /\ wallet \subseteq Txs

LEMMA PoolTypeStep ==
    ASSUME TypeOK, Next
    PROVE  PoolTypeOK'
  <1>1. ASSUME NEW S, Keeps(S) PROVE PoolTypeOK'
    BY <1>1 DEF Keeps, PoolTypeOK, TypeOK, Pool
  <1>2. ASSUME NEW t \in Txs, NEW e \in Entries, NEW L, TakesIn(t, e, L) PROVE PoolTypeOK'
    BY <1>2, FeeDensityType DEF TakesIn, PoolTypeOK, TypeOK, Pool
  <1>3. ASSUME HandleUpdatedMempoolTxs PROVE PoolTypeOK'
    <2>1. \A t \in Pool : tx_dictionary'[t] \in Entries
      <3> SUFFICES ASSUME NEW t \in Pool PROVE tx_dictionary'[t] \in Entries
        OBVIOUS
      <3> DEFINE r == CHOOSE r \in updater.done : r.tx = t
      <3>1. CASE \E x \in updater.done : x.tx = t
        <4>1. r \in updater.done
          BY <3>1
        <4>2. r.synced \in Blocks
          BY <4>1 DEF TypeOK
        <4>3. tx_dictionary'[t] = [tx_dictionary[t] EXCEPT !.proof = "single", !.synced = r.synced]
          BY <1>3, <3>1 DEF HandleUpdatedMempoolTxs
        <4> HIDE DEF r
        <4> QED BY <4>2, <4>3 DEF TypeOK, Entries, Proofs
      <3>2. CASE ~\E x \in updater.done : x.tx = t
        BY <1>3, <3>2 DEF HandleUpdatedMempoolTxs, TypeOK
      <3> QED BY <3>1, <3>2
    <2>2. /\ DOMAIN tx_dictionary' = Pool /\ tx_dictionary' = [t \in Pool |-> tx_dictionary'[t]]
          /\ queue' = queue /\ wallet' = wallet
      BY <1>3 DEF HandleUpdatedMempoolTxs
    <2> QED BY <2>1, <2>2 DEF PoolTypeOK, TypeOK, Pool
  <1> QED BY <1>1, <1>2, <1>3, PoolEffect

(* Rest of the type invariant.                                             *)
RestTypeOK ==
    /\ tip \in Blocks /\ tips \subseteq Blocks /\ tip_digest \in Blocks
    /\ batch \in Seq(Blocks) /\ jobs \subseteq Jobs
    /\ updater \in [state : {"none", "running", "dead"}, jobs : SUBSET Jobs,
                     done : SUBSET [tx : Txs, synced : Blocks]]
    /\ upgrades \subseteq [tx : Txs, proof : Proofs, synced : Blocks, origin : Origins,
                            task : {"user", "upgrader"}]

LEMMA RestTypeStep ==
    ASSUME TypeOK, Next
    PROVE  RestTypeOK'
  <1> DEFINE Quiet == UNCHANGED <<tip, tips, tip_digest, batch, jobs, updater>>
  <1>1. ASSUME Quiet, UNCHANGED upgrades PROVE RestTypeOK'
    BY <1>1 DEF TypeOK, RestTypeOK
  <1>2. ASSUME NEW t \in PeerTxs, NEW proof \in Proofs, NEW x \in Blocks, PeerTransaction(t, proof, x)
        PROVE  RestTypeOK'
    BY <1>1, <1>2 DEF PeerTransaction
  <1>3. ASSUME NEW t \in OwnTxs, NEW proof \in Proofs, NEW x \in tips, NEW origin \in Origins,
               SubmitTransaction(t, proof, x, origin)
        PROVE  RestTypeOK'
    <2> DEFINE up == [tx |-> t, proof |-> IF SingleProver THEN "single" ELSE "collection",
                      synced |-> x, origin |-> "own", task |-> "user"]
    <2>1. Quiet /\ (upgrades' = upgrades \cup {up} \/ upgrades' = upgrades)
      BY <1>3 DEF SubmitTransaction
    <2>2. t \in Txs /\ x \in Blocks
      BY <1>3, MempoolAssumption DEF TypeOK
    <2>3. up \in [tx : Txs, proof : Proofs, synced : Blocks, origin : Origins, task : {"user", "upgrader"}]
      BY <2>2 DEF Proofs, Origins
    <2> HIDE DEF up
    <2> QED BY <2>1, <2>3 DEF TypeOK, RestTypeOK
  <1>4. ASSUME ClearMempool \/ \E S \in SUBSET Pool : PruneStale(S) PROVE RestTypeOK'
    BY <1>1, <1>4 DEF ClearMempool, PruneStale
  <1>5. ASSUME NEW bs \in Seq(Blocks), NewBlocks(bs) PROVE RestTypeOK'
    BY <1>5 DEF NewBlocks, TypeOK, RestTypeOK
  <1>6. ASSUME NEW bs \in BlockLists PROVE bs \in Seq(Blocks)
    BY <1>6, MempoolAssumption DEF BlockLists
  <1>7. ASSUME NEW b \in Blocks, SelfGuessedBlock(b) PROVE RestTypeOK'
    <2>1. <<b>> \in Seq(Blocks) /\ NewBlocks(<<b>>)
      BY <1>7 DEF SelfGuessedBlock
    <2> QED BY <1>5, <2>1
  <1>8. ASSUME SetNewTip PROVE RestTypeOK'
    <2> DEFINE b       == Head(batch)
               start   == IF tip_digest = Prev(b) THEN Pool ELSE {}
               keep    == {t \in start : Inputs[t] \cap Spends[b] = {} /\ Updatable(t)}
               newJobs == jobs \cup {[tx |-> t, synced |-> tx_dictionary[t].synced,
                                      from |-> Prev(b), to |-> b] : t \in keep}
    <2>1. batch # <<>> /\ batch' = Tail(batch) /\ upgrades' = upgrades
      BY <1>8 DEF SetNewTip
    <2>2. /\ tip' = b /\ tips' = tips \cup {b} /\ tip_digest' = b
          /\ IF Len(batch) = 1
             THEN updater' = [state |-> "running", jobs |-> newJobs, done |-> {}] /\ jobs' = {}
             ELSE jobs' = newJobs /\ UNCHANGED updater
      BY <1>8 DEF SetNewTip
    <2>3. b \in Blocks /\ batch' \in Seq(Blocks)
      BY <2>1 DEF TypeOK
    <2>4. keep \subseteq Pool
      OBVIOUS
    <2>5. keep # {} => Prev(b) \in Blocks
      BY DEF TypeOK
    <2> HIDE DEF b, keep
    <2>6. newJobs \subseteq Jobs
      BY <2>3, <2>4, <2>5 DEF TypeOK, Jobs, Entries
    <2> HIDE DEF newJobs
    <2>7. updater' \in [state : {"none", "running", "dead"}, jobs : SUBSET Jobs,
                        done : SUBSET [tx : Txs, synced : Blocks]]
      BY <2>2, <2>6 DEF TypeOK
    <2> QED BY <2>1, <2>2, <2>3, <2>6, <2>7 DEF TypeOK, RestTypeOK
  <1>9. ASSUME NEW j \in updater.jobs, UpdateJob(j) PROVE RestTypeOK'
    <2>1. j.tx \in Txs /\ j.to \in Blocks
      BY <1>9 DEF TypeOK, Jobs
    <2>2. CASE j.synced = j.from
      <3>1. updater' = [updater EXCEPT !.jobs = @ \ {j},
                                       !.done = @ \cup {[tx |-> j.tx, synced |-> j.to]}]
        BY <1>9, <2>2 DEF UpdateJob
      <3>2. [tx |-> j.tx, synced |-> j.to] \in [tx : Txs, synced : Blocks]
        BY <2>1
      <3>3. updater' \in [state : {"none", "running", "dead"}, jobs : SUBSET Jobs,
                          done : SUBSET [tx : Txs, synced : Blocks]]
        BY <3>1, <3>2 DEF TypeOK
      <3> QED BY <1>9, <3>3 DEF UpdateJob, TypeOK, RestTypeOK
    <2>3. CASE j.synced # j.from
      BY <1>9, <2>3 DEF UpdateJob, NoUpdater, TypeOK, RestTypeOK
    <2> QED BY <2>2, <2>3
  <1>10. ASSUME UpdateFails PROVE RestTypeOK'
    BY <1>10 DEF UpdateFails, NoUpdater, TypeOK, RestTypeOK
  <1>11. ASSUME HandleUpdatedMempoolTxs PROVE RestTypeOK'
    BY <1>11 DEF HandleUpdatedMempoolTxs, NoUpdater, TypeOK, RestTypeOK
  <1>12. ASSUME NEW t \in Txs, NEW origin \in Origins, SpawnProofUpgrader(t, origin) PROVE RestTypeOK'
    BY <1>12 DEF SpawnProofUpgrader, TypeOK, RestTypeOK, Proofs
  <1>13. ASSUME NEW t \in Pool, NEW raised \in {t, Gobbled[t]}, UpgradeProofCollection(t, raised)
         PROVE  RestTypeOK'
    <2>1. raised \in Txs /\ tx_dictionary[t].origin \in Origins
      BY MempoolAssumption DEF TypeOK, Entries
    <2> QED BY <1>12, <1>13, <2>1 DEF UpgradeProofCollection
  <1>14. ASSUME NEW t \in Pool, NEW u \in Pool, UpgradeByMerge(t, u) PROVE RestTypeOK'
    <2>1. Merged[t][u] \in Txs
      BY <1>14, MempoolAssumption DEF TypeOK, UpgradeByMerge
    <2> QED BY <1>12, <1>14, <2>1 DEF UpgradeByMerge, Origins
  <1>15. ASSUME NEW j \in upgrades, FinishUpgrade(j) \/ AbandonUpgrade(j) PROVE RestTypeOK'
    BY <1>15 DEF FinishUpgrade, AbandonUpgrade, TypeOK, RestTypeOK
  <1>16. ASSUME NEW j \in upgrades, RestartUpgrade(j) PROVE RestTypeOK'
    BY <1>16 DEF RestartUpgrade, TypeOK, RestTypeOK
  <1> QED BY <1>2, <1>3, <1>4, <1>5, <1>6, <1>7, <1>8, <1>9, <1>10, <1>11, <1>13, <1>14, <1>15, <1>16
          DEF Next

(* Every variable of the mempool model stays in its domain, and the table  *)
(* and the queue of `Mempool' always hold the same transactions.           *)
THEOREM MempoolTypeCorrect == Spec => []TypeOK
  <1>1. Init => TypeOK
    BY ChainAssumption DEF Init, TypeOK, NoUpdater, Pool
  <1>2. TypeOK /\ [Next]_vars => TypeOK'
    <2>1. ASSUME TypeOK, Next PROVE TypeOK'
      BY <2>1, PoolTypeStep, RestTypeStep DEF TypeOK, PoolTypeOK, RestTypeOK
    <2>2. ASSUME TypeOK, UNCHANGED vars PROVE TypeOK'
      BY <2>2 DEF TypeOK, vars, poolVars, Pool
    <2> QED BY <2>1, <2>2
  <1> QED BY <1>1, <1>2, PTL DEF Spec
------------------------------------------------------------------------------
(* `Mempool' never holds two transactions that spend the same coin:        *)
(* `insert' evicts every conflict, and no other step adds a transaction.   *)
THEOREM MempoolNoConflicts == Spec => []NoConflicts
  <1>1. Init => NoConflicts
    BY DEF Init, NoConflicts, Pool
  <1>2. TypeOK /\ NoConflicts /\ [Next]_vars => NoConflicts'
    <2>1. ASSUME TypeOK, NoConflicts, Next PROVE NoConflicts'
      <3>1. ASSUME NEW S, Keeps(S) PROVE NoConflicts'
        BY <2>1, <3>1 DEF Keeps, NoConflicts, Pool
      <3>2. ASSUME NEW t \in Txs, NEW e \in Entries, NEW L, TakesIn(t, e, L) PROVE NoConflicts'
        <4>1. Pool' \subseteq {t} \cup (Pool \ transaction_conflicts_with(t))
          BY <3>2 DEF TakesIn, Pool
        <4>2. \A u \in Pool \ transaction_conflicts_with(t) : Inputs[u] \cap Inputs[t] = {}
          BY DEF transaction_conflicts_with
        <4> QED BY <2>1, <4>1, <4>2 DEF NoConflicts
      <3>3. ASSUME HandleUpdatedMempoolTxs PROVE NoConflicts'
        BY <2>1, <3>3 DEF HandleUpdatedMempoolTxs, NoConflicts, Pool
      <3> QED BY <2>1, <3>1, <3>2, <3>3, PoolEffect
    <2>2. ASSUME NoConflicts, UNCHANGED vars PROVE NoConflicts'
      BY <2>2 DEF NoConflicts, vars, poolVars, Pool
    <2> QED BY <2>1, <2>2
  <1> QED BY <1>1, <1>2, MempoolTypeCorrect, PTL DEF Spec

(* The wallet hears of every transaction that enters `Mempool' and is told *)
(* of a removal only when the transaction is gone.                         *)
THEOREM MempoolWalletKnows == Spec => []WalletKnowsMempool
  <1>1. Init => WalletKnowsMempool
    BY DEF Init, WalletKnowsMempool, Pool
  <1>2. TypeOK /\ WalletKnowsMempool /\ [Next]_vars => WalletKnowsMempool'
    <2>1. ASSUME TypeOK, WalletKnowsMempool, Next PROVE WalletKnowsMempool'
      <3>1. ASSUME NEW S, Keeps(S) PROVE WalletKnowsMempool'
        BY <2>1, <3>1 DEF Keeps, WalletKnowsMempool, Pool
      <3>2. ASSUME NEW t \in Txs, NEW e \in Entries, NEW L, TakesIn(t, e, L) PROVE WalletKnowsMempool'
        BY <2>1, <3>2 DEF TakesIn, WalletKnowsMempool, Pool
      <3>3. ASSUME HandleUpdatedMempoolTxs PROVE WalletKnowsMempool'
        BY <2>1, <3>3 DEF HandleUpdatedMempoolTxs, WalletKnowsMempool, Pool
      <3> QED BY <2>1, <3>1, <3>2, <3>3, PoolEffect
    <2>2. ASSUME WalletKnowsMempool, UNCHANGED vars PROVE WalletKnowsMempool'
      BY <2>2 DEF WalletKnowsMempool, vars, poolVars, Pool
    <2> QED BY <2>1, <2>2
  <1> QED BY <1>1, <1>2, MempoolTypeCorrect, PTL DEF Spec
------------------------------------------------------------------------------
(* The coins spent up to a block are those spent up to its parent and its  *)
(* own.                                                                    *)
LEMMA SpentOnChild ==
    ASSUME NEW b \in Blocks, b # Genesis
    PROVE  SpentOn(b) \subseteq SpentOn(Prev(b)) \cup Spends[b]
  <1> DEFINE n == Len(Chain[b])
  <1>1. n \in Nat \ {0} /\ Chain[b][n] = b
    BY ChainFacts
  <1>2. /\ Len(Chain[Prev(b)]) = n - 1
        /\ \A i \in 1..(n - 1) : Chain[Prev(b)][i] = Chain[b][i]
    BY ParentFacts
  <1>3. ASSUME NEW i \in 1..n
        PROVE  Spends[Chain[b][i]] \subseteq SpentOn(Prev(b)) \cup Spends[b]
    <2>1. CASE i = n
      BY <1>1, <2>1
    <2>2. CASE i # n
      <3>1. i \in 1..Len(Chain[Prev(b)]) /\ Chain[b][i] = Chain[Prev(b)][i]
        BY <1>1, <1>2, <2>2
      <3> QED BY <3>1 DEF SpentOn
    <2> QED BY <2>1, <2>2
  <1> QED BY <1>3 DEF SpentOn

(* Every transaction is confirmable for the block it is synced to, and so  *)
(* is every result of an update, since a job starts from the block its     *)
(* transaction is synced to, and `update_with_block_and_predecessor' makes *)
(* none for a transaction that the new block double spends.                *)
ConfirmableInv ==
    /\ \A t \in Pool : Confirmable(t, tx_dictionary[t].synced)
    /\ \A j \in jobs \cup updater.jobs : j.synced = j.from => Confirmable(j.tx, j.to)
    /\ \A r \in updater.done : Confirmable(r.tx, r.synced)
    /\ batch \in Seq(Blocks \ {Genesis})

LEMMA PoolConfirmableStep ==
    ASSUME TypeOK, ConfirmableInv, Next
    PROVE  (\A t \in Pool : Confirmable(t, tx_dictionary[t].synced))'
  <1> DEFINE Goal == \A t \in DOMAIN tx_dictionary' : Confirmable(t, tx_dictionary'[t].synced)
  <1>1. ASSUME NEW S, Keeps(S) PROVE Goal
    BY <1>1 DEF Keeps, ConfirmableInv, Pool
  <1>2. ASSUME NEW t \in Txs, NEW e \in Entries, NEW L, TakesIn(t, e, L), Confirmable(t, e.synced)
        PROVE  Goal
    BY <1>2 DEF TakesIn, ConfirmableInv, Pool
  <1>3. ASSUME HandleUpdatedMempoolTxs PROVE Goal
    <2> SUFFICES ASSUME NEW t \in Pool PROVE Confirmable(t, tx_dictionary'[t].synced)
      BY <1>3 DEF HandleUpdatedMempoolTxs
    <2> DEFINE r == CHOOSE r \in updater.done : r.tx = t
    <2>1. CASE \E x \in updater.done : x.tx = t
      <3>1. r \in updater.done /\ r.tx = t
        BY <2>1
      <3>2. tx_dictionary'[t] = [tx_dictionary[t] EXCEPT !.proof = "single", !.synced = r.synced]
        BY <1>3, <2>1 DEF HandleUpdatedMempoolTxs
      <3> HIDE DEF r
      <3>3. tx_dictionary'[t].synced = r.synced
        BY <3>2 DEF TypeOK, Entries
      <3> QED BY <3>1, <3>3 DEF ConfirmableInv
    <2>2. CASE ~\E x \in updater.done : x.tx = t
      BY <1>3, <2>2 DEF HandleUpdatedMempoolTxs, ConfirmableInv
    <2> QED BY <2>1, <2>2
  <1>4. Goal
    BY <1>1, <1>2, <1>3, PoolEffect
  <1> QED BY <1>4 DEF Confirmable, SpentOn, Pool

JobsConfirmable ==
    /\ \A j \in jobs \cup updater.jobs : j.synced = j.from => Confirmable(j.tx, j.to)
    /\ \A r \in updater.done : Confirmable(r.tx, r.synced)
    /\ batch \in Seq(Blocks \ {Genesis})

LEMMA JobsConfirmableStep ==
    ASSUME TypeOK, ConfirmableInv, Next
    PROVE  JobsConfirmable'
  <1>1. ASSUME UNCHANGED <<jobs, updater, batch>> PROVE JobsConfirmable'
    BY <1>1 DEF ConfirmableInv, JobsConfirmable, Confirmable, SpentOn
  <1>2. ASSUME NEW bs \in Seq(Blocks), NewBlocks(bs) PROVE JobsConfirmable'
    <2>1. IsBlockList(bs) /\ batch' = bs /\ jobs' = {} /\ updater' = updater
      BY <1>2 DEF NewBlocks
    <2>2. \A i \in 1..Len(bs) : bs[i] # Genesis
      <3>1. ASSUME NEW i \in 1..Len(bs), i # 1 PROVE bs[i] # Genesis
        <4>1. i - 1 \in 1..(Len(bs) - 1) /\ (i - 1) + 1 = i
          BY <3>1
        <4> QED BY <2>1, <4>1 DEF IsBlockList
      <3> QED BY <2>1, <3>1 DEF IsBlockList
    <2>3. bs \in Seq(Blocks \ {Genesis})
      BY <2>2, <1>2
    <2>4. /\ \A j \in jobs' \cup updater'.jobs : j.synced = j.from => Confirmable(j.tx, j.to)
          /\ \A r \in updater'.done : Confirmable(r.tx, r.synced)
      BY <2>1 DEF ConfirmableInv
    <2> QED BY <2>1, <2>3, <2>4 DEF JobsConfirmable, Confirmable, SpentOn
  <1>3. ASSUME NEW bs \in BlockLists, NewBlocks(bs) PROVE JobsConfirmable'
    <2>1. bs \in Seq(Blocks)
      BY MempoolAssumption DEF BlockLists
    <2> QED BY <1>2, <1>3, <2>1
  <1>4. ASSUME NEW b \in Blocks, SelfGuessedBlock(b) PROVE JobsConfirmable'
    <2>1. <<b>> \in Seq(Blocks) /\ NewBlocks(<<b>>)
      BY <1>4 DEF SelfGuessedBlock
    <2> QED BY <1>2, <2>1
  <1>5. ASSUME SetNewTip PROVE JobsConfirmable'
    <2> DEFINE b       == Head(batch)
               start   == IF tip_digest = Prev(b) THEN Pool ELSE {}
               keep    == {t \in start : Inputs[t] \cap Spends[b] = {} /\ Updatable(t)}
               added   == {[tx |-> t, synced |-> tx_dictionary[t].synced,
                            from |-> Prev(b), to |-> b] : t \in keep}
               newJobs == jobs \cup added
    <2>1. batch # <<>> /\ batch' = Tail(batch)
      BY <1>5 DEF SetNewTip
    <2>2. IF Len(batch) = 1
          THEN updater' = [state |-> "running", jobs |-> newJobs, done |-> {}] /\ jobs' = {}
          ELSE jobs' = newJobs /\ UNCHANGED updater
      BY <1>5 DEF SetNewTip
    <2>3. b \in Blocks \ {Genesis} /\ batch' \in Seq(Blocks \ {Genesis})
      BY <2>1 DEF ConfirmableInv
    <2>4. ASSUME NEW j \in added, j.synced = j.from PROVE Confirmable(j.tx, j.to)
      <3>1. PICK t \in keep : j = [tx |-> t, synced |-> tx_dictionary[t].synced,
                                   from |-> Prev(b), to |-> b]
        BY <2>4
      <3>2. t \in Pool /\ Inputs[t] \cap Spends[b] = {}
        OBVIOUS
      <3>3. tx_dictionary[t].synced = Prev(b) /\ j.tx = t /\ j.to = b
        BY <2>4, <3>1
      <3>4. Inputs[t] \cap SpentOn(Prev(b)) = {}
        BY <3>2, <3>3 DEF ConfirmableInv, Confirmable
      <3>5. SpentOn(b) \subseteq SpentOn(Prev(b)) \cup Spends[b]
        BY <2>3, SpentOnChild
      <3> HIDE DEF b
      <3> QED BY <3>2, <3>3, <3>4, <3>5 DEF Confirmable
    <2> HIDE DEF b, added
    <2>5. \A j \in newJobs : j.synced = j.from => Confirmable(j.tx, j.to)
      BY <2>4 DEF ConfirmableInv
    <2> HIDE DEF newJobs
    <2>6. /\ \A j \in jobs' \cup updater'.jobs : j.synced = j.from => Confirmable(j.tx, j.to)
          /\ \A r \in updater'.done : Confirmable(r.tx, r.synced)
      BY <2>2, <2>5 DEF ConfirmableInv
    <2> QED BY <2>3, <2>6 DEF JobsConfirmable, Confirmable, SpentOn
  <1>6. ASSUME NEW j \in updater.jobs, UpdateJob(j) PROVE JobsConfirmable'
    <2>1. CASE j.synced = j.from
      <3>1. /\ updater' = [updater EXCEPT !.jobs = @ \ {j},
                                          !.done = @ \cup {[tx |-> j.tx, synced |-> j.to]}]
            /\ jobs' = jobs /\ batch' = batch
        BY <1>6, <2>1 DEF UpdateJob
      <3>2. /\ updater'.jobs = updater.jobs \ {j}
            /\ updater'.done = updater.done \cup {[tx |-> j.tx, synced |-> j.to]}
        BY <3>1 DEF TypeOK
      <3>3. Confirmable(j.tx, j.to)
        BY <2>1 DEF ConfirmableInv
      <3>4. /\ \A i \in jobs' \cup updater'.jobs : i.synced = i.from => Confirmable(i.tx, i.to)
            /\ \A r \in updater'.done : Confirmable(r.tx, r.synced)
        BY <3>1, <3>2, <3>3 DEF ConfirmableInv
      <3> QED BY <3>1, <3>4 DEF ConfirmableInv, JobsConfirmable, Confirmable, SpentOn
    <2>2. CASE j.synced # j.from
      BY <1>6, <2>2 DEF UpdateJob, NoUpdater, ConfirmableInv, JobsConfirmable, Confirmable, SpentOn
    <2> QED BY <2>1, <2>2
  <1>7. ASSUME UpdateFails \/ HandleUpdatedMempoolTxs PROVE JobsConfirmable'
    <2>1. jobs' = jobs /\ batch' = batch /\ updater'.jobs = {} /\ updater'.done = {}
      <3>1. CASE UpdateFails
        BY <3>1 DEF UpdateFails, NoUpdater
      <3>2. CASE HandleUpdatedMempoolTxs
        <4>1. jobs' = jobs /\ batch' = batch /\ updater' = NoUpdater
          BY <3>2 DEF HandleUpdatedMempoolTxs
        <4> QED BY <4>1 DEF NoUpdater
      <3> QED BY <1>7, <3>1, <3>2
    <2>2. /\ \A j \in jobs' \cup updater'.jobs : j.synced = j.from => Confirmable(j.tx, j.to)
          /\ \A r \in updater'.done : Confirmable(r.tx, r.synced)
      BY <2>1 DEF ConfirmableInv
    <2> QED BY <2>1, <2>2 DEF ConfirmableInv, JobsConfirmable, Confirmable, SpentOn
  <1>8. ASSUME \/ \E t \in PeerTxs, proof \in Proofs, x \in Blocks : PeerTransaction(t, proof, x)
               \/ \E t \in OwnTxs, proof \in Proofs, x \in tips, origin \in Origins :
                     SubmitTransaction(t, proof, x, origin)
               \/ ClearMempool
               \/ \E S \in SUBSET Pool : PruneStale(S)
               \/ \E t \in Pool : \E raised \in {t, Gobbled[t]} : UpgradeProofCollection(t, raised)
               \/ \E t, u \in Pool : UpgradeByMerge(t, u)
               \/ \E j \in upgrades : FinishUpgrade(j) \/ RestartUpgrade(j) \/ AbandonUpgrade(j)
        PROVE  JobsConfirmable'
    BY <1>1, <1>8 DEF PeerTransaction, SubmitTransaction, ClearMempool, PruneStale,
                      UpgradeProofCollection, UpgradeByMerge, SpawnProofUpgrader,
                      FinishUpgrade, RestartUpgrade, AbandonUpgrade
  <1> QED BY <1>3, <1>4, <1>5, <1>6, <1>7, <1>8 DEF Next

(* A transaction in `Mempool' that names the tip's mutator set is          *)
(* confirmable: what `get_transactions_for_block' gives a composer spends  *)
(* no coin twice, whatever blocks, upgrades and updates came in between.   *)
THEOREM MempoolSyncedIsConfirmable == Spec => []SyncedIsConfirmable
  <1>1. Init => ConfirmableInv
    BY DEF Init, ConfirmableInv, NoUpdater, Pool
  <1>2. TypeOK /\ ConfirmableInv /\ [Next]_vars => ConfirmableInv'
    <2>1. ASSUME TypeOK, ConfirmableInv, Next PROVE ConfirmableInv'
      BY <2>1, PoolConfirmableStep, JobsConfirmableStep DEF ConfirmableInv, JobsConfirmable
    <2>2. ASSUME ConfirmableInv, UNCHANGED vars PROVE ConfirmableInv'
      BY <2>2 DEF ConfirmableInv, vars, poolVars, Pool, Confirmable, SpentOn
    <2> QED BY <2>1, <2>2
  <1>3. ConfirmableInv => SyncedIsConfirmable
    BY DEF ConfirmableInv, SyncedIsConfirmable
  <1> QED BY <1>1, <1>2, <1>3, MempoolTypeCorrect, PTL DEF Spec
==============================================================================
