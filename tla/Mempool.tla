------------------------------- MODULE Mempool -------------------------------
(***************************************************************************)
(* The mempool, the wallet's record of it, and everyone who changes it:    *)
(* the main loop with transactions of peers, of the user and new blocks,   *)
(* the task that updates transactions to a new block, the proof upgraders. *)
(*                                                                         *)
(* A transaction is its kernel id, which an update to a new block leaves   *)
(* unchanged; a mempool entry adds the kind of proof, the block whose      *)
(* mutator set the kernel names, and the origin.  Operations on the global *)
(* state hold its write lock, so each is one step; a list of new blocks is *)
(* applied block by block under one lock, which `batch' stands for.        *)
(***************************************************************************)
EXTENDS ForkChoice, FiniteSets, FiniteSetsExt, Functions

CONSTANTS
    Txs,            \* kernel ids of all transactions, upgraded ones included
    OwnTxs,         \* those made here or handed in by RPC
    PeerTxs,        \* those that peers relay
    NoTx,
    Inputs,         \* the coins each transaction spends
    Fee,
    Size,           \* size of a transaction by its proof and the block it is synced to
    Gobbled,        \* the transaction that charges a fee for upgrading one
    FewProofs,      \* those whose collections are not too large to be raised here
    Merged,         \* the merger of two transactions, NoTx beyond the bound
    MaxLength,      \* max_length
    MaxSize,        \* max_total_size
    Composing,      \* cli: compose
    SingleProver,   \* cli: tx_proving_capability is SingleProof
    SearchDepth,    \* SEARCH_DEPTH_FOR_BLOCKS_FOR_MS_UPDATE_PROOF
    MaxBatch,       \* bound: blocks a peer sends at once
    MaxUpgrades     \* bound: proof upgrades under way

Proofs  == {"witness", "collection", "single"}
Origins == {"own", "foreign"}

ASSUME MempoolAssumption ==
    /\ OwnTxs \subseteq Txs /\ PeerTxs \subseteq Txs /\ NoTx \notin Txs
    /\ FewProofs \subseteq Txs
    /\ Inputs \in [Txs -> SUBSET Utxos]
    /\ Fee \in [Txs -> Nat]
    /\ Size \in [Txs -> [Proofs -> [Blocks -> Nat \ {0}]]]
    /\ Gobbled \in [Txs -> Txs] /\ \A t \in Txs : Inputs[Gobbled[t]] = Inputs[t]
    /\ Merged \in [Txs -> [Txs -> Txs \cup {NoTx}]]
    /\ \A t, u \in Txs : Merged[t][u] # NoTx => Inputs[Merged[t][u]] = Inputs[t] \cup Inputs[u]
    /\ MaxLength \in Nat /\ MaxSize \in Nat
    /\ Composing \in BOOLEAN /\ SingleProver \in BOOLEAN
    /\ SearchDepth \in Nat /\ MaxBatch \in Nat \ {0} /\ MaxUpgrades \in Nat

VARIABLES
    tip,            \* light state
    tips,           \* history: blocks that have been tip
    tx_dictionary,  \* kernel id |-> [proof, synced, origin]
    queue,          \* kernel id |-> fee density at insertion
    tip_digest,     \* the mempool's own sync label
    wallet,         \* keys of mempool_spent_utxos and mempool_unspent_utxos
    batch,          \* blocks of the list being applied that are still to come
    jobs,           \* update jobs collected for that list
    updater,        \* the task that runs the update jobs of the latest list
    upgrades        \* proof upgrades under way, with the result they will have

poolVars == <<tx_dictionary, queue>>
vars     == <<tip, tips, poolVars, tip_digest, wallet, batch, jobs, updater, upgrades>>

NoUpdater == [state |-> "none", jobs |-> {}, done |-> {}]
Pool      == DOMAIN tx_dictionary
Unlocked  == batch = <<>>

Init ==
    /\ tip = Genesis /\ tips = {Genesis} /\ tip_digest = Genesis
    /\ tx_dictionary = [t \in {} |-> NoTx] /\ queue = [t \in {} |-> NoTx]
    /\ wallet = {}
    /\ batch = <<>> /\ jobs = {} /\ updater = NoUpdater /\ upgrades = {}

(* `is_confirmable_relative_to' the mutator set of block b.                *)
Confirmable(t, b) == Inputs[t] \cap SpentOn(b) = {}
------------------------------------------------------------------------------
SizeOf(t, e) == Size[t][e.proof][e.synced]

(* `fee_density': a fraction.                                              *)
fee_density(t, e) == [fee |-> Fee[t], size |-> SizeOf(t, e)]

Sparser(x, y) == x.fee * y.size < y.fee * x.size

(* The outcomes of popping the least dense transaction while there are too *)
(* many: those that stay.  Equal densities leave the choice open.          *)
ShrinkOutcomes(S, density, fits(_)) ==
    IF fits(S) THEN {S}
    ELSE { K \in SUBSET S :
             /\ fits(K) \/ K = {}
             /\ \A v \in S \ K, k \in K : ~Sparser(density[k], density[v])
             /\ \E v \in S \ K : /\ \A u \in S \ K : ~Sparser(density[v], density[u])
                                /\ ~fits(K \cup {v}) }

TotalSize(d, K) == MapThenSumSet(LAMBDA t : SizeOf(t, d[t]), K)

shrink_to_max_size(d, q) ==
    ShrinkOutcomes(DOMAIN d, q, LAMBDA K : TotalSize(d, K) <= MaxSize)

shrink_to_max_length(K, q) == ShrinkOutcomes(K, q, LAMBDA L : Cardinality(L) <= MaxLength)

(* Mutant: finds only transactions that spend all of the new one's inputs. *)
ConflictsOnAllInputs(t) == {c \in Pool : Inputs[t] # {} /\ Inputs[t] \subseteq Inputs[c]}

transaction_conflicts_with(t) == {c \in Pool : Inputs[c] \cap Inputs[t] # {}}

new_tx_has_higher_proof_quality(t, proof, conflicts) ==
    \/ proof = "collection" /\ \E c \in conflicts : tx_dictionary[c].proof = "witness"
    \/ proof = "single" /\ \E c \in conflicts : tx_dictionary[c].proof # "single" \/ c = t

better_fee_density(t, e, conflicts) ==
    \E c \in conflicts : Sparser(fee_density(c, tx_dictionary[c]), fee_density(t, e))

Replaces(t, e, conflicts) ==
    \/ conflicts = {}
    \/ new_tx_has_higher_proof_quality(t, e.proof, conflicts)
    \/ better_fee_density(t, e, conflicts)

Put(t, x, f) == [u \in {t} \cup DOMAIN f |-> IF u = t THEN x ELSE f[u]]

(* Mutant: the wallet hears of the insertion before the removals.          *)
InsertEventsReversed(t, e) ==
    LET conflicts == transaction_conflicts_with(t)
        d == Put(t, e, Restrict(tx_dictionary, Pool \ conflicts))
        q == Put(t, fee_density(t, e), Restrict(queue, Pool \ conflicts))
    IN  IF Replaces(t, e, conflicts)
        THEN /\ \E K \in shrink_to_max_size(d, q) : \E L \in shrink_to_max_length(K, q) :
                   tx_dictionary' = Restrict(d, L) /\ queue' = Restrict(q, L)
             /\ wallet' = (wallet \cup {t}) \ conflicts
        ELSE UNCHANGED <<poolVars, wallet>>

(* `GlobalState::mempool_insert' of transaction t with entry e: conflicts  *)
(* out, transaction in, shrink.  The wallet hears of the former two.       *)
Insert(t, e) ==
    LET conflicts == transaction_conflicts_with(t)
        d == Put(t, e, Restrict(tx_dictionary, Pool \ conflicts))
        q == Put(t, fee_density(t, e), Restrict(queue, Pool \ conflicts))
    IN  IF Replaces(t, e, conflicts)
        THEN /\ \E K \in shrink_to_max_size(d, q) : \E L \in shrink_to_max_length(K, q) :
                   tx_dictionary' = Restrict(d, L) /\ queue' = Restrict(q, L)
             /\ wallet' = (wallet \ conflicts) \cup {t}
        ELSE UNCHANGED <<poolVars, wallet>>

(* The very transaction that is in the mempool is not inserted again.      *)
InsertAgain(t, e) ==
    /\ t \in Pool /\ Inputs[t] # {}
    /\ tx_dictionary[t].proof = e.proof /\ tx_dictionary[t].synced = e.synced
    /\ UNCHANGED <<poolVars, wallet>>

mempool_insert(t, proof, synced, origin) ==
    LET e == [proof |-> proof, synced |-> synced, origin |-> origin]
    IN  Insert(t, e) \/ InsertAgain(t, e)

(* `mempool_remove', `mempool_clear', `mempool_prune_stale_transactions':  *)
(* the wallet hears of every removal.                                      *)
Remove(S) ==
    /\ tx_dictionary' = Restrict(tx_dictionary, Pool \ S)
    /\ queue' = Restrict(queue, Pool \ S)
    /\ wallet' = wallet \ (S \cap Pool)
------------------------------------------------------------------------------
(* A transaction relayed by a peer task, made for the tip x of the peer    *)
(* that made it.  The peer task found it confirmable for our tip and not   *)
(* yet known; the main loop drops it when the tip has moved meanwhile, but *)
(* does not look again whether it is known.                                *)
PeerTransaction(t, proof, x) ==
    /\ Unlocked
    /\ proof # "witness" /\ Confirmable(t, x) /\ Confirmable(t, tip)
    /\ mempool_insert(t, proof, x, "foreign")
    /\ UNCHANGED <<tip, tips, tip_digest, batch, jobs, updater, upgrades>>

(* A transaction of the user (`record_transaction'), or one that comes in  *)
(* by JSON-RPC: it was made for a block x that was tip at the time.  One   *)
(* that only has a primitive witness is handed to a proof upgrader.        *)
SubmitTransaction(t, proof, x, origin) ==
    /\ Unlocked
    /\ x \in tips /\ Confirmable(t, x)
    /\ proof = "witness" => origin = "own"
    /\ mempool_insert(t, proof, x, origin)
    /\ IF proof = "witness"
       THEN /\ Cardinality(upgrades) < MaxUpgrades
            /\ upgrades' = upgrades \cup
                   {[tx |-> t, proof |-> IF SingleProver THEN "single" ELSE "collection",
                     synced |-> x, origin |-> "own", task |-> "user"]}
       ELSE UNCHANGED upgrades
    /\ UNCHANGED <<tip, tips, tip_digest, batch, jobs, updater>>

ClearMempool ==
    /\ Unlocked
    /\ Remove(Pool)
    /\ UNCHANGED <<tip, tips, tip_digest, batch, jobs, updater, upgrades>>

(* The timer of the main loop; any transactions may have become too old.   *)
PruneStale(S) ==
    /\ Unlocked
    /\ S # {} /\ S \subseteq Pool
    /\ Remove(S)
    /\ UNCHANGED <<tip, tips, tip_digest, batch, jobs, updater, upgrades>>
------------------------------------------------------------------------------
(* `PeerTaskToMain::NewBlocks' with a list of blocks, each the parent of   *)
(* the next, and the first one's parent known.                             *)
IsBlockList(bs) ==
    /\ bs[1] # Genesis
    /\ \A i \in 1..(Len(bs) - 1) : bs[i + 1] # Genesis /\ Prev(bs[i + 1]) = bs[i]

NewBlocks(bs) ==
    /\ Unlocked
    /\ IsBlockList(bs) /\ Prev(bs[1]) \in tips
    /\ MoreCanonical(tip, bs[Len(bs)])
    /\ batch' = bs /\ jobs' = {}
    /\ UNCHANGED <<tip, tips, poolVars, tip_digest, wallet, updater, upgrades>>

(* `handle_self_guessed_block': a block found here or handed in by RPC.    *)
SelfGuessedBlock(b) == NewBlocks(<<b>>)

(* Transactions that `update_with_block_and_predecessor' keeps: of those   *)
(* not double spent by the block, those it can update.                     *)
Updatable(t) ==
    /\ Composing \/ tx_dictionary[t].origin = "own"
    /\ Inputs[t] # {}
    /\ tx_dictionary[t].proof = "single" /\ SingleProver

(* The mempool's part of `set_new_tip' for the next block of the list.     *)
(* A reorganisation clears the mempool, and no event of this or of the     *)
(* final shrink is passed on.  After the last block the update task of the *)
(* previous list is aborted and one for the collected jobs is spawned.     *)
SetNewTip ==
    /\ batch # <<>>
    /\ LET b       == Head(batch)
           start   == IF tip_digest = Prev(b) THEN Pool ELSE {}
           keep    == {t \in start : Inputs[t] \cap Spends[b] = {} /\ Updatable(t)}
           newJobs == jobs \cup {[tx |-> t, synced |-> tx_dictionary[t].synced,
                                  from |-> Prev(b), to |-> b] : t \in keep}
       IN  /\ \E K \in shrink_to_max_size(Restrict(tx_dictionary, keep), queue) :
                  /\ tx_dictionary' = Restrict(tx_dictionary, K)
                  /\ queue' = Restrict(queue, K)
           /\ wallet' = wallet \ (start \ keep)
           /\ tip' = b /\ tips' = tips \cup {b} /\ tip_digest' = b
           /\ IF Len(batch) = 1
              THEN /\ updater' = [state |-> "running", jobs |-> newJobs, done |-> {}]
                   /\ jobs' = {}
              ELSE jobs' = newJobs /\ UNCHANGED updater
    /\ batch' = Tail(batch)
    /\ UNCHANGED upgrades
------------------------------------------------------------------------------
(* The update task proves the jobs one by one, in some order.  A job whose *)
(* kernel does not belong to the mutator set it starts from is an error,   *)
(* and the task panics.                                                    *)
UpdateJob(j) ==
    /\ updater.state = "running" /\ j \in updater.jobs
    /\ updater' = IF j.synced = j.from
                  THEN [updater EXCEPT !.jobs = @ \ {j},
                                       !.done = @ \cup {[tx |-> j.tx, synced |-> j.to]}]
                  ELSE [NoUpdater EXCEPT !.state = "dead"]
    /\ UNCHANGED <<tip, tips, poolVars, tip_digest, wallet, batch, jobs, upgrades>>

(* The prover fails, and the task panics as well.                          *)
UpdateFails ==
    /\ updater.state = "running" /\ updater.jobs # {}
    /\ updater' = [NoUpdater EXCEPT !.state = "dead"]
    /\ UNCHANGED <<tip, tips, poolVars, tip_digest, wallet, batch, jobs, upgrades>>

(* The main loop receives the results and writes them over the entries.    *)
HandleUpdatedMempoolTxs ==
    /\ Unlocked
    /\ updater.state = "running" /\ updater.jobs = {}
    /\ tx_dictionary' = [t \in Pool |->
           IF \E r \in updater.done : r.tx = t
           THEN [tx_dictionary[t] EXCEPT !.proof = "single",
                    !.synced = (CHOOSE r \in updater.done : r.tx = t).synced]
           ELSE tx_dictionary[t]]
    /\ updater' = NoUpdater
    /\ UNCHANGED <<tip, tips, queue, tip_digest, wallet, batch, jobs, upgrades>>
------------------------------------------------------------------------------
Densest(S) == {t \in S : \A u \in S : ~Sparser(queue[t], queue[u])}

WithProof(proof) == {t \in Pool : tx_dictionary[t].proof = proof}

(* `most_dense_proof_collection' passes over collections with more proofs  *)
(* than the machine is said to handle.                                     *)
MostDenseProofCollection == Densest(WithProof("collection") \cap FewProofs)

(* `proof_upgrader' spawns its task when the previous one has finished.    *)
SpawnProofUpgrader(t, origin) ==
    /\ SingleProver
    /\ \A j \in upgrades : j.task # "upgrader"
    /\ Cardinality(upgrades) < MaxUpgrades
    /\ upgrades' = upgrades \cup {[tx |-> t, proof |-> "single", synced |-> tip,
                                   origin |-> origin, task |-> "upgrader"]}
    /\ UNCHANGED <<tip, tips, poolVars, tip_digest, wallet, batch, jobs, updater>>

(* The two densest single proofs are in sync with the tip.                 *)
SyncedPair(t, u) ==
    /\ t \in Densest(WithProof("single")) /\ u \in Densest(WithProof("single") \ {t})
    /\ tx_dictionary[t].synced = tip /\ tx_dictionary[u].synced = tip

(* `get_upgrade_task_from_mempool': the densest proof collection is raised *)
(* to a single proof, for a fee unless the transaction is our own.  That   *)
(* of a stranger waits until the two densest single proofs are in sync.    *)
UpgradeProofCollection(t, raised) ==
    /\ Unlocked
    /\ t \in MostDenseProofCollection /\ tx_dictionary[t].synced = tip
    /\ \/ tx_dictionary[t].origin = "own" /\ raised = t
       \/ /\ tx_dictionary[t].origin = "foreign" /\ raised \in {t, Gobbled[t]}
          /\ Cardinality(WithProof("single")) < 2 \/ \E v, w \in Pool : SyncedPair(v, w)
    /\ SpawnProofUpgrader(raised, tx_dictionary[t].origin)

(* Or these two are merged, unless a proof collection is out of sync or    *)
(* our own.                                                                *)
UpgradeByMerge(t, u) ==
    /\ Unlocked
    /\ SyncedPair(t, u) /\ Merged[t][u] # NoTx
    /\ \/ MostDenseProofCollection = {}
       \/ \E c \in MostDenseProofCollection :
             tx_dictionary[c].synced = tip /\ tx_dictionary[c].origin = "foreign"
    /\ SpawnProofUpgrader(Merged[t][u],
           IF "own" \in {tx_dictionary[t].origin, tx_dictionary[u].origin} THEN "own" ELSE "foreign")

(* Mutant: does not look whether the transaction was mined meanwhile.      *)
FinishUpgradeUnchecked(j) ==
    /\ Unlocked
    /\ j \in upgrades /\ j.synced = tip
    /\ mempool_insert(j.tx, j.proof, tip, j.origin)
    /\ upgrades' = upgrades \ {j}
    /\ UNCHANGED <<tip, tips, tip_digest, batch, jobs, updater>>

(* `handle_upgrade', once the proof is there and the lock is taken.  When  *)
(* the kernel still belongs to the tip, it goes into the mempool unless    *)
(* an input was spent meanwhile.                                           *)
FinishUpgrade(j) ==
    /\ Unlocked
    /\ j \in upgrades /\ j.synced = tip
    /\ IF Confirmable(j.tx, tip)
       THEN mempool_insert(j.tx, j.proof, tip, j.origin)
       ELSE Remove({j.tx})
    /\ upgrades' = upgrades \ {j}
    /\ UNCHANGED <<tip, tips, tip_digest, batch, jobs, updater>>

(* When the tip has moved on, the result is updated to the new tip...      *)
RestartUpgrade(j) ==
    /\ Unlocked
    /\ j \in upgrades /\ j.synced # tip
    /\ Height(tip) - Height(j.synced) \in 0..SearchDepth
    /\ Chain[tip][Len(Chain[j.synced])] = j.synced
    /\ upgrades' = (upgrades \ {j}) \cup {[j EXCEPT !.synced = tip]}
    /\ UNCHANGED <<tip, tips, poolVars, tip_digest, wallet, batch, jobs, updater>>

(* ... and given up when the prover fails or its block was abandoned.      *)
AbandonUpgrade(j) ==
    /\ j \in upgrades
    /\ upgrades' = upgrades \ {j}
    /\ UNCHANGED <<tip, tips, poolVars, tip_digest, wallet, batch, jobs, updater>>
------------------------------------------------------------------------------
BlockLists == UNION {[1..n -> Blocks] : n \in 1..MaxBatch}

Next ==
    \/ \E t \in PeerTxs, proof \in Proofs, x \in Blocks : PeerTransaction(t, proof, x)
    \/ \E t \in OwnTxs, proof \in Proofs, x \in tips, origin \in Origins :
          SubmitTransaction(t, proof, x, origin)
    \/ ClearMempool
    \/ \E S \in SUBSET Pool : PruneStale(S)
    \/ \E bs \in BlockLists : NewBlocks(bs)
    \/ \E b \in Blocks : SelfGuessedBlock(b)
    \/ SetNewTip
    \/ \E j \in updater.jobs : UpdateJob(j)
    \/ UpdateFails
    \/ HandleUpdatedMempoolTxs
    \/ \E t \in Pool : \E raised \in {t, Gobbled[t]} : UpgradeProofCollection(t, raised)
    \/ \E t, u \in Pool : UpgradeByMerge(t, u)
    \/ \E j \in upgrades : FinishUpgrade(j) \/ RestartUpgrade(j) \/ AbandonUpgrade(j)

Spec == Init /\ [][Next]_vars
------------------------------------------------------------------------------
Entries == [proof : Proofs, synced : Blocks, origin : Origins]
Jobs    == [tx : Txs, synced : Blocks, from : Blocks, to : Blocks]

(* Every variable stays in its domain; table and queue hold the same       *)
(* transactions, as the assertions of `insert' demand.                     *)
TypeOK ==
    /\ tip \in Blocks /\ tips \subseteq Blocks /\ tip_digest \in Blocks
    /\ Pool \subseteq Txs /\ tx_dictionary \in [Pool -> Entries]
    /\ queue \in [Pool -> [fee : Nat, size : Nat \ {0}]]
    /\ wallet \subseteq Txs
    /\ batch \in Seq(Blocks) /\ jobs \subseteq Jobs
    /\ updater \in [state : {"none", "running", "dead"}, jobs : SUBSET Jobs,
                     done : SUBSET [tx : Txs, synced : Blocks]]
    /\ upgrades \subseteq [tx : Txs, proof : Proofs, synced : Blocks, origin : Origins,
                            task : {"user", "upgrader"}]

(* No two transactions in the mempool spend the same coin.                 *)
NoConflicts ==
    \A t, u \in Pool : t # u => Inputs[t] \cap Inputs[u] = {}

(* A transaction that names the tip's mutator set, so that a composer may  *)
(* put it into the next block, spends no coin spent already.  It may have  *)
(* come in for an older block, or have been upgraded or updated while      *)
(* blocks arrived.                                                         *)
SyncedIsConfirmable ==
    \A t \in Pool : tx_dictionary[t].synced = tip => Confirmable(t, tip)

(* The wallet knows of every transaction in the mempool, so that it counts *)
(* no coin as spendable that one of them spends.                           *)
WalletKnowsMempool == Pool \subseteq wallet

==============================================================================
