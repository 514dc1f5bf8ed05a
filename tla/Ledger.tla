------------------------------- MODULE Ledger -------------------------------
(***************************************************************************)
(* What the consensus programs make of amounts and time locks, from the    *)
(* wallet that initiates a transaction to the block that confirms it:      *)
(* transaction details, the transaction validity programs and the type     *)
(* scripts, proof upgrading with gobbled fees, merging, updating,          *)
(* composing, guessing and block validation.                               *)
(*                                                                         *)
(* A coin is an amount and a release date.  The mutator set is the         *)
(* sequence of all coins ever added and the set of those removed (module   *)
(* MutatorSet models how it is kept, and from there comes what             *)
(* `can_remove' says of a coin that is gone); `ms', the mutator set hash   *)
(* of a kernel, is the height it is synced to.  A proof is the fact that   *)
(* the program it proves halts on the kernel, if proving is not called     *)
(* off.  Merging shuffles inputs and outputs, which nothing here depends   *)
(* on, so the order of concatenation stands for every order.  Forks are    *)
(* module ArchivalState's.                                                 *)
(***************************************************************************)
EXTENDS Integers, Sequences, FiniteSets, SequencesExt

CONSTANTS
    Premine,                        \* the amounts the genesis block allocates
    PREMINE_LOCK,                   \* their time lock
    INITIAL_BLOCK_SUBSIDY, BLOCKS_PER_GENERATION,
    MINIMUM_BLOCK_TIME, FUTUREDATING_LIMIT,
    MINING_REWARD_TIME_LOCK_PERIOD,
    TIME_LOCK_MARGIN,               \* the 30 minutes of composer_outputs
    MAX_NUM_TXS_TO_MERGE,
    MAX_AMOUNT,                     \* NativeCurrencyAmount::max
    BATCH_SIZE,                     \* coins added before the Bloom filter's window slides
    Payments, Fees,                 \* what wallets may ask for
    GuesserFees,                    \* what composers may leave to guessers
    DatedAhead, DatedBack,          \* how far a relayed timestamp may be off
    MaxTime, MaxHeight, MaxInitiated     \* bounds of the model

VARIABLES
    now,        \* the clock, shared by all nodes
    chain,      \* per block: header timestamp, coinbase, coins spent and created
    aocl,       \* every coin ever created
    initiated,  \* how many transactions wallets have made (a bound)
    pool,       \* the transactions the network relays
    proposal,   \* {} or one block template on the tip, with its time of composition
    failed      \* the steps that ended in a panic or an error

vars == <<now, chain, aocl, initiated, pool, proposal, failed>>

Liquid == -1    \* the release date of a coin without a time lock

Amounts(coins) == FoldLeft(LAMBDA sum, coin : sum + coin.amount, 0, coins)

Height == Len(chain) - 1

Tip == chain[Len(chain)]

InputCoins(k) == [i \in DOMAIN k.inputs |-> aocl[k.inputs[i]]]

Coinbase(k) == SumSet(k.coinbase)

Spent == UNION {chain[h].spent : h \in DOMAIN chain}

-----------------------------------------------------------------------------
(***************************************************************************)
(* The block subsidy, halved every generation.                             *)
(***************************************************************************)
get_generation(height) == height \div BLOCKS_PER_GENERATION

block_subsidy(height) == INITIAL_BLOCK_SUBSIDY \div (2 ^ get_generation(height))

(***************************************************************************)
(* The conditions under which the programs of a transaction's proof halt.  *)
(***************************************************************************)
\* removal_records_integrity.rs: every input is a leaf of the mutator set.
InputsAreLeafs(k) == Range(k.inputs) \subseteq DOMAIN aocl

CoinbaseHasNoInputs(k) == k.coinbase # {} => k.inputs = <<>>

RemovalRecordsIntegrity(k) == InputsAreLeafs(k) /\ CoinbaseHasNoInputs(k)

\* native_currency.rs, from its subroutines up.
AmountsInRange(coins) == \A coin \in Range(coins) : coin.amount \in 0 .. MAX_AMOUNT

\* Outputs locked for the whole reward period from the kernel's timestamp on.
TimelockedAmount(k) ==
    Amounts(SelectSeq(k.outputs, LAMBDA coin :
        coin.release >= k.timestamp + MINING_REWARD_TIME_LOCK_PERIOD))

CoinbaseFeeIsLegal(k) == k.coinbase # {} => k.fee >= 0

TotalInput(k) == Amounts(InputCoins(k)) + Coinbase(k)

TotalOutputIsLegal(k) == Amounts(k.outputs) \in 0 .. MAX_AMOUNT

CoinbaseTimelockSuffices(k) ==
    k.coinbase # {} => TimelockedAmount(k) + k.fee \div 2 >= Coinbase(k) \div 2

NoInflation(k) ==
    /\ k.fee \in -MAX_AMOUNT .. MAX_AMOUNT
    /\ TotalInput(k) = Amounts(k.outputs) + k.fee

NativeCurrency(k) ==
    /\ CoinbaseFeeIsLegal(k)
    /\ AmountsInRange(InputCoins(k)) /\ AmountsInRange(k.outputs)
    /\ TotalOutputIsLegal(k)
    /\ CoinbaseTimelockSuffices(k)
    /\ NoInflation(k)

\* time_lock.rs: the release date of every input has passed.
IsReleased(coin, timestamp) == coin.release < timestamp

TimeLock(k) == \A coin \in Range(InputCoins(k)) : IsReleased(coin, k.timestamp)

\* Only the type scripts found on some input or output are run.
CollectTypeScripts(k) ==
    /\ k.inputs # <<>> \/ k.outputs # <<>> => NativeCurrency(k)
    /\ (\E coin \in Range(InputCoins(k)) \cup Range(k.outputs) : coin.release # Liquid) => TimeLock(k)

ProofCollection(k) == RemovalRecordsIntegrity(k) /\ CollectTypeScripts(k)

\* single_proof.rs, the proof collection case: nothing has been merged yet.
SingleProof(k) == ProofCollection(k) /\ ~k.merge_bit

-----------------------------------------------------------------------------
(***************************************************************************)
(* Transactions as the node makes them.                                    *)
(***************************************************************************)
\* PrimitiveWitness::from_transaction_details
Kernel(inputs, outputs, fee, coinbase, timestamp) ==
    [inputs |-> inputs, outputs |-> outputs, fee |-> fee, coinbase |-> coinbase,
     timestamp |-> timestamp, ms |-> Height, merge_bit |-> FALSE]

nop(timestamp) == Kernel(<<>>, <<>>, 0, {}, timestamp)

\* TransactionDetails::new: balanced, and every input a member.
IsBalanced(k) ==
    /\ Amounts(k.outputs) + k.fee = Amounts(InputCoins(k)) + Coinbase(k)
    /\ Range(k.inputs) \cap Spent = {}

fee_gobbler(gobbled_fee, timestamp) ==
    LET liquid == gobbled_fee \div 2
    IN  Kernel(<<>>,
               <<[amount |-> liquid, release |-> Liquid],
                 [amount |-> gobbled_fee - liquid,
                  release |-> timestamp + MINING_REWARD_TIME_LOCK_PERIOD]>>,
               -gobbled_fee, {}, timestamp)

\* Mutant: the rounding error goes to the liquid amount.
composer_outputsRoundedUp(coinbase_amount, guesser_fee, timestamp) ==
    LET to_composer == coinbase_amount - guesser_fee
        locked == to_composer \div 2
    IN  <<[amount |-> to_composer - locked, release |-> Liquid],
          [amount |-> locked,
           release |-> timestamp + MINING_REWARD_TIME_LOCK_PERIOD + TIME_LOCK_MARGIN]>>

composer_outputs(coinbase_amount, guesser_fee, timestamp) ==
    LET to_composer == coinbase_amount - guesser_fee
        liquid == to_composer \div 2
    IN  <<[amount |-> liquid, release |-> Liquid],
          [amount |-> to_composer - liquid,
           release |-> timestamp + MINING_REWARD_TIME_LOCK_PERIOD + TIME_LOCK_MARGIN]>>

prepare_coinbase_transaction(guesser_fee, timestamp) ==
    LET coinbase_amount == block_subsidy(Height + 1)
        outputs == composer_outputs(coinbase_amount, guesser_fee, timestamp)
    IN  Kernel(<<>>, outputs, coinbase_amount - Amounts(outputs), {coinbase_amount}, timestamp)

(***************************************************************************)
(* merge_branch.rs: when the program accepts `new' as the merger of two    *)
(* proven kernels.  A negative fee may only be on the left, and goes.      *)
(***************************************************************************)
InputsAndOutputsArePermuted(left, right, new) ==
    /\ ToBag(new.inputs) = ToBag(left.inputs \o right.inputs)
    /\ ToBag(new.outputs) = ToBag(left.outputs \o right.outputs)

FeeIsSum(left, right, new) ==
    /\ right.fee \in 0 .. MAX_AMOUNT
    /\ left.fee + right.fee \in 0 .. MAX_AMOUNT
    /\ new.fee = left.fee + right.fee

TimestampIsMax(left, right, new) ==
    new.timestamp = IF left.timestamp < right.timestamp THEN right.timestamp ELSE left.timestamp

MutatorSetHashesAgree(left, right, new) == left.ms = new.ms /\ right.ms = new.ms

CoinbaseIsKept(left, right, new) ==
    /\ left.coinbase = {} \/ right.coinbase = {}
    /\ new.coinbase = left.coinbase \cup right.coinbase

MergeBranch(left, right, new) ==
    /\ InputsAndOutputsArePermuted(left, right, new)
    /\ FeeIsSum(left, right, new)
    /\ CoinbaseIsKept(left, right, new)
    /\ TimestampIsMax(left, right, new)
    /\ MutatorSetHashesAgree(left, right, new)
    /\ new.merge_bit

(***************************************************************************)
(* update_branch.rs: `new' is `old' for a later mutator set.               *)
(***************************************************************************)
InputsAreKept(old, new) == new.inputs # <<>> /\ Range(new.inputs) = Range(old.inputs)

UpdateBranch(old, new) ==
    /\ InputsAreKept(old, new)
    /\ new.outputs = old.outputs
    /\ new.fee = old.fee
    /\ new.coinbase = {} /\ old.coinbase = {}
    /\ new.timestamp >= old.timestamp
    /\ new.merge_bit = old.merge_bit

\* MergeWitness::new_kernel, and its assertions.
CanMerge(left, right) == left.ms = right.ms /\ right.fee >= 0

new_kernel(left, right) ==
    [inputs |-> left.inputs \o right.inputs,
     outputs |-> left.outputs \o right.outputs,
     fee |-> left.fee + right.fee,
     coinbase |-> left.coinbase \cup right.coinbase,
     timestamp |-> IF left.timestamp >= right.timestamp THEN left.timestamp ELSE right.timestamp,
     ms |-> left.ms,
     merge_bit |-> TRUE]

\* Transaction::merge_with: the node builds the merger and the program accepts it.
MergeHalts(left, right) ==
    CanMerge(left, right) /\ MergeBranch(left, right, new_kernel(left, right))

\* A transaction with gobbled_fee taken off its fee.
Gobbled(k, gobbled_fee) ==
    IF gobbled_fee > 0 THEN new_kernel(fee_gobbler(gobbled_fee, k.timestamp), k) ELSE k

GobblerFits(k, gobbled_fee) ==
    gobbled_fee > 0 =>
        LET gobbler == fee_gobbler(gobbled_fee, k.timestamp)
        IN  IsBalanced(gobbler) /\ SingleProof(gobbler) /\ MergeHalts(gobbler, k)

-----------------------------------------------------------------------------
(***************************************************************************)
(* Block validation, and what a valid block does.                          *)
(***************************************************************************)
\* BlockProgram: the fee is legal, the merge bit set, the transaction proven.
BlockProgram(k) == k.fee \in 0 .. MAX_AMOUNT /\ k.merge_bit

HeaderIsValid(timestamp) ==
    /\ Tip.timestamp + MINIMUM_BLOCK_TIME <= timestamp
    /\ timestamp < now + FUTUREDATING_LIMIT

(***************************************************************************)
(* MutatorSetAccumulator::can_remove takes the start of the active window  *)
(* from num_leafs / BATCH_SIZE.  When num_leafs is a multiple of           *)
(* BATCH_SIZE the window has not slid yet, every index is looked up one    *)
(* chunk too low, and a coin that is gone has an index that looks absent   *)
(* (module MutatorSet has the filter itself).                              *)
(***************************************************************************)
WindowIsMisread(num_leafs) == num_leafs > 0 /\ num_leafs % BATCH_SIZE = 0

can_remove(i, num_leafs) == i \notin Spent \/ WindowIsMisread(num_leafs)

CanRemoveAll(k, num_leafs) == \A i \in Range(k.inputs) : can_remove(i, num_leafs)

\* Checks 2.a on the set before the block, 2.b, and 2.c after its additions.
InputsAreValid(k) ==
    /\ k.ms = Height
    /\ CanRemoveAll(k, Len(aocl))
    /\ IsInjective(k.inputs)
    /\ CanRemoveAll(k, Len(aocl) + Len(k.outputs))

AmountsAreLegal(k) ==
    /\ \A c \in k.coinbase : c \in 0 .. block_subsidy(Height + 1)
    /\ k.fee >= 0

\* Mutant: without check 2.e.
IsValidUndated(k, timestamp) ==
    /\ HeaderIsValid(timestamp)
    /\ BlockProgram(k)
    /\ InputsAreValid(k)
    /\ AmountsAreLegal(k)

IsValid(k, timestamp) ==
    /\ HeaderIsValid(timestamp)
    /\ BlockProgram(k)
    /\ InputsAreValid(k)
    /\ k.timestamp <= timestamp
    /\ AmountsAreLegal(k)

\* Mutant: both halves are rounded down.
guesser_fee_utxosHalves(fee, timestamp) ==
    <<[amount |-> fee \div 2, release |-> timestamp + MINING_REWARD_TIME_LOCK_PERIOD],
      [amount |-> fee \div 2, release |-> Liquid]>>

guesser_fee_utxos(fee, timestamp) ==
    LET locked == fee \div 2
    IN  <<[amount |-> locked, release |-> timestamp + MINING_REWARD_TIME_LOCK_PERIOD],
          [amount |-> fee - locked, release |-> Liquid]>>

-----------------------------------------------------------------------------
genesis ==
    [timestamp |-> 0, coinbase |-> {}, spent |-> {},
     created |-> [i \in DOMAIN Premine |-> [amount |-> Premine[i], release |-> PREMINE_LOCK]]]

Init ==
    /\ now = 0
    /\ chain = <<genesis>>
    /\ aocl = genesis.created
    /\ initiated = 0
    /\ pool = {}
    /\ proposal = {}
    /\ failed = {}

Tick ==
    /\ now < MaxTime
    /\ Height < MaxHeight
    /\ now' = now + 1
    /\ UNCHANGED <<chain, aocl, initiated, pool, proposal, failed>>

\* TransactionKernel::is_confirmable_relative_to the tip.
IsConfirmable(k) ==
    /\ k.ms = Height
    /\ IsInjective(k.inputs)
    /\ CanRemoveAll(k, Len(aocl))

\* What the handler of a peer's Transaction accepts, if the proof is valid.
IsRelayed(k) ==
    /\ k.coinbase = {}
    /\ k.fee >= 0
    /\ IsConfirmable(k)
    /\ CanRemoveAll(k, Len(aocl) + Len(k.outputs))
    /\ k.timestamp \in now - DatedBack .. now + DatedAhead

(***************************************************************************)
(* A wallet selects coins it can spend at `timestamp', in any order, until *)
(* they cover `target'; here at most two.                                  *)
(***************************************************************************)
can_spend_at(coin, timestamp) == coin.release < timestamp

Released(timestamp) ==
    {i \in DOMAIN aocl : aocl[i].amount > 0 /\ can_spend_at(aocl[i], timestamp)}

Spendable(timestamp) == Released(timestamp) \ Spent

InputSelections(coins, target) ==
    {<<i>> : i \in {i \in coins : aocl[i].amount >= target}}
        \cup {p \in coins \X coins :
                /\ p[1] # p[2]
                /\ aocl[p[1]].amount < target
                /\ aocl[p[1]].amount + aocl[p[2]].amount >= target}

\* TransactionDetailsBuilder::build, with a change output if there is change.
TransactionDetails(inputs, payment, fee, timestamp) ==
    LET change == Amounts([i \in DOMAIN inputs |-> aocl[inputs[i]]]) - payment - fee
    IN  Kernel(inputs,
               <<[amount |-> payment, release |-> Liquid]>> \o
                   (IF change > 0 THEN <<[amount |-> change, release |-> Liquid]>> ELSE <<>>),
               fee, {}, timestamp)

Initiate(payment, fee, timestamp) ==
    /\ Height < MaxHeight
    /\ initiated < MaxInitiated
    /\ \E inputs \in InputSelections(Spendable(timestamp), payment + fee) :
          LET k == TransactionDetails(inputs, payment, fee, timestamp)
              halts == IsBalanced(k) /\ ProofCollection(k)
          IN  /\ IsRelayed(k)
              /\ pool' = IF halts THEN pool \cup {[kernel |-> k, proof |-> "ProofCollection"]}
                         ELSE pool
              /\ failed' = IF halts THEN failed ELSE failed \cup {"initiate"}
    /\ initiated' = initiated + 1
    /\ UNCHANGED <<now, chain, aocl, proposal>>

(***************************************************************************)
(* A peer relays a transaction that was made elsewhere.  Its proof says    *)
(* that its inputs are leafs and that amounts and time locks are right;    *)
(* whether they are unspent is left to `is_confirmable_relative_to'.  With *)
(* unspent inputs only it is one that Initiate makes as well.              *)
(***************************************************************************)
ReceiveTransaction(payment, fee, timestamp) ==
    /\ Height < MaxHeight
    /\ initiated < MaxInitiated
    /\ \E inputs \in InputSelections(Released(timestamp), payment + fee) :
          LET k == TransactionDetails(inputs, payment, fee, timestamp)
          IN  /\ Range(inputs) \cap Spent # {}
              /\ ProofCollection(k)
              /\ IsRelayed(k)
              /\ pool' = pool \cup {[kernel |-> k, proof |-> "ProofCollection"]}
    /\ initiated' = initiated + 1
    /\ UNCHANGED <<now, chain, aocl, proposal, failed>>

\* A proving job ends in a transaction that takes the place of `old' in every
\* mempool, or in an error.  handle_upgrade drops what is not confirmable;
\* the update of a mempool does not look.
Prove(job, halts, old, k) ==
    /\ Height < MaxHeight
    /\ IF halts
       THEN /\ pool' = IF job = "update" \/ IsConfirmable(k)
                       THEN (pool \ old) \cup {[kernel |-> k, proof |-> "SingleProof"]}
                       ELSE pool
            /\ failed' = failed
       ELSE /\ pool' = pool
            /\ failed' = failed \cup {job}
    /\ UNCHANGED <<now, chain, aocl, initiated, proposal>>

Disjoint(k, l) == Range(k.inputs) \cap Range(l.inputs) = {}

(***************************************************************************)
(* UpgradeJob::ProofCollectionToSingleProof, charging gobbled_fee.         *)
(***************************************************************************)
UpgradeProof(tx, gobbled_fee) ==
    /\ tx.proof = "ProofCollection"
    /\ tx.kernel.ms = Height
    /\ Prove("upgrade",
             SingleProof(tx.kernel) /\ GobblerFits(tx.kernel, gobbled_fee),
             {tx}, Gobbled(tx.kernel, gobbled_fee))

(***************************************************************************)
(* UpgradeJob::Merge of two transactions of one mempool, so without common *)
(* inputs, charging gobbled_fee on their joint fee.                        *)
(***************************************************************************)
Merge(left, right, gobbled_fee) ==
    LET merged == new_kernel(left.kernel, right.kernel)
    IN  /\ left.proof = "SingleProof" /\ right.proof = "SingleProof"
        /\ left.kernel.ms = Height /\ right.kernel.ms = Height
        /\ left # right /\ Disjoint(left.kernel, right.kernel)
        /\ Prove("merge",
                 MergeHalts(left.kernel, right.kernel) /\ GobblerFits(merged, gobbled_fee),
                 {left, right}, Gobbled(merged, gobbled_fee))

(***************************************************************************)
(* UpgradeJob::UpdateMutatorSetData, after a block.                        *)
(***************************************************************************)
Update(tx) ==
    /\ tx.proof = "SingleProof"
    /\ tx.kernel.ms # Height
    /\ LET new == [tx.kernel EXCEPT !.ms = Height]
       IN  Prove("update", UpdateBranch(tx.kernel, new), {tx}, new)

(***************************************************************************)
(* compose_block: the coinbase transaction merged with synced transactions *)
(* of the mempool, or with a nop, in a template for the tip.               *)
(***************************************************************************)
\* Mutant: the minimum block time is not waited for.
ComposeTimestampNow == now

ComposeTimestamp ==
    LET earliest == Tip.timestamp + MINIMUM_BLOCK_TIME
    IN  IF now >= earliest THEN now ELSE earliest

\* The merges of create_block_transaction_from, and whether all of them succeed.
MergeAll(coinbase_transaction, to_merge) ==
    FoldLeft(LAMBDA acc, k : [kernel |-> new_kernel(acc.kernel, k),
                              halts |-> acc.halts /\ MergeHalts(acc.kernel, k)],
             [kernel |-> coinbase_transaction,
              halts |-> IsBalanced(coinbase_transaction) /\ SingleProof(coinbase_transaction)],
             to_merge)

\* A node that has a proposal replaces it by one that rewards the guesser more.
IsFavored(k) == \A p \in proposal : k.fee > p.kernel.fee

Compose(txs, guesser_fee) ==
    LET timestamp == ComposeTimestamp
        chosen == [i \in DOMAIN txs |-> txs[i].kernel]
        block_transaction ==
            MergeAll(prepare_coinbase_transaction(guesser_fee, timestamp),
                     IF chosen = <<>> THEN <<nop(timestamp)>> ELSE chosen)
    IN  /\ Height < MaxHeight
        /\ Len(txs) <= MAX_NUM_TXS_TO_MERGE
        /\ \A i \in DOMAIN txs : txs[i].proof = "SingleProof" /\ txs[i].kernel.ms = Height
        /\ \A i, j \in DOMAIN txs : i # j => Disjoint(txs[i].kernel, txs[j].kernel)
        /\ block_transaction.halts => IsFavored(block_transaction.kernel)
        /\ proposal' = IF block_transaction.halts
                       THEN {[kernel |-> block_transaction.kernel, time |-> now]}
                       ELSE proposal
        /\ failed' = IF block_transaction.halts THEN failed ELSE failed \cup {"compose"}
        /\ UNCHANGED <<now, chain, aocl, initiated, pool>>

(***************************************************************************)
(* The mine loop has stopped composing: the watch channel cancels the      *)
(* proving job of the moment.  An error from the coinbase or the nop goes  *)
(* up and the composer ends; one from a merge meets an `expect'.           *)
(***************************************************************************)
InterruptCompose(at) ==
    /\ Height < MaxHeight
    /\ failed' = IF at = "merge" THEN failed \cup {"interrupted merge"} ELSE failed
    /\ UNCHANGED <<now, chain, aocl, initiated, pool, proposal>>

(***************************************************************************)
(* A guesser that started on the proposal at `timestamp' finds a nonce.  A *)
(* block that is not valid is dropped.  The mempools keep what can still   *)
(* be updated: single proofs without a spent input.                        *)
(***************************************************************************)
FindBlock(p, timestamp) ==
    LET k == p.kernel
        created == k.outputs \o guesser_fee_utxos(k.fee, timestamp)
    IN  /\ IsValid(k, timestamp)
        /\ chain' = Append(chain, [timestamp |-> timestamp, coinbase |-> k.coinbase,
                                   spent |-> Range(k.inputs), created |-> created])
        /\ aocl' = aocl \o created
        /\ pool' = {tx \in pool : tx.proof = "SingleProof" /\ Disjoint(tx.kernel, k)}
        /\ proposal' = {}
        /\ UNCHANGED <<now, initiated, failed>>

\* A failure ends a behaviour: it takes no other task with it, so what follows
\* it is what follows without it.
Next ==
    /\ failed = {}
    /\ \/ Tick
       \/ \E payment \in Payments, fee \in Fees, timestamp \in 0 .. now + DatedAhead :
             Initiate(payment, fee, timestamp) \/ ReceiveTransaction(payment, fee, timestamp)
       \/ \E tx \in pool : \E gobbled_fee \in 0 .. tx.kernel.fee : UpgradeProof(tx, gobbled_fee)
       \/ \E left, right \in pool : \E gobbled_fee \in 0 .. left.kernel.fee + right.kernel.fee :
             Merge(left, right, gobbled_fee)
       \/ \E tx \in pool : Update(tx)
       \/ \E S \in SUBSET pool, guesser_fee \in GuesserFees \cap 0 .. block_subsidy(Height + 1) :
             Compose(SetToSeq(S), guesser_fee)
       \/ \E at \in {"transaction", "merge"} : InterruptCompose(at)
       \/ \E p \in proposal : \E timestamp \in p.time .. now : FindBlock(p, timestamp)

Spec == Init /\ [][Next]_vars

-----------------------------------------------------------------------------
UnspentAmount == MapThenSumSet(LAMBDA i : aocl[i].amount, DOMAIN aocl \ Spent)

Issued == MapThenSumSet(LAMBDA h : SumSet(chain[h].coinbase), DOMAIN chain)

\* The coins of block h that an earlier block has spent already.
Respent(h) == chain[h].spent \cap UNION {chain[g].spent : g \in 1 .. h - 1}

LeafsBefore(h) == Len(FlattenSeq([g \in 1 .. h - 1 |-> chain[g].created]))

\* The additions of block h without the two of its guesser, which come last.
LeafsWithin(h) == LeafsBefore(h) + Len(chain[h].created) - 2

(***************************************************************************)
(* Block::block_subsidy: what is unspent is the premine, the coinbases of  *)
(* the blocks, none of them above the subsidy of its height, and once more *)
(* every coin that was spent again.  A coin is spent again only in a block *)
(* that both begins and has its outputs added at a multiple of BATCH_SIZE, *)
(* where can_remove misreads the window; elsewhere the supply grows by the *)
(* coinbase alone.  The sums are checked once, when a transaction is       *)
(* proven from its witness; they have to survive gobbling, merging and     *)
(* updating, and the guesser's coins are created outside of every          *)
(* transaction.                                                            *)
(***************************************************************************)
SupplyIsAccountedFor ==
    /\ UnspentAmount =
          Amounts(genesis.created) + Issued +
              MapThenSumSet(LAMBDA h : MapThenSumSet(LAMBDA i : aocl[i].amount, Respent(h)),
                            DOMAIN chain)
    /\ \A h \in DOMAIN chain :
          /\ SumSet(chain[h].coinbase) <=
                INITIAL_BLOCK_SUBSIDY \div (2 ^ ((h - 1) \div BLOCKS_PER_GENERATION))
          /\ Respent(h) # {} =>
                LeafsBefore(h) % BATCH_SIZE = 0 /\ LeafsWithin(h) % BATCH_SIZE = 0

(***************************************************************************)
(* time_lock.rs: no coin is spent in a block dated on or before its        *)
(* release date, although the program sees the date of the transaction     *)
(* that its owner made and not that of the block.                          *)
(***************************************************************************)
NoEarlySpend ==
    \A h \in DOMAIN chain : \A i \in chain[h].spent : aocl[i].release < chain[h].timestamp

(***************************************************************************)
(* The expectations in fee_gobbler, prepare_coinbase_transaction_stateless *)
(* and create_block_transaction_from.  What a wallet may spend can be      *)
(* proven, every program halts on what was relayed, and what upgraders     *)
(* relay is acceptable.  "Must be able to merge transactions in mining     *)
(* context" is right about the programs and fails, with a panic of the     *)
(* composer, in one case only: the merge was called off while it ran.      *)
(***************************************************************************)
OnlyInterruptedJobsFail ==
    /\ failed \subseteq {"interrupted merge"}
    /\ \A tx \in pool : tx.kernel.coinbase = {} /\ tx.kernel.fee >= 0

(***************************************************************************)
(* compose_block: a template is valid on the tip it was composed for, at   *)
(* every later date that is not before the dates of its transactions.  One *)
(* with a coin that is gone need not be: the mempool took it at a multiple *)
(* of BATCH_SIZE, and its own outputs or the next block lead off it.       *)
(***************************************************************************)
TemplatesAreValid ==
    \A p \in proposal :
        Range(p.kernel.inputs) \cap Spent = {} =>
            \A timestamp \in p.kernel.timestamp .. now : IsValid(p.kernel, timestamp)
=============================================================================
